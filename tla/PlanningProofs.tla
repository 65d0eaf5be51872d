--------------------------- MODULE PlanningProofs ---------------------------
(***************************************************************************)
(* What holds of the planners of a day whatever the tasks, calendars and   *)
(* drafts are:                                                             *)
(*                                                                         *)
(*   - Drafts: a drafted task is created once (TodayDrafts);               *)
(*   - Passes, Books: a pass of the day's allocator advances, and its      *)
(*     several books of what is taken agree (SmartAllocation);             *)
(*   - Day: the operations of a day keep its schedule sound (DayPlanning). *)
(*                                                                         *)
(* The sections before them prove what the library's folds add up to, by   *)
(* induction over the natural numbers and the subsets of a finite set,     *)
(* how long the sessions of a task are, and what merging intervals does;   *)
(* PreviewProofs uses them too.                                            *)
(***************************************************************************)
EXTENDS DayPlanning, TodayDrafts, FiniteSetTheorems, WellFoundedInduction, TLAPS

-----------------------------------------------------------------------------
(* Induction, and the sums of a function over a finite set *)

Below == {ss \in Nat \X Nat : ss[1] < ss[2]}

\* Induction: the natural numbers, by the library's well-founded minima.
LEMMA BelowIsWellFounded == IsWellFoundedOn(Below, Nat)
  BY NatLessThanWellFounded, Zenon DEF OpToRel, Below

\* Every set of natural numbers has a least member.
LEMMA LeastMember ==
  ASSUME NEW T, T \subseteq Nat, T # {}
  PROVE  \E m \in T : \A k \in T : m <= k
<1>1. \E x \in T : \A y \in T : ~ (<<y, x>> \in Below)
  BY BelowIsWellFounded, WFMin
<1>2. PICK x \in T : \A y \in T : ~ (<<y, x>> \in Below)
  BY <1>1
<1>3. \A y \in T : ~ (y < x)
  BY <1>2 DEF Below
<1> QED BY <1>3

\* Induction, with the set of the numbers the claim holds of.
LEMMA Counting ==
  ASSUME NEW T, T \subseteq Nat, 0 \in T, \A n \in T : n + 1 \in T
  PROVE  T = Nat
<1> SUFFICES ASSUME Nat \ T # {} PROVE FALSE OBVIOUS
<1>1. PICK m \in Nat \ T : \A k \in Nat \ T : m <= k
  BY LeastMember, Nat \ T \subseteq Nat
<1>2. m # 0 BY <1>1
<1>3. m - 1 \in Nat BY <1>1, <1>2
<1>4. m - 1 \in T BY <1>1, <1>3
<1>5. (m - 1) + 1 \in T BY <1>4
<1> QED BY <1>1, <1>5

Body(f, g, s) ==
  IF s = {} THEN 0 ELSE f[CHOOSE x \in s : TRUE] + g[s \ {CHOOSE x \in s : TRUE}]

IsIter(f, S, g) == g = [s \in SUBSET S |-> Body(f, g, s)]

\* The function a recursion over the subsets of a finite set defines exists.
LEMMA FoldExists ==
  ASSUME NEW S, IsFiniteSet(S), NEW f
  PROVE  \E g : IsIter(f, S, g)
<1> DEFINE D(n) == {s \in SUBSET S : Cardinality(s) < n}
<1> DEFINE T == {n \in Nat : \E g : g = [s \in D(n) |-> Body(f, g, s)]}
<1>0. \A s \in SUBSET S : IsFiniteSet(s) /\ Cardinality(s) \in Nat
  BY FS_Subset, FS_CardinalityType
<1>1. 0 \in T
  <2>1. D(0) = {} BY <1>0
  <2>2. PICK g : g = [s \in {} |-> 0] OBVIOUS
  <2>3. g = [s \in D(0) |-> Body(f, g, s)] BY <2>1, <2>2
  <2> QED BY <2>3
<1>2. ASSUME NEW n \in T PROVE n + 1 \in T
  <2>1. PICK g : g = [s \in D(n) |-> Body(f, g, s)] BY <1>2
  <2> DEFINE h == [s \in D(n + 1) |-> IF s \in D(n) THEN g[s] ELSE Body(f, g, s)]
  <2>2. ASSUME NEW s \in D(n + 1), s # {}
        PROVE  s \ {CHOOSE x \in s : TRUE} \in D(n)
    <3>1. (CHOOSE x \in s : TRUE) \in s BY <2>2
    <3>2. Cardinality(s \ {CHOOSE x \in s : TRUE}) = Cardinality(s) - 1
      BY <3>1, <1>0, FS_RemoveElement
    <3> QED BY <3>2, <2>2, <1>0
  <2>3. D(n) \subseteq D(n + 1) BY <1>0
  <2>4. ASSUME NEW s \in D(n + 1) PROVE h[s] = Body(f, h, s)
    <3>1. CASE s = {}
      <4>1. Body(f, g, s) = 0 /\ Body(f, h, s) = 0 BY <3>1 DEF Body
      <4>2. s \in D(n) => g[s] = Body(f, g, s) BY <2>1
      <4> QED BY <4>1, <4>2
    <3>2. CASE s # {}
      <4>1. h[s \ {CHOOSE x \in s : TRUE}] = g[s \ {CHOOSE x \in s : TRUE}]
        BY <2>2, <2>3, <3>2
      <4>2. Body(f, h, s) = Body(f, g, s) BY <4>1 DEF Body
      <4>3. s \in D(n) => g[s] = Body(f, g, s) BY <2>1
      <4> QED BY <4>2, <4>3
    <3> QED BY <3>1, <3>2
  <2>5. h = [s \in D(n + 1) |-> Body(f, h, s)] BY <2>4
  <2> HIDE DEF h
  <2> QED BY <2>5
<1>3. T = Nat
  <2> HIDE DEF T
  <2>1. T \subseteq Nat BY DEF T
  <2> QED BY <1>1, <1>2, <2>1, Counting
<1>4. Cardinality(S) + 1 \in T
  <2> HIDE DEF T
  <2> QED BY <1>0, <1>3, S \in SUBSET S
<1>5. D(Cardinality(S) + 1) = SUBSET S
  <2>1. \A s \in SUBSET S : Cardinality(s) <= Cardinality(S) BY FS_Subset
  <2> QED BY <2>1, <1>0
<1> QED BY <1>4, <1>5 DEF IsIter

Sum(f, S) == MapThenSumSet(LAMBDA x : f[x], S)
Iter(f, S) == CHOOSE g : g = [s \in SUBSET S |-> Body(f, g, s)]

\* The sum of a function over a set, as a recursion over its subsets.
LEMMA SumIsIter == ASSUME NEW f, NEW S PROVE Sum(f, S) = Iter(f, S)[S]
  BY Zenon DEF Sum, Iter, Body, MapThenSumSet, MapThenFoldSet

LEMMA IterDef ==
  ASSUME NEW S, IsFiniteSet(S), NEW f
  PROVE  Iter(f, S) = [s \in SUBSET S |-> Body(f, Iter(f, S), s)]
<1>1. \E g : IsIter(f, S, g) BY FoldExists
<1> QED BY <1>1, Zenon DEF Iter, IsIter

LEMMA IterAgree ==
  ASSUME NEW S, IsFiniteSet(S), NEW T, IsFiniteSet(T), NEW f, NEW g,
         NEW s, s \subseteq S, s \subseteq T, \A x \in s : f[x] = g[x]
  PROVE  Iter(f, S)[s] = Iter(g, T)[s]
<1> DEFINE Agree(n) == \A u \in SUBSET s : Cardinality(u) = n => Iter(f, S)[u] = Iter(g, T)[u]
<1> DEFINE N == {n \in Nat : Agree(n)}
<1>0. \A u \in SUBSET s : IsFiniteSet(u) /\ Cardinality(u) \in Nat
  BY FS_Subset, FS_CardinalityType
<1>1. \A u \in SUBSET s : /\ Iter(f, S)[u] = Body(f, Iter(f, S), u)
                          /\ Iter(g, T)[u] = Body(g, Iter(g, T), u)
  <2>1. s \in SUBSET S /\ s \in SUBSET T OBVIOUS
  <2>2. \A u \in SUBSET s : u \in SUBSET S /\ u \in SUBSET T BY <2>1
  <2>3. Iter(f, S) = [u \in SUBSET S |-> Body(f, Iter(f, S), u)] BY IterDef
  <2>4. Iter(g, T) = [u \in SUBSET T |-> Body(g, Iter(g, T), u)] BY IterDef
  <2> QED BY <2>2, <2>3, <2>4, Zenon
<1>2. Agree(0)
  <2>1. \A u \in SUBSET s : Cardinality(u) = 0 => u = {} BY <1>0, FS_EmptySet
  <2> QED BY <2>1, <1>1 DEF Body
<1>3. ASSUME NEW n \in Nat, Agree(n) PROVE Agree(n + 1)
  <2> SUFFICES ASSUME NEW u \in SUBSET s, Cardinality(u) = n + 1
               PROVE  Iter(f, S)[u] = Iter(g, T)[u]
    OBVIOUS
  <2>1. u # {} BY FS_EmptySet
  <2>2. PICK c : c = (CHOOSE x \in u : TRUE) OBVIOUS
  <2>3. c \in u BY <2>1, <2>2
  <2>4. Cardinality(u \ {c}) = n /\ u \ {c} \in SUBSET s
    <3>1. IsFiniteSet(u) BY <1>0
    <3>2. Cardinality(u \ {c}) = Cardinality(u) - 1 BY <2>3, <3>1, FS_RemoveElement
    <3> QED BY <3>2
  <2>5. Iter(f, S)[u \ {c}] = Iter(g, T)[u \ {c}] BY <2>4, <1>3
  <2>6. f[c] = g[c] BY <2>3
  <2>7. Iter(f, S)[u] = f[c] + Iter(f, S)[u \ {c}] BY <1>1, <2>1, <2>2 DEF Body
  <2>8. Iter(g, T)[u] = g[c] + Iter(g, T)[u \ {c}] BY <1>1, <2>1, <2>2 DEF Body
  <2> QED BY <2>5, <2>6, <2>7, <2>8
<1>4. N = Nat
  <2>1. 0 \in N BY <1>2
  <2>2. \A n \in N : n + 1 \in N BY <1>3
  <2>3. N \subseteq Nat OBVIOUS
  <2> HIDE DEF N
  <2> QED BY <2>1, <2>2, <2>3, Counting
<1>5. Agree(Cardinality(s)) 
  <2>1. Cardinality(s) \in N BY <1>0, <1>4, s \in SUBSET s
  <2> QED BY <2>1
<1> QED BY <1>5

\* A sum takes one value of a choice, and the sum of the others.
LEMMA SumStep ==
  ASSUME NEW S, IsFiniteSet(S), NEW f, S # {}
  PROVE  \E c \in S : Sum(f, S) = f[c] + Sum(f, S \ {c})
<1>1. PICK c : c = (CHOOSE x \in S : TRUE) OBVIOUS
<1>2. c \in S BY <1>1
<1>3. Iter(f, S) = [s \in SUBSET S |-> Body(f, Iter(f, S), s)] BY IterDef
<1>4. Iter(f, S)[S] = Body(f, Iter(f, S), S) BY <1>3, S \in SUBSET S, Zenon
<1>5. Iter(f, S)[S] = f[c] + Iter(f, S)[S \ {c}] BY <1>4, <1>1 DEF Body
<1>6. IsFiniteSet(S \ {c}) BY FS_RemoveElement
<1>7. Iter(f, S)[S \ {c}] = Iter(f, S \ {c})[S \ {c}]
  <2>1. S \ {c} \subseteq S /\ S \ {c} \subseteq S \ {c} OBVIOUS
  <2> QED BY <1>6, <2>1, IterAgree
<1> QED BY <1>2, <1>5, <1>7, SumIsIter

LEMMA SumEmpty == ASSUME NEW f PROVE Sum(f, {}) = 0
<1>1. IsFiniteSet({}) BY FS_EmptySet
<1>2. Iter(f, {}) = [s \in SUBSET {} |-> Body(f, Iter(f, {}), s)] BY <1>1, IterDef
<1>3. Iter(f, {})[{}] = Body(f, Iter(f, {}), {}) BY <1>2, {} \in SUBSET {}, Zenon
<1> QED BY <1>3, SumIsIter DEF Body

LEMMA SumAgrees ==
  ASSUME NEW S, IsFiniteSet(S), NEW f, NEW g, \A x \in S : f[x] = g[x]
  PROVE  Sum(f, S) = Sum(g, S)
<1>1. Iter(f, S)[S] = Iter(g, S)[S] BY IterAgree, S \subseteq S
<1> QED BY <1>1, SumIsIter

\* Induction over the subsets of a finite set.
LEMMA SubsetInduction ==
  ASSUME NEW S, IsFiniteSet(S), NEW Q, Q \subseteq SUBSET S, {} \in Q,
         \A s \in SUBSET S : s # {} /\ (\A x \in s : s \ {x} \in Q) => s \in Q
  PROVE  S \in Q
<1> DEFINE N == {n \in Nat : \A u \in SUBSET S : Cardinality(u) = n => u \in Q}
<1>0. \A u \in SUBSET S : IsFiniteSet(u) /\ Cardinality(u) \in Nat
  BY FS_Subset, FS_CardinalityType
<1>1. 0 \in N
  <2>1. \A u \in SUBSET S : Cardinality(u) = 0 => u = {} BY <1>0, FS_EmptySet
  <2> QED BY <2>1
<1>2. ASSUME NEW n \in N PROVE n + 1 \in N
  <2> SUFFICES ASSUME NEW u \in SUBSET S, Cardinality(u) = n + 1 PROVE u \in Q
    OBVIOUS
  <2>1. u # {} BY FS_EmptySet
  <2>2. ASSUME NEW x \in u PROVE u \ {x} \in Q
    <3>1. Cardinality(u \ {x}) = n BY <1>0, FS_RemoveElement
    <3> QED BY <3>1
  <2> QED BY <2>1, <2>2
<1>3. N = Nat
  <2>1. N \subseteq Nat OBVIOUS
  <2> HIDE DEF N
  <2> QED BY <1>1, <1>2, <2>1, Counting
<1>4. Cardinality(S) \in N
  <2> HIDE DEF N
  <2> QED BY <1>0, <1>3, S \in SUBSET S
<1> QED BY <1>4

LEMMA SumTyped ==
  ASSUME NEW S, IsFiniteSet(S), NEW f, \A x \in S : f[x] \in Int
  PROVE  Sum(f, S) \in Int
<1> DEFINE Q == {s \in SUBSET S : Sum(f, s) \in Int}
<1>1. {} \in Q BY SumEmpty
<1>2. ASSUME NEW s \in SUBSET S, s # {}, \A x \in s : s \ {x} \in Q PROVE s \in Q
  <2>1. IsFiniteSet(s) BY FS_Subset
  <2>2. PICK c \in s : Sum(f, s) = f[c] + Sum(f, s \ {c}) BY <1>2, <2>1, SumStep
  <2>3. Sum(f, s \ {c}) \in Int BY <1>2
  <2>4. f[c] \in Int OBVIOUS
  <2> QED BY <2>2, <2>3, <2>4
<1> HIDE DEF Q
<1>3. S \in Q
  <2>1. Q \subseteq SUBSET S BY DEF Q
  <2> QED BY <1>1, <1>2, <2>1, SubsetInduction
<1> QED BY <1>3 DEF Q

\* Any element may be taken first.
LEMMA SumRemove ==
  ASSUME NEW S, IsFiniteSet(S), NEW f, \A x \in S : f[x] \in Int, NEW e \in S
  PROVE  Sum(f, S) = f[e] + Sum(f, S \ {e})
<1> DEFINE Q == {s \in SUBSET S : \A d \in s : Sum(f, s) = f[d] + Sum(f, s \ {d})}
<1>1. {} \in Q OBVIOUS
<1>2. ASSUME NEW s \in SUBSET S, s # {}, \A x \in s : s \ {x} \in Q PROVE s \in Q
  <2> SUFFICES ASSUME NEW d \in s PROVE Sum(f, s) = f[d] + Sum(f, s \ {d}) OBVIOUS
  <2>1. IsFiniteSet(s) BY FS_Subset
  <2>2. PICK c \in s : Sum(f, s) = f[c] + Sum(f, s \ {c}) BY <1>2, <2>1, SumStep
  <2>3. CASE c = d BY <2>2, <2>3
  <2>4. CASE c # d
    <3>1. Sum(f, s \ {c}) = f[d] + Sum(f, (s \ {c}) \ {d}) BY <1>2, <2>4
    <3>2. Sum(f, s \ {d}) = f[c] + Sum(f, (s \ {d}) \ {c}) BY <1>2, <2>4
    <3>3. (s \ {c}) \ {d} = (s \ {d}) \ {c} OBVIOUS
    <3>4. Sum(f, (s \ {d}) \ {c}) \in Int
      <4>1. IsFiniteSet((s \ {d}) \ {c}) BY <2>1, FS_RemoveElement
      <4> QED BY <4>1, SumTyped
    <3>5. f[c] \in Int /\ f[d] \in Int OBVIOUS
    <3>6. Sum(f, (s \ {c}) \ {d}) = Sum(f, (s \ {d}) \ {c}) BY <3>3, Zenon
    <3> QED BY <2>2, <3>1, <3>2, <3>4, <3>5, <3>6
  <2> QED BY <2>3, <2>4
<1> HIDE DEF Q
<1>3. S \in Q
  <2>1. Q \subseteq SUBSET S BY DEF Q
  <2> QED BY <1>1, <1>2, <2>1, SubsetInduction
<1> QED BY <1>3 DEF Q

LEMMA SumNatural ==
  ASSUME NEW S, IsFiniteSet(S), NEW f, \A x \in S : f[x] \in Nat
  PROVE  Sum(f, S) \in Nat
<1> DEFINE Q == {s \in SUBSET S : Sum(f, s) \in Nat}
<1>1. {} \in Q BY SumEmpty
<1>2. ASSUME NEW s \in SUBSET S, s # {}, \A x \in s : s \ {x} \in Q PROVE s \in Q
  <2>1. IsFiniteSet(s) BY FS_Subset
  <2>2. PICK c \in s : Sum(f, s) = f[c] + Sum(f, s \ {c}) BY <1>2, <2>1, SumStep
  <2>3. Sum(f, s \ {c}) \in Nat BY <1>2
  <2>4. f[c] \in Nat OBVIOUS
  <2> QED BY <2>2, <2>3, <2>4
<1> HIDE DEF Q
<1>3. S \in Q
  <2>1. Q \subseteq SUBSET S BY DEF Q
  <2> QED BY <1>1, <1>2, <2>1, SubsetInduction
<1> QED BY <1>3 DEF Q

\* Natural numbers that add up to nothing are all zero, and the converse.
LEMMA SumOfNothing ==
  ASSUME NEW S, IsFiniteSet(S), NEW f, \A x \in S : f[x] \in Nat, Sum(f, S) = 0, NEW e \in S
  PROVE  f[e] = 0
<1>1. Sum(f, S) = f[e] + Sum(f, S \ {e}) BY SumRemove
<1>2. IsFiniteSet(S \ {e}) BY FS_RemoveElement
<1>3. Sum(f, S \ {e}) \in Nat BY <1>2, SumNatural
<1> QED BY <1>1, <1>3

LEMMA SumOfZeros ==
  ASSUME NEW S, IsFiniteSet(S), NEW f, \A x \in S : f[x] = 0
  PROVE  Sum(f, S) = 0
<1> DEFINE Q == {s \in SUBSET S : Sum(f, s) = 0}
<1>1. {} \in Q BY SumEmpty
<1>2. ASSUME NEW s \in SUBSET S, s # {}, \A x \in s : s \ {x} \in Q PROVE s \in Q
  <2>1. IsFiniteSet(s) BY FS_Subset
  <2>2. PICK c \in s : Sum(f, s) = f[c] + Sum(f, s \ {c}) BY <1>2, <2>1, SumStep
  <2>3. Sum(f, s \ {c}) = 0 BY <1>2
  <2> QED BY <2>2, <2>3
<1> HIDE DEF Q
<1>3. S \in Q
  <2>1. Q \subseteq SUBSET S BY DEF Q
  <2> QED BY <1>1, <1>2, <2>1, SubsetInduction
<1> QED BY <1>3 DEF Q

\* When one value changes, the sum changes by as much.
ChangesAt(f, g, S, e) ==
  /\ \A x \in S : f[x] \in Int /\ g[x] \in Int
  /\ \A x \in S : x # e => g[x] = f[x]

\* Changing one value changes the sum by as much.
LEMMA SumChanges ==
  ASSUME NEW S, IsFiniteSet(S), NEW f, NEW g, NEW e \in S, ChangesAt(f, g, S, e)
  PROVE  Sum(g, S) = Sum(f, S) + (g[e] - f[e])
<1>0. /\ \A x \in S : f[x] \in Int /\ g[x] \in Int
      /\ \A x \in S : x # e => g[x] = f[x]
  BY DEF ChangesAt
<1>1. Sum(f, S) = f[e] + Sum(f, S \ {e}) BY <1>0, SumRemove
<1>3. Sum(g, S) = g[e] + Sum(g, S \ {e}) BY <1>0, SumRemove
<1>4. IsFiniteSet(S \ {e}) BY FS_RemoveElement
<1>5. Sum(g, S \ {e}) = Sum(f, S \ {e}) BY <1>0, <1>4, SumAgrees
<1>6. Sum(f, S \ {e}) \in Int BY <1>0, <1>4, SumTyped
<1> QED BY <1>0, <1>1, <1>3, <1>5, <1>6

-----------------------------------------------------------------------------
(* The lengths of sessions *)

\* The library's least and greatest members of sets of natural numbers.
LEMMA MinIsLeast ==
  ASSUME NEW T, T \subseteq Nat, T # {}
  PROVE  Min(T) \in T /\ \A k \in T : Min(T) <= k
<1>1. \E m \in T : \A k \in T : m <= k BY LeastMember
<1> QED BY <1>1 DEF Min

LEMMA MaxIsGreatest ==
  ASSUME NEW T, T \subseteq Nat, T # {}, NEW n \in Nat, \A k \in T : k <= n
  PROVE  Max(T) \in T /\ \A k \in T : k <= Max(T)
<1>1. PICK U : U = {n - k : k \in T} OBVIOUS
<1>2. U \subseteq Nat /\ U # {}
  <2>1. \A k \in T : n - k \in Nat
    <3> TAKE k \in T
    <3>1. k \in Nat /\ k <= n OBVIOUS
    <3> QED BY <3>1
  <2> QED BY <1>1, <2>1
<1>3. PICK m \in U : \A u \in U : m <= u BY <1>2, LeastMember
<1>4. PICK k \in T : m = n - k BY <1>1, <1>3
<1>5. \A j \in T : k >= j
  <2> SUFFICES ASSUME NEW j \in T PROVE k >= j OBVIOUS
  <2>1. n - j \in U BY <1>1
  <2>2. m <= n - j BY <1>3, <2>1
  <2>3. j \in Nat /\ k \in Nat OBVIOUS
  <2> QED BY <1>4, <2>2, <2>3
<1>6. \E x \in T : \A y \in T : x >= y BY <1>5
<1> QED BY <1>6 DEF Max

\* The community modules' folds add up to the same sums.
LEMMA FoldsAreSums ==
  ASSUME NEW f
  PROVE  SumFunction(f) = Sum(f, DOMAIN f) /\ FoldSeq(+, 0, f) = Sum(f, DOMAIN f)
<1>1. SumFunction(f) = Sum(f, DOMAIN f)
  BY Zenon DEF Sum, SumFunction, SumFunctionOnSet, FoldFunctionOnSet, MapThenSumSet, MapThenFoldSet
<1>2. FoldSeq(+, 0, f) = Sum(f, DOMAIN f)
  BY Zenon DEF Sum, FoldSeq, FoldFunction, FoldFunctionOnSet, MapThenSumSet, MapThenFoldSet
<1> QED BY <1>1, <1>2

\* The sums of at most three terms.
LEMMA ShortSums ==
  ASSUME NEW f
  PROVE  /\ f[1] \in Int => Sum(f, 1 .. 1) = f[1]
         /\ f[1] \in Int /\ f[2] \in Int => Sum(f, 1 .. 2) = f[1] + f[2]
         /\ f[1] \in Int /\ f[2] \in Int /\ f[3] \in Int => Sum(f, 1 .. 3) = f[1] + f[2] + f[3]
<1>0. IsFiniteSet(1 .. 1) /\ IsFiniteSet(1 .. 2) /\ IsFiniteSet(1 .. 3)
  BY FS_Interval, 1 \in Int, 2 \in Int, 3 \in Int, Zenon
<1>1. ASSUME f[1] \in Int PROVE Sum(f, 1 .. 1) = f[1]
  <2>1. \A x \in 1 .. 1 : f[x] \in Int BY <1>1
  <2>2. Sum(f, 1 .. 1) = f[1] + Sum(f, (1 .. 1) \ {1}) BY <1>0, <2>1, SumRemove
  <2>3. (1 .. 1) \ {1} = {} OBVIOUS
  <2>4. Sum(f, (1 .. 1) \ {1}) = 0 BY <2>3, SumEmpty, Zenon
  <2> QED BY <1>1, <2>2, <2>4
<1>2. ASSUME f[1] \in Int, f[2] \in Int PROVE Sum(f, 1 .. 2) = f[1] + f[2]
  <2>1. \A x \in 1 .. 2 : f[x] \in Int BY <1>2
  <2>2. Sum(f, 1 .. 2) = f[2] + Sum(f, (1 .. 2) \ {2}) BY <1>0, <2>1, SumRemove
  <2>3. (1 .. 2) \ {2} = 1 .. 1 OBVIOUS
  <2>4. Sum(f, (1 .. 2) \ {2}) = Sum(f, 1 .. 1) BY <2>3, Zenon
  <2> QED BY <1>1, <1>2, <2>2, <2>4
<1>3. ASSUME f[1] \in Int, f[2] \in Int, f[3] \in Int
      PROVE  Sum(f, 1 .. 3) = f[1] + f[2] + f[3]
  <2>1. \A x \in 1 .. 3 : f[x] \in Int BY <1>3
  <2>2. Sum(f, 1 .. 3) = f[3] + Sum(f, (1 .. 3) \ {3}) BY <1>0, <2>1, SumRemove
  <2>3. (1 .. 3) \ {3} = 1 .. 2 OBVIOUS
  <2>4. Sum(f, (1 .. 3) \ {3}) = Sum(f, 1 .. 2) BY <2>3, Zenon
  <2> QED BY <1>2, <1>3, <2>2, <2>4
<1> QED BY <1>1, <1>2, <1>3

\* balanced_session_lengths: as many parts as asked for, none below the mean
\* rounded down, and the whole of the task.
LEMMA BalancedParts ==
  ASSUME NEW total \in Nat, NEW n \in 1 .. MaxSegments
  PROVE  /\ Balanced(total, n) \in [1 .. n -> Nat]
         /\ Sum(Balanced(total, n), 1 .. n) = total
         /\ \A i \in 1 .. n, k \in Nat : k * n <= total => k <= Balanced(total, n)[i]
<1> PICK b : b = Balanced(total, n) OBVIOUS
<1>0. n \in {1, 2, 3} BY DEF MaxSegments
<1>1. total \div n \in Nat /\ total % n \in 0 .. n - 1 /\ total = n * (total \div n) + (total % n)
  BY <1>0
<1>2. \A i \in 1 .. n : b[i] = (total \div n) + (IF i <= total % n THEN 1 ELSE 0)
  BY DEF Balanced
<1>3. b \in [1 .. n -> Nat]
  <2>1. \A i \in 1 .. n : (total \div n) + (IF i <= total % n THEN 1 ELSE 0) \in Nat BY <1>1
  <2> QED BY <2>1 DEF Balanced
<1>4. Sum(b, 1 .. n) = total
  <2>1. CASE n = 1 BY <1>1, <1>2, <1>3, <2>1, ShortSums
  <2>2. CASE n = 2
    <3>1. b[1] \in Int /\ b[2] \in Int BY <1>3, <2>2
    <3>2. Sum(b, 1 .. 2) = b[1] + b[2] BY <3>1, ShortSums
    <3>3. b[1] = (total \div 2) + (IF 1 <= total % 2 THEN 1 ELSE 0) /\ b[2] = total \div 2
      <4>1. total % 2 \in 0 .. 1 BY <1>1, <2>2
      <4> QED BY <1>1, <1>2, <2>2, <4>1
    <3>4. total = 2 * (total \div 2) + (total % 2) /\ total % 2 \in {0, 1} BY <1>1, <2>2
    <3>5. total \div 2 \in Nat BY <1>1, <2>2
    <3>6. b[1] + b[2] = total BY <3>3, <3>4, <3>5
    <3> QED BY <2>2, <3>2, <3>6
  <2>3. CASE n = 3
    <3>1. b[1] \in Int /\ b[2] \in Int /\ b[3] \in Int BY <1>3, <2>3
    <3>2. Sum(b, 1 .. 3) = b[1] + b[2] + b[3] BY <3>1, ShortSums
    <3>3. b[1] + b[2] + b[3] = total BY <1>1, <1>2, <2>3
    <3> QED BY <2>3, <3>2, <3>3
  <2> QED BY <1>0, <2>1, <2>2, <2>3
<1>5. ASSUME NEW i \in 1 .. n, NEW k \in Nat, k * n <= total PROVE k <= b[i]
  <2>1. k <= total \div n
    <3>1. CASE n = 1 BY <1>5, <3>1
    <3>2. CASE n = 2 BY <1>5, <3>2
    <3>3. CASE n = 3 BY <1>5, <3>3
    <3> QED BY <1>0, <3>1, <3>2, <3>3
  <2>2. b[i] >= total \div n BY <1>1, <1>2
  <2>3. b[i] \in Nat BY <1>3
  <2> QED BY <1>1, <2>1, <2>2, <2>3
<1> QED BY <1>3, <1>4, <1>5

\* Of finitely many costs, one is the least.
LEMMA LeastCost ==
  ASSUME NEW S, IsFiniteSet(S), S # {}, NEW f, \A x \in S : f[x] \in Int
  PROVE  \E x \in S : \A y \in S : f[x] <= f[y]
<1> DEFINE Q == {s \in SUBSET S : s # {} => \E x \in s : \A y \in s : f[x] <= f[y]}
<1>1. {} \in Q OBVIOUS
<1>2. ASSUME NEW s \in SUBSET S, s # {}, \A x \in s : s \ {x} \in Q PROVE s \in Q
  <2>1. PICK e : e \in s BY <1>2
  <2>2. CASE s \ {e} = {}
    <3>1. \A y \in s : f[e] <= f[y] BY <2>1, <2>2
    <3> QED BY <2>1, <3>1
  <2>3. CASE s \ {e} # {}
    <3>1. PICK x \in s \ {e} : \A y \in s \ {e} : f[x] <= f[y] BY <1>2, <2>1, <2>3
    <3>2. f[x] \in Int /\ f[e] \in Int /\ \A y \in s : f[y] \in Int BY <2>1
    <3>3. CASE f[x] <= f[e]
      <4>1. \A y \in s : f[x] <= f[y] BY <3>1, <3>3
      <4> QED BY <4>1
    <3>4. CASE f[e] < f[x]
      <4>1. ASSUME NEW y \in s PROVE f[e] <= f[y]
        <5>1. CASE y = e BY <5>1, <3>2
        <5>2. CASE y # e
          <6>1. f[x] <= f[y] BY <3>1, <5>2
          <6>2. f[y] \in Int BY <3>2
          <6> QED BY <6>1, <6>2, <3>2, <3>4
        <5> QED BY <5>1, <5>2
      <4> QED BY <2>1, <4>1
    <3> QED BY <3>2, <3>3, <3>4
  <2> QED BY <2>2, <2>3
<1> HIDE DEF Q
<1>3. S \in Q
  <2>1. Q \subseteq SUBSET S BY DEF Q
  <2> QED BY <1>1, <1>2, <2>1, SubsetInduction
<1> QED BY <1>3 DEF Q

LEMMA SquareTyped == ASSUME NEW a \in Int PROVE a * a \in Nat
<1>1. CASE a >= 0 BY <1>1
<1>2. CASE a < 0
  <2>1. PICK b \in Nat : a = -b BY <1>2
  <2>2. a * a = b * b BY <2>1
  <2>3. b * b \in Nat OBVIOUS
  <2> QED BY <2>2, <2>3
<1> QED BY <1>1, <1>2

\* session_quality: a cost, of at least one session.
LEMMA QualityTyped ==
  ASSUME NEW n \in Nat, n >= 1, NEW lengths \in [1 .. n -> Int], NEW preferred \in Nat
  PROVE  Quality(lengths, preferred) \in Nat
<1> PICK f : f = [i \in DOMAIN lengths |-> (lengths[i] - preferred) * (lengths[i] - preferred)]
  OBVIOUS
<1>1. DOMAIN f = 1 .. n /\ DOMAIN lengths = 1 .. n OBVIOUS
<1>2. \A i \in 1 .. n : f[i] \in Nat
  <2> TAKE i \in 1 .. n
  <2>1. lengths[i] - preferred \in Int OBVIOUS
  <2>2. f[i] = (lengths[i] - preferred) * (lengths[i] - preferred) BY <1>1
  <2> QED BY <2>1, <2>2, SquareTyped
<1>3. IsFiniteSet(1 .. n) BY FS_Interval, 1 \in Int, n \in Int
<1>4. SumFunction(f) \in Nat
  <2>1. SumFunction(f) = Sum(f, 1 .. n) BY <1>1, FoldsAreSums, Zenon
  <2> QED BY <1>2, <1>3, <2>1, SumNatural
<1>5. Len(lengths) = n BY <1>1
<1>6. (n - 1) * preferred * MinSegment \in Nat
  <2>1. n - 1 \in Nat OBVIOUS
  <2>2. (n - 1) * preferred \in Nat BY <2>1
  <2> QED BY <2>2 DEF MinSegment
<1>7. Quality(lengths, preferred) = SumFunction(f) + (n - 1) * preferred * MinSegment
  BY <1>5, Zenon DEF Quality
<1> QED BY <1>4, <1>6, <1>7

\* best_session_lengths: one of the balanced divisions that are allowed.
LEMMA BestSessions ==
  ASSUME NEW total \in Nat, NEW preferred \in Nat, NEW most \in Nat,
         most >= 1, total >= MinSegment
  PROVE  \E n \in 1 .. MaxSegments : /\ n <= most /\ n * MinSegment <= total
                                     /\ BestLengths(total, preferred, most) = Balanced(total, n)
<1> DEFINE counts == 1 .. Least(Least(most, MaxSegments), total \div MinSegment)
<1> DEFINE cost(n) == Quality(Balanced(total, n), preferred)
<1> DEFINE T == {n \in counts : \A m \in counts : cost(n) <= cost(m)}
<1>1. \A n \in counts : n \in 1 .. MaxSegments /\ n <= most /\ n * MinSegment <= total
  BY DEF Least, MaxSegments, MinSegment
<1>2. counts # {} /\ IsFiniteSet(counts)
  <2>1. Least(Least(most, MaxSegments), total \div MinSegment) \in Nat \ {0}
    BY DEF Least, MaxSegments, MinSegment
  <2>2. PICK k \in Nat \ {0} : k = Least(Least(most, MaxSegments), total \div MinSegment) BY <2>1
  <2>3. IsFiniteSet(1 .. k) /\ 1 \in 1 .. k BY <2>2, FS_Interval, 1 \in Int, k \in Int
  <2> QED BY <2>2, <2>3
<1>3. \A n \in counts : cost(n) \in Int
  <2> TAKE n \in counts
  <2>1. n \in 1 .. MaxSegments BY <1>1
  <2>2. n \in Nat /\ n >= 1 BY <2>1 DEF MaxSegments
  <2>3. Balanced(total, n) \in [1 .. n -> Nat] BY <2>1, BalancedParts
  <2>4. Balanced(total, n) \in [1 .. n -> Int] BY <2>3
  <2>5. cost(n) \in Nat BY <2>2, <2>4, QualityTyped
  <2> QED BY <2>5
<1>4. T # {}
  <2> DEFINE f == [n \in counts |-> cost(n)]
  <2>1. \A n \in counts : f[n] = cost(n) OBVIOUS
  <2> HIDE DEF f, cost, counts
  <2>2. PICK n \in counts : \A m \in counts : f[n] <= f[m] BY <1>2, <1>3, <2>1, LeastCost
  <2> QED BY <2>1, <2>2
<1>5. Min(T) \in T
  <2>1. T \subseteq Nat BY <1>1 DEF MaxSegments
  <2> HIDE DEF T
  <2> QED BY <1>4, <2>1, MinIsLeast
<1>6. BestLengths(total, preferred, most) = Balanced(total, Min(T))
  BY Zenon DEF BestLengths
<1> QED BY <1>1, <1>5, <1>6

\* build_session_profile: a number of minutes.
LEMMA PreferredTyped ==
  ASSUME NEW total \in Nat, NEW nature, NEW free, NEW urgent
  PROVE  PreferredMinutes(total, nature, free, urgent) \in Nat
<1> PICK f : f = Lowest(Factor[nature][1] * Pressure(total, free, urgent)[1],
                        Factor[nature][2] * Pressure(total, free, urgent)[2]) OBVIOUS
<1> DEFINE reaches(k) == (2*k - 1) * (2*k - 1) * f[2] <= (((8 * total) \div 5) * f[1] * f[1]) \div f[2]
<1> DEFINE units == {k \in 1 .. (total \div MinSegment) + 1 : reaches(k)}
<1>1. PreferredMinutes(total, nature, free, urgent)
        = Least(total, MinSegment * (IF units = {} THEN 1 ELSE Max(units)))
  BY Zenon DEF PreferredMinutes
<1> HIDE DEF reaches
<1>2. units \subseteq Nat /\ \A k \in units : k <= (total \div MinSegment) + 1
  BY DEF MinSegment
<1>3. (total \div MinSegment) + 1 \in Nat BY DEF MinSegment
<1> HIDE DEF units
<1>4. units # {} => Max(units) \in Nat
  <2>1. units # {} => Max(units) \in units BY <1>2, <1>3, MaxIsGreatest
  <2> QED BY <1>2, <2>1
<1> QED BY <1>1, <1>4 DEF Least, MinSegment

LEMMA RangeBound ==
  ASSUME NEW n \in 1 .. MaxSegments, NEW limits \in [1 .. n -> Nat]
  PROVE  /\ \A i \in 1 .. n : limits[i] <= Max(Range(limits))
         /\ Max(Range(limits)) \in Nat
<1>1. Range(limits) = {limits[i] : i \in 1 .. n} BY DEF Range
<1>2. Range(limits) \subseteq Nat /\ Range(limits) # {}
  <2>1. 1 \in 1 .. n OBVIOUS
  <2> QED BY <1>1, <2>1
<1>3. \E m \in Nat : \A k \in Range(limits) : k <= m
  <2>1. n \in {1, 2, 3} BY DEF MaxSegments
  <2>2. CASE n = 1
    <3>1. \A k \in Range(limits) : k <= limits[1] BY <1>1, <2>2
    <3> QED BY <3>1, <2>2
  <2>3. CASE n = 2
    <3>1. \A i \in 1 .. n : limits[i] <= limits[1] + limits[2] BY <2>3
    <3>2. \A k \in Range(limits) : k <= limits[1] + limits[2] BY <1>1, <3>1
    <3> QED BY <3>2, <2>3
  <2>4. CASE n = 3
    <3>1. \A i \in 1 .. n : limits[i] <= limits[1] + limits[2] + limits[3] BY <2>4
    <3>2. \A k \in Range(limits) : k <= limits[1] + limits[2] + limits[3] BY <1>1, <3>1
    <3> QED BY <3>2, <2>4
  <2> QED BY <2>1, <2>2, <2>3, <2>4
<1>4. Max(Range(limits)) \in Range(limits) /\ \A k \in Range(limits) : k <= Max(Range(limits))
  BY <1>2, <1>3, MaxIsGreatest
<1> QED BY <1>1, <1>2, <1>4

FilledTo(limits, n, l) == SumFunction([i \in 1 .. n |-> Least(limits[i], l)])
RoomAt(limits, i, l) == SumFunction([j \in 1 .. i |-> limits[j] - Least(limits[j], l)])

\* What one, two and three sessions hold together at one level.
LEMMA FilledIs ==
  ASSUME NEW n \in 1 .. MaxSegments, NEW limits \in [1 .. n -> Nat], NEW l \in Nat
  PROVE  /\ n = 1 => FilledTo(limits, n, l) = Least(limits[1], l)
         /\ n = 2 => FilledTo(limits, n, l) = Least(limits[1], l) + Least(limits[2], l)
         /\ n = 3 => FilledTo(limits, n, l) = Least(limits[1], l) + Least(limits[2], l) + Least(limits[3], l)
<1> PICK f : f = [i \in 1 .. n |-> Least(limits[i], l)] OBVIOUS
<1>1. FilledTo(limits, n, l) = Sum(f, 1 .. n)
  <2>1. DOMAIN f = 1 .. n OBVIOUS
  <2> QED BY <2>1, FoldsAreSums, Zenon DEF FilledTo
<1>2. \A i \in 1 .. n : f[i] = Least(limits[i], l) /\ f[i] \in Int BY DEF Least
<1>3. CASE n = 1
  <2>1. f[1] = Least(limits[1], l) /\ f[1] \in Int BY <1>2, <1>3
  <2>2. Sum(f, 1 .. 1) = f[1] BY <2>1, ShortSums
  <2> QED BY <1>1, <1>3, <2>1, <2>2
<1>4. CASE n = 2
  <2>1. f[1] = Least(limits[1], l) /\ f[1] \in Int /\ f[2] = Least(limits[2], l) /\ f[2] \in Int
    BY <1>2, <1>4
  <2>2. Sum(f, 1 .. 2) = f[1] + f[2] BY <2>1, ShortSums
  <2> QED BY <1>1, <1>4, <2>1, <2>2
<1>5. CASE n = 3
  <2>1. /\ f[1] = Least(limits[1], l) /\ f[1] \in Int /\ f[2] = Least(limits[2], l) /\ f[2] \in Int
        /\ f[3] = Least(limits[3], l) /\ f[3] \in Int
    BY <1>2, <1>5
  <2>2. Sum(f, 1 .. 3) = f[1] + f[2] + f[3] BY <2>1, ShortSums
  <2> QED BY <1>1, <1>5, <2>1, <2>2
<1> QED BY <1>3, <1>4, <1>5 DEF MaxSegments

\* The room one, two and three sessions have above that level.
LEMMA RoomIs ==
  ASSUME NEW n \in 1 .. MaxSegments, NEW limits \in [1 .. n -> Nat], NEW l \in Nat
  PROVE  /\ RoomAt(limits, 1, l) = limits[1] - Least(limits[1], l)
         /\ n >= 2 => RoomAt(limits, 2, l) = (limits[1] - Least(limits[1], l)) + (limits[2] - Least(limits[2], l))
         /\ n >= 3 => RoomAt(limits, 3, l) = (limits[1] - Least(limits[1], l)) + (limits[2] - Least(limits[2], l))
                                              + (limits[3] - Least(limits[3], l))
<1>0. \A i \in 1 .. n : limits[i] - Least(limits[i], l) \in Int BY DEF Least
<1>1. \A i \in 1 .. n : \A f : f = [j \in 1 .. i |-> limits[j] - Least(limits[j], l)] =>
        RoomAt(limits, i, l) = Sum(f, 1 .. i)
  <2> TAKE i \in 1 .. n
  <2> TAKE f
  <2> HAVE f = [j \in 1 .. i |-> limits[j] - Least(limits[j], l)]
  <2>1. DOMAIN f = 1 .. i OBVIOUS
  <2> QED BY <2>1, FoldsAreSums, Zenon DEF RoomAt
<1>2. RoomAt(limits, 1, l) = limits[1] - Least(limits[1], l)
  <2> PICK f : f = [j \in 1 .. 1 |-> limits[j] - Least(limits[j], l)] OBVIOUS
  <2>0. 1 \in 1 .. n OBVIOUS
  <2>1. RoomAt(limits, 1, l) = Sum(f, 1 .. 1) BY <1>1, <2>0
  <2>2. f[1] = limits[1] - Least(limits[1], l) /\ f[1] \in Int BY <1>0, <2>0
  <2> QED BY <2>1, <2>2, ShortSums
<1>3. ASSUME n >= 2 PROVE RoomAt(limits, 2, l) = (limits[1] - Least(limits[1], l)) + (limits[2] - Least(limits[2], l))
  <2> PICK f : f = [j \in 1 .. 2 |-> limits[j] - Least(limits[j], l)] OBVIOUS
  <2>0. 1 \in 1 .. n /\ 2 \in 1 .. n BY <1>3
  <2>1. RoomAt(limits, 2, l) = Sum(f, 1 .. 2) BY <1>1, <2>0
  <2>2. /\ f[1] = limits[1] - Least(limits[1], l) /\ f[1] \in Int
        /\ f[2] = limits[2] - Least(limits[2], l) /\ f[2] \in Int
    BY <1>0, <2>0
  <2>3. Sum(f, 1 .. 2) = f[1] + f[2] BY <2>2, ShortSums
  <2> QED BY <2>1, <2>2, <2>3
<1>4. ASSUME n >= 3 PROVE RoomAt(limits, 3, l) = (limits[1] - Least(limits[1], l)) + (limits[2] - Least(limits[2], l))
                                              + (limits[3] - Least(limits[3], l))
  <2> PICK f : f = [j \in 1 .. 3 |-> limits[j] - Least(limits[j], l)] OBVIOUS
  <2>0. 1 \in 1 .. n /\ 2 \in 1 .. n /\ 3 \in 1 .. n BY <1>4
  <2>1. RoomAt(limits, 3, l) = Sum(f, 1 .. 3) BY <1>1, <2>0
  <2>2. /\ f[1] = limits[1] - Least(limits[1], l) /\ f[1] \in Int
        /\ f[2] = limits[2] - Least(limits[2], l) /\ f[2] \in Int
        /\ f[3] = limits[3] - Least(limits[3], l) /\ f[3] \in Int
    BY <1>0, <2>0
  <2>3. Sum(f, 1 .. 3) = f[1] + f[2] + f[3] BY <2>2, ShortSums
  <2> QED BY <2>1, <2>2, <2>3
<1> QED BY <1>2, <1>3, <1>4

LEMMA LimitsSum ==
  ASSUME NEW n \in 1 .. MaxSegments, NEW limits \in [1 .. n -> Int]
  PROVE  /\ n = 1 => SumFunction(limits) = limits[1]
         /\ n = 2 => SumFunction(limits) = limits[1] + limits[2]
         /\ n = 3 => SumFunction(limits) = limits[1] + limits[2] + limits[3]
<1>1. SumFunction(limits) = Sum(limits, 1 .. n)
  <2>1. DOMAIN limits = 1 .. n OBVIOUS
  <2> QED BY <2>1, FoldsAreSums, Zenon
<1>2. CASE n = 1
  <2>1. limits[1] \in Int BY <1>2
  <2>2. Sum(limits, 1 .. 1) = limits[1] BY <2>1, ShortSums
  <2> QED BY <1>1, <1>2, <2>2
<1>3. CASE n = 2
  <2>1. limits[1] \in Int /\ limits[2] \in Int BY <1>3
  <2>2. Sum(limits, 1 .. 2) = limits[1] + limits[2] BY <2>1, ShortSums
  <2> QED BY <1>1, <1>3, <2>2
<1>4. CASE n = 3
  <2>1. limits[1] \in Int /\ limits[2] \in Int /\ limits[3] \in Int BY <1>4
  <2>2. Sum(limits, 1 .. 3) = limits[1] + limits[2] + limits[3] BY <2>1, ShortSums
  <2> QED BY <1>1, <1>4, <2>2
<1> QED BY <1>2, <1>3, <1>4 DEF MaxSegments

LEMMA BaseTyped ==
  ASSUME NEW l \in Nat, NEW m \in Nat, l >= MinSegment, m >= MinSegment
  PROVE  \E b \in Nat, r \in Nat : b = Least(l, m) /\ r = l - b /\ b >= 15 /\ l = b + r
<1>1. CASE l < m
  <2>1. Least(l, m) = l /\ l - l = 0 /\ l = l + 0 BY <1>1 DEF Least
  <2> QED BY <2>1 DEF MinSegment
<1>2. CASE ~ (l < m)
  <2>1. Least(l, m) = m /\ l - m \in Nat /\ l = m + (l - m) BY <1>2 DEF Least
  <2> QED BY <2>1 DEF MinSegment
<1> QED BY <1>1, <1>2

Poured(b1, b2, b3, r1, r2, r3, rest, p, q) ==
  /\ p \in Nat /\ q \in Nat /\ Least(rest, r1 + r2 + r3) = rest
  /\ b1 + p \in Nat /\ 15 <= b1 + p /\ b1 + p <= b1 + r1
  /\ b2 + (q - p) \in Nat /\ 15 <= b2 + (q - p) /\ b2 + (q - p) <= b2 + r2
  /\ b3 + (rest - q) \in Nat /\ 15 <= b3 + (rest - q) /\ b3 + (rest - q) <= b3 + r3
  /\ (b1 + p) + (b2 + (q - p)) + (b3 + (rest - q)) = b1 + b2 + b3 + rest

\* Filling three sessions in turn to what each takes, so that none is too short.
LEMMA Pouring ==
  ASSUME NEW b1 \in Nat, NEW b2 \in Nat, NEW b3 \in Nat, NEW r1 \in Nat, NEW r2 \in Nat, NEW r3 \in Nat,
         b1 >= 15, b2 >= 15, b3 >= 15, NEW rest \in Nat, rest <= r1 + r2 + r3
  PROVE  Poured(b1, b2, b3, r1, r2, r3, rest, Least(rest, r1), Least(rest, r1 + r2))
<1>1. PICK p : p = Least(rest, r1) OBVIOUS
<1>2. PICK q : q = Least(rest, r1 + r2) OBVIOUS
<1>3. /\ p \in Nat /\ p <= r1 /\ q \in Nat /\ p <= q /\ q - p <= r2 /\ q <= rest /\ rest - q <= r3
      /\ Least(rest, r1 + r2 + r3) = rest
  BY <1>1, <1>2 DEF Least
<1>4. Poured(b1, b2, b3, r1, r2, r3, rest, p, q) BY <1>3 DEF Poured
<1> QED BY <1>1, <1>2, <1>4

Shared(b1, b2, r1, r2, rest, p) ==
  /\ p \in Nat /\ Least(rest, r1 + r2) = rest
  /\ b1 + p \in Nat /\ 15 <= b1 + p /\ b1 + p <= b1 + r1
  /\ b2 + (rest - p) \in Nat /\ 15 <= b2 + (rest - p) /\ b2 + (rest - p) <= b2 + r2
  /\ (b1 + p) + (b2 + (rest - p)) = b1 + b2 + rest

\* Filling two sessions in turn to what each takes, so that neither is too short.
LEMMA Sharing ==
  ASSUME NEW b1 \in Nat, NEW b2 \in Nat, NEW r1 \in Nat, NEW r2 \in Nat,
         b1 >= 15, b2 >= 15, NEW rest \in Nat, rest <= r1 + r2
  PROVE  Shared(b1, b2, r1, r2, rest, Least(rest, r1))
<1>1. PICK p : p = Least(rest, r1) OBVIOUS
<1>2. /\ p \in Nat /\ p <= r1 /\ p <= rest /\ rest - p <= r2 /\ Least(rest, r1 + r2) = rest
  BY <1>1 DEF Least
<1>3. Shared(b1, b2, r1, r2, rest, p) BY <1>2 DEF Shared
<1> QED BY <1>1, <1>3

\* fit_session_lengths: what it returns are lengths of sessions that fit the
\* windows and make up the task.
LEMMA FittedLengths ==
  ASSUME NEW total \in Nat, NEW n \in Nat, NEW limits \in [1 .. n -> Nat],
         FitLengths(total, limits) # <<>>
  PROVE  /\ n \in 1 .. MaxSegments
         /\ FitLengths(total, limits) \in [1 .. n -> Nat]
         /\ \A i \in 1 .. n : /\ MinSegment <= FitLengths(total, limits)[i]
                              /\ FitLengths(total, limits)[i] <= limits[i]
         /\ SumFunction(FitLengths(total, limits)) = total
<1> PICK T : T = {l \in (total \div n) .. Max(Range(limits)) : FilledTo(limits, n, l) <= total} OBVIOUS
<1> PICK L : L = Max(T) OBVIOUS
<1> PICK rest : rest = total - FilledTo(limits, n, L) OBVIOUS
<1> DEFINE taken(i) == IF i = 0 THEN 0 ELSE Least(rest, RoomAt(limits, i, L))
<1>0. Len(limits) = n OBVIOUS
<1>1. FitLengths(total, limits)
        = IF \/ n \notin 1 .. MaxSegments \/ \E i \in 1 .. n : limits[i] < MinSegment
             \/ total < n * MinSegment \/ SumFunction(limits) < total
          THEN <<>>
          ELSE [i \in 1 .. n |-> Least(limits[i], L) + taken(i) - taken(i - 1)]
  BY <1>0, Zenon DEF FitLengths, FilledTo, RoomAt
<1>2. n \in 1 .. MaxSegments BY <1>1
<1>3. \A i \in 1 .. n : limits[i] >= MinSegment
  BY <1>1 DEF MinSegment
<1>4. total >= n * MinSegment /\ SumFunction(limits) >= total
  <2>1. limits \in [1 .. n -> Int] OBVIOUS
  <2>2. n = 1 \/ n = 2 \/ n = 3 BY <1>2 DEF MaxSegments
  <2>3. SumFunction(limits) \in Int BY <1>2, <2>1, <2>2, LimitsSum
  <2>4. ~ (total < n * MinSegment) /\ ~ (SumFunction(limits) < total) BY <1>1
  <2>5. n * MinSegment \in Int BY DEF MinSegment
  <2> QED BY <2>3, <2>4, <2>5
<1>5. FitLengths(total, limits) = [i \in 1 .. n |-> Least(limits[i], L) + taken(i) - taken(i - 1)]
  BY <1>1
<1>6. n = 1 \/ n = 2 \/ n = 3 BY <1>2 DEF MaxSegments
<1>7. L \in Nat /\ L >= total \div n /\ L >= MinSegment /\ FilledTo(limits, n, L) <= total
  <2>1. PICK l \in Nat : l = total \div n BY <1>6
  <2>2. l * n <= total /\ l >= MinSegment
    <3>1. CASE n = 1 BY <3>1, <2>1, <1>4 DEF MinSegment
    <3>2. CASE n = 2 BY <3>2, <2>1, <1>4 DEF MinSegment
    <3>3. CASE n = 3 BY <3>3, <2>1, <1>4 DEF MinSegment
    <3> QED BY <1>6, <3>1, <3>2, <3>3
  <2>3. FilledTo(limits, n, l) <= total
    <3>1. \A i \in 1 .. n : Least(limits[i], l) <= l /\ Least(limits[i], l) \in Nat BY DEF Least
    <3>2. CASE n = 1
      <4>1. FilledTo(limits, n, l) = Least(limits[1], l) BY <1>2, <3>2, FilledIs
      <4> QED BY <4>1, <3>1, <3>2, <2>2
    <3>3. CASE n = 2
      <4>1. FilledTo(limits, n, l) = Least(limits[1], l) + Least(limits[2], l) BY <1>2, <3>3, FilledIs
      <4> QED BY <4>1, <3>1, <3>3, <2>2
    <3>4. CASE n = 3
      <4>1. FilledTo(limits, n, l) = Least(limits[1], l) + Least(limits[2], l) + Least(limits[3], l)
        BY <1>2, <3>4, FilledIs
      <4> QED BY <4>1, <3>1, <3>4, <2>2
    <3> QED BY <1>6, <3>2, <3>3, <3>4
  <2>4. Max(Range(limits)) \in Nat /\ \A i \in 1 .. n : limits[i] <= Max(Range(limits))
    BY <1>2, RangeBound
  <2>5. l <= Max(Range(limits))
    <3> PICK M \in Nat : M = Max(Range(limits)) BY <2>4
    <3>0. limits \in [1 .. n -> Int] OBVIOUS
    <3>1. SumFunction(limits) <= n * M
      <4>1. CASE n = 1
        <5>1. SumFunction(limits) = limits[1] BY <4>1, <1>2, <3>0, LimitsSum
        <5> QED BY <5>1, <4>1, <2>4
      <4>2. CASE n = 2
        <5>1. SumFunction(limits) = limits[1] + limits[2] BY <4>2, <1>2, <3>0, LimitsSum
        <5>2. limits[1] <= M /\ limits[2] <= M /\ limits[1] \in Nat /\ limits[2] \in Nat BY <4>2, <2>4
        <5> QED BY <5>1, <4>2, <5>2
      <4>3. CASE n = 3
        <5>1. SumFunction(limits) = limits[1] + limits[2] + limits[3] BY <4>3, <1>2, <3>0, LimitsSum
        <5>2. /\ limits[1] <= M /\ limits[2] <= M /\ limits[3] <= M
              /\ limits[1] \in Nat /\ limits[2] \in Nat /\ limits[3] \in Nat
          BY <4>3, <2>4
        <5> QED BY <5>1, <4>3, <5>2
      <4> QED BY <1>6, <4>1, <4>2, <4>3
    <3>2. l * n <= n * M
      <4>1. SumFunction(limits) \in Int BY <1>2, <1>6, <3>0, LimitsSum
      <4>2. l * n \in Int /\ n * M \in Int OBVIOUS
      <4> QED BY <2>2, <3>1, <1>4, <4>1, <4>2
    <3>3. l <= M BY <1>6, <3>2
    <3> QED BY <3>3
  <2>6. l \in T BY <2>1, <2>3, <2>4, <2>5
  <2>7. T \subseteq Nat /\ \A k \in T : k <= Max(Range(limits)) BY <2>1, <2>4
  <2>8. L \in T /\ \A k \in T : k <= L BY <2>4, <2>6, <2>7, MaxIsGreatest
  <2> QED BY <2>1, <2>2, <2>6, <2>7, <2>8 DEF MinSegment
<1>8. \A i \in 1 .. n : /\ Least(limits[i], L) \in Nat /\ Least(limits[i], L) <= limits[i]
                        /\ Least(limits[i], L) >= MinSegment
  BY <1>3, <1>7 DEF Least, MinSegment
<1>9. PICK a : a = FitLengths(total, limits) OBVIOUS
<1>10. CASE n = 1
  <2>0. 1 \in 1 .. n /\ limits \in [1 .. n -> Int] BY <1>10
  <2>1. FilledTo(limits, n, L) = Least(limits[1], L) BY <1>2, <1>7, <1>10, FilledIs
  <2>2. RoomAt(limits, 1, L) = limits[1] - Least(limits[1], L) BY <1>2, <1>7, RoomIs
  <2>3. SumFunction(limits) = limits[1] BY <1>2, <1>10, <2>0, LimitsSum
  <2>4. PICK b1 \in Nat, r1 \in Nat : /\ b1 = Least(limits[1], L) /\ r1 = limits[1] - b1
                                       /\ b1 >= 15 /\ limits[1] = b1 + r1
    <3>1. limits[1] \in Nat /\ limits[1] >= MinSegment BY <1>3, <2>0
    <3>2. \E b \in Nat, r \in Nat : /\ b = Least(limits[1], L) /\ r = limits[1] - b
                                   /\ b >= 15 /\ limits[1] = b + r
      BY <1>7, <3>1, BaseTyped
    <3> QED BY <3>2
  <2>5. rest = total - b1 /\ rest \in Nat /\ rest <= r1
    <3>1. FilledTo(limits, n, L) = b1 /\ SumFunction(limits) = b1 + r1 BY <2>1, <2>3, <2>4
    <3>2. b1 <= total /\ total <= b1 + r1 BY <1>4, <1>7, <3>1
    <3> QED BY <3>1, <3>2
  <2>6. taken(0) = 0 /\ taken(1) = rest
    <3>1. Least(rest, r1) = rest BY <2>5 DEF Least
    <3> QED BY <2>2, <2>4, <3>1
  <2> HIDE DEF taken
  <2>7. a[1] = b1 + rest
    <3>1. a[1] = Least(limits[1], L) + taken(1) - taken(1 - 1) BY <1>5, <1>9, <2>0
    <3>2. taken(1 - 1) = 0 BY <2>6, 1 - 1 = 0
    <3> QED BY <3>1, <3>2, <2>4, <2>5, <2>6
  <2>8. a[1] \in Nat /\ 15 <= a[1] /\ a[1] <= limits[1] /\ a[1] = total
    <3>1. b1 >= 15 BY <2>4
    <3>2. b1 + rest \in Nat /\ 15 <= b1 + rest BY <3>1, <2>5
    <3>3. b1 + rest <= b1 + r1 BY <2>5
    <3>4. b1 + rest = total BY <2>5
    <3> QED BY <3>2, <3>3, <3>4, <2>4, <2>7
  <2>9. \A i \in 1 .. n : i = 1 BY <1>10
  <2>10. a \in [1 .. n -> Nat]
    <3>1. DOMAIN a = 1 .. n /\ a = [i \in 1 .. n |-> a[i]] BY <1>5, <1>9
    <3> QED BY <3>1, <2>8, <2>9
  <2>11. SumFunction(a) = total
    <3>1. SumFunction(a) = a[1] BY <1>2, <1>10, <2>10, LimitsSum, a \in [1 .. n -> Int]
    <3> QED BY <3>1, <2>8
  <2> QED BY <1>2, <1>9, <2>8, <2>9, <2>10, <2>11 DEF MinSegment
<1>11. CASE n = 2
  <2>0. /\ 1 \in 1 .. n /\ 2 \in 1 .. n /\ limits \in [1 .. n -> Int] /\ n >= 2
    BY <1>11
  <2>1. FilledTo(limits, n, L) = Least(limits[1], L) + Least(limits[2], L)
    BY <1>2, <1>7, <1>11, FilledIs
  <2>2. /\ RoomAt(limits, 1, L) = limits[1] - Least(limits[1], L)
        /\ RoomAt(limits, 2, L) = (limits[1] - Least(limits[1], L)) + (limits[2] - Least(limits[2], L))
    BY <1>2, <1>7, <2>0, RoomIs
  <2>3. SumFunction(limits) = limits[1] + limits[2] BY <1>2, <1>11, <2>0, LimitsSum
  <2>4. PICK b1 \in Nat, r1 \in Nat : /\ b1 = Least(limits[1], L) /\ r1 = limits[1] - b1
                                       /\ b1 >= 15 /\ limits[1] = b1 + r1
    <3>1. limits[1] \in Nat /\ limits[1] >= MinSegment BY <1>3, <2>0
    <3>2. \E b \in Nat, r \in Nat : /\ b = Least(limits[1], L) /\ r = limits[1] - b
                                   /\ b >= 15 /\ limits[1] = b + r
      BY <1>7, <3>1, BaseTyped
    <3> QED BY <3>2
  <2>5. PICK b2 \in Nat, r2 \in Nat : /\ b2 = Least(limits[2], L) /\ r2 = limits[2] - b2
                                       /\ b2 >= 15 /\ limits[2] = b2 + r2
    <3>1. limits[2] \in Nat /\ limits[2] >= MinSegment BY <1>3, <2>0
    <3>2. \E b \in Nat, r \in Nat : /\ b = Least(limits[2], L) /\ r = limits[2] - b
                                   /\ b >= 15 /\ limits[2] = b + r
      BY <1>7, <3>1, BaseTyped
    <3> QED BY <3>2
  <2>7. rest \in Nat /\ rest = total - (b1 + b2) /\ rest <= r1 + r2
    <3>1. FilledTo(limits, n, L) = b1 + b2 BY <2>1, <2>4, <2>5
    <3>2. SumFunction(limits) = (b1 + r1) + (b2 + r2) BY <2>3, <2>4, <2>5
    <3>3. (b1 + r1) + (b2 + r2) = (b1 + b2) + (r1 + r2) OBVIOUS
    <3>4. b1 + b2 \in Nat /\ r1 + r2 \in Nat OBVIOUS
    <3>5. b1 + b2 <= total /\ total <= (b1 + b2) + (r1 + r2) BY <1>4, <1>7, <3>1, <3>2, <3>3
    <3> QED BY <3>1, <3>4, <3>5
  <2>8. RoomAt(limits, 1, L) = r1 /\ RoomAt(limits, 2, L) = r1 + r2 BY <2>2, <2>4, <2>5
  <2>9. PICK p : p = Least(rest, r1) OBVIOUS
  <2>11. Shared(b1, b2, r1, r2, rest, p)
    <3>1. Shared(b1, b2, r1, r2, rest, Least(rest, r1)) BY <2>4, <2>5, <2>7, Sharing
    <3> QED BY <2>9, <3>1, Zenon
  <2>12. taken(0) = 0 /\ taken(1) = p BY <2>8, <2>9
  <2>13. taken(2) = rest
    <3>1. taken(2) = Least(rest, r1 + r2) BY <2>8
    <3> QED BY <3>1, <2>11 DEF Shared
  <2> HIDE DEF taken
  <2>14. a[1] = b1 + p
    <3>1. a[1] = Least(limits[1], L) + taken(1) - taken(1 - 1) BY <1>5, <1>9, <2>0
    <3>2. taken(1 - 1) = 0 BY <2>12, 1 - 1 = 0
    <3> QED BY <3>1, <3>2, <2>4, <2>11, <2>12 DEF Shared
  <2>15. a[2] = b2 + (rest - p)
    <3>1. a[2] = Least(limits[2], L) + taken(2) - taken(2 - 1) BY <1>5, <1>9, <2>0
    <3>2. taken(2 - 1) = p BY <2>12, 2 - 1 = 1
    <3> QED BY <3>1, <3>2, <2>5, <2>7, <2>11, <2>13 DEF Shared
  <2>17. /\ a[1] \in Nat /\ 15 <= a[1] /\ a[1] <= limits[1]
    <3>1. b1 + p \in Nat /\ 15 <= b1 + p /\ b1 + p <= b1 + r1 BY <2>11 DEF Shared
    <3> QED BY <3>1, <2>4, <2>14
  <2>18. /\ a[2] \in Nat /\ 15 <= a[2] /\ a[2] <= limits[2]
    <3>1. b2 + (rest - p) \in Nat /\ 15 <= b2 + (rest - p) /\ b2 + (rest - p) <= b2 + r2
      BY <2>11 DEF Shared
    <3> QED BY <3>1, <2>5, <2>15
  <2>20. \A i \in 1 .. n : i = 1 \/ i = 2 BY <1>11
  <2>21. a \in [1 .. n -> Nat]
    <3>1. DOMAIN a = 1 .. n /\ a = [i \in 1 .. n |-> a[i]] BY <1>5, <1>9
    <3> QED BY <3>1, <2>17, <2>18, <2>20
  <2>22. SumFunction(a) = total
    <3>1. SumFunction(a) = a[1] + a[2] BY <1>2, <1>11, <2>21, LimitsSum, a \in [1 .. n -> Int]
    <3>2. (b1 + p) + (b2 + (rest - p)) = b1 + b2 + rest BY <2>11 DEF Shared
    <3>3. b1 + b2 + rest = total BY <2>7
    <3> QED BY <3>1, <3>2, <3>3, <2>14, <2>15
  <2> QED BY <1>2, <1>9, <2>17, <2>18, <2>20, <2>21, <2>22 DEF MinSegment
<1>12. CASE n = 3
  <2>0. /\ 1 \in 1 .. n /\ 2 \in 1 .. n /\ 3 \in 1 .. n /\ limits \in [1 .. n -> Int]
        /\ n >= 2 /\ n >= 3
    BY <1>12
  <2>1. FilledTo(limits, n, L) = Least(limits[1], L) + Least(limits[2], L) + Least(limits[3], L)
    BY <1>2, <1>7, <1>12, FilledIs
  <2>2. /\ RoomAt(limits, 1, L) = limits[1] - Least(limits[1], L)
        /\ RoomAt(limits, 2, L) = (limits[1] - Least(limits[1], L)) + (limits[2] - Least(limits[2], L))
        /\ RoomAt(limits, 3, L) = (limits[1] - Least(limits[1], L)) + (limits[2] - Least(limits[2], L))
                                    + (limits[3] - Least(limits[3], L))
    BY <1>2, <1>7, <2>0, RoomIs
  <2>3. SumFunction(limits) = limits[1] + limits[2] + limits[3]
    BY <1>2, <1>12, <2>0, LimitsSum
  <2>4. PICK b1 \in Nat, r1 \in Nat : /\ b1 = Least(limits[1], L) /\ r1 = limits[1] - b1
                                       /\ b1 >= 15 /\ limits[1] = b1 + r1
    <3>1. limits[1] \in Nat /\ limits[1] >= MinSegment BY <1>3, <2>0
    <3>2. \E b \in Nat, r \in Nat : /\ b = Least(limits[1], L) /\ r = limits[1] - b
                                   /\ b >= 15 /\ limits[1] = b + r
      BY <1>7, <3>1, BaseTyped
    <3> QED BY <3>2
  <2>5. PICK b2 \in Nat, r2 \in Nat : /\ b2 = Least(limits[2], L) /\ r2 = limits[2] - b2
                                       /\ b2 >= 15 /\ limits[2] = b2 + r2
    <3>1. limits[2] \in Nat /\ limits[2] >= MinSegment BY <1>3, <2>0
    <3>2. \E b \in Nat, r \in Nat : /\ b = Least(limits[2], L) /\ r = limits[2] - b
                                   /\ b >= 15 /\ limits[2] = b + r
      BY <1>7, <3>1, BaseTyped
    <3> QED BY <3>2
  <2>6. PICK b3 \in Nat, r3 \in Nat : /\ b3 = Least(limits[3], L) /\ r3 = limits[3] - b3
                                       /\ b3 >= 15 /\ limits[3] = b3 + r3
    <3>1. limits[3] \in Nat /\ limits[3] >= MinSegment BY <1>3, <2>0
    <3>2. \E b \in Nat, r \in Nat : /\ b = Least(limits[3], L) /\ r = limits[3] - b
                                   /\ b >= 15 /\ limits[3] = b + r
      BY <1>7, <3>1, BaseTyped
    <3> QED BY <3>2
  <2>7. rest \in Nat /\ rest = total - (b1 + b2 + b3) /\ rest <= r1 + r2 + r3
    <3>1. FilledTo(limits, n, L) = b1 + b2 + b3 BY <2>1, <2>4, <2>5, <2>6
    <3>2. SumFunction(limits) = (b1 + r1) + (b2 + r2) + (b3 + r3) BY <2>3, <2>4, <2>5, <2>6
    <3>3. (b1 + r1) + (b2 + r2) + (b3 + r3) = (b1 + b2 + b3) + (r1 + r2 + r3) OBVIOUS
    <3>4. b1 + b2 + b3 \in Nat /\ r1 + r2 + r3 \in Nat OBVIOUS
    <3>5. b1 + b2 + b3 <= total /\ total <= (b1 + b2 + b3) + (r1 + r2 + r3) BY <1>4, <1>7, <3>1, <3>2, <3>3
    <3> QED BY <3>1, <3>4, <3>5
  <2>8. /\ RoomAt(limits, 1, L) = r1 /\ RoomAt(limits, 2, L) = r1 + r2
        /\ RoomAt(limits, 3, L) = r1 + r2 + r3
    BY <2>2, <2>4, <2>5, <2>6
  <2>9. PICK p : p = Least(rest, r1) OBVIOUS
  <2>10. PICK q : q = Least(rest, r1 + r2) OBVIOUS
  <2>11. Poured(b1, b2, b3, r1, r2, r3, rest, p, q)
    <3>1. Poured(b1, b2, b3, r1, r2, r3, rest, Least(rest, r1), Least(rest, r1 + r2))
      BY <2>4, <2>5, <2>6, <2>7, Pouring
    <3> QED BY <2>9, <2>10, <3>1, Zenon
  <2>12. taken(0) = 0 /\ taken(1) = p /\ taken(2) = q BY <2>8, <2>9, <2>10
  <2>13. taken(3) = rest
    <3>1. taken(3) = Least(rest, r1 + r2 + r3) BY <2>8
    <3> QED BY <3>1, <2>11 DEF Poured
  <2> HIDE DEF taken
  <2>14. a[1] = b1 + p
    <3>1. a[1] = Least(limits[1], L) + taken(1) - taken(1 - 1) BY <1>5, <1>9, <2>0
    <3>2. taken(1 - 1) = 0 BY <2>12, 1 - 1 = 0
    <3> QED BY <3>1, <3>2, <2>4, <2>11, <2>12 DEF Poured
  <2>15. a[2] = b2 + (q - p)
    <3>1. a[2] = Least(limits[2], L) + taken(2) - taken(2 - 1) BY <1>5, <1>9, <2>0
    <3>2. taken(2 - 1) = p BY <2>12, 2 - 1 = 1
    <3> QED BY <3>1, <3>2, <2>5, <2>11, <2>12 DEF Poured
  <2>16. a[3] = b3 + (rest - q)
    <3>1. a[3] = Least(limits[3], L) + taken(3) - taken(3 - 1) BY <1>5, <1>9, <2>0
    <3>2. taken(3 - 1) = q BY <2>12, 3 - 1 = 2
    <3> QED BY <3>1, <3>2, <2>6, <2>7, <2>11, <2>13 DEF Poured
  <2>17. /\ a[1] \in Nat /\ 15 <= a[1] /\ a[1] <= limits[1]
    <3>1. b1 + p \in Nat /\ 15 <= b1 + p /\ b1 + p <= b1 + r1 BY <2>11 DEF Poured
    <3> QED BY <3>1, <2>4, <2>14
  <2>18. /\ a[2] \in Nat /\ 15 <= a[2] /\ a[2] <= limits[2]
    <3>1. b2 + (q - p) \in Nat /\ 15 <= b2 + (q - p) /\ b2 + (q - p) <= b2 + r2 BY <2>11 DEF Poured
    <3> QED BY <3>1, <2>5, <2>15
  <2>19. /\ a[3] \in Nat /\ 15 <= a[3] /\ a[3] <= limits[3]
    <3>1. b3 + (rest - q) \in Nat /\ 15 <= b3 + (rest - q) /\ b3 + (rest - q) <= b3 + r3
      BY <2>11 DEF Poured
    <3> QED BY <3>1, <2>6, <2>16
  <2>20. \A i \in 1 .. n : i = 1 \/ i = 2 \/ i = 3 BY <1>12
  <2>21. a \in [1 .. n -> Nat]
    <3>1. DOMAIN a = 1 .. n /\ a = [i \in 1 .. n |-> a[i]] BY <1>5, <1>9
    <3> QED BY <3>1, <2>17, <2>18, <2>19, <2>20
  <2>22. SumFunction(a) = total
    <3>1. SumFunction(a) = a[1] + a[2] + a[3] BY <1>2, <1>12, <2>21, LimitsSum, a \in [1 .. n -> Int]
    <3>2. (b1 + p) + (b2 + (q - p)) + (b3 + (rest - q)) = b1 + b2 + b3 + rest
      BY <2>11 DEF Poured
    <3>3. b1 + b2 + b3 + rest = total BY <2>7
    <3> QED BY <3>1, <3>2, <3>3, <2>14, <2>15, <2>16
  <2> QED BY <1>2, <1>9, <2>17, <2>18, <2>19, <2>20, <2>21, <2>22 DEF MinSegment
<1> QED BY <1>6, <1>10, <1>11, <1>12

-----------------------------------------------------------------------------
(* Sessions in a row, and intervals merged *)

\* Sessions one behind the other: what is before each of at most three.
LEMMA PrecedingIs ==
  ASSUME NEW n \in 1 .. MaxSegments, NEW lengths \in [1 .. n -> Nat]
  PROVE  /\ Preceding(lengths, 1) = 0
         /\ n >= 2 => Preceding(lengths, 2) = lengths[1]
         /\ n >= 3 => Preceding(lengths, 3) = lengths[1] + lengths[2]
<1>0. \A i \in 1 .. n : \A f : f = [j \in 1 .. i - 1 |-> lengths[j]] =>
        Preceding(lengths, i) = Sum(f, 1 .. i - 1)
  <2> TAKE i \in 1 .. n
  <2> TAKE f
  <2> HAVE f = [j \in 1 .. i - 1 |-> lengths[j]]
  <2>1. DOMAIN f = 1 .. i - 1 OBVIOUS
  <2> QED BY <2>1, FoldsAreSums, Zenon DEF Preceding
<1>1. Preceding(lengths, 1) = 0
  <2> PICK f : f = [j \in 1 .. 1 - 1 |-> lengths[j]] OBVIOUS
  <2>1. Preceding(lengths, 1) = Sum(f, 1 .. 1 - 1) BY <1>0, 1 \in 1 .. n
  <2>2. 1 .. 1 - 1 = {} OBVIOUS
  <2>3. Sum(f, 1 .. 1 - 1) = 0 BY <2>2, SumEmpty, Zenon
  <2> QED BY <2>1, <2>3
<1>2. ASSUME n >= 2 PROVE Preceding(lengths, 2) = lengths[1]
  <2> PICK f : f = [j \in 1 .. 2 - 1 |-> lengths[j]] OBVIOUS
  <2>0. 1 \in 1 .. n /\ 2 \in 1 .. n BY <1>2
  <2>1. Preceding(lengths, 2) = Sum(f, 1 .. 2 - 1) BY <1>0, <2>0
  <2>2. 1 .. 2 - 1 = 1 .. 1 OBVIOUS
  <2>3. f[1] = lengths[1] /\ f[1] \in Int BY <2>0
  <2>4. Sum(f, 1 .. 1) = f[1] BY <2>3, ShortSums
  <2>5. Sum(f, 1 .. 2 - 1) = Sum(f, 1 .. 1) BY <2>2, Zenon
  <2> QED BY <2>1, <2>3, <2>4, <2>5
<1>3. ASSUME n >= 3 PROVE Preceding(lengths, 3) = lengths[1] + lengths[2]
  <2> PICK f : f = [j \in 1 .. 3 - 1 |-> lengths[j]] OBVIOUS
  <2>0. 1 \in 1 .. n /\ 2 \in 1 .. n /\ 3 \in 1 .. n BY <1>3
  <2>1. Preceding(lengths, 3) = Sum(f, 1 .. 3 - 1) BY <1>0, <2>0
  <2>2. 1 .. 3 - 1 = 1 .. 2 OBVIOUS
  <2>3. f[1] = lengths[1] /\ f[1] \in Int /\ f[2] = lengths[2] /\ f[2] \in Int BY <2>0
  <2>4. Sum(f, 1 .. 2) = f[1] + f[2] BY <2>3, ShortSums
  <2>5. Sum(f, 1 .. 3 - 1) = Sum(f, 1 .. 2) BY <2>2, Zenon
  <2> QED BY <2>1, <2>3, <2>4, <2>5
<1> QED BY <1>1, <1>2, <1>3

\* Each begins where the one before it ends, and the last ends with the task.
LEMMA SessionsInARow ==
  ASSUME NEW n \in 1 .. MaxSegments, NEW lengths \in [1 .. n -> Nat]
  PROVE  /\ SumFunction(lengths) \in Nat
         /\ Preceding(lengths, 1) = 0
         /\ \A i \in 1 .. n : /\ Preceding(lengths, i) \in Nat
                              /\ Preceding(lengths, i) + lengths[i] <= SumFunction(lengths)
         /\ \A i \in 1 .. n, j \in 1 .. n :
              i < j => Preceding(lengths, i) + lengths[i] <= Preceding(lengths, j)
<1>1. lengths \in [1 .. n -> Int] OBVIOUS
<1>2. CASE n = 1
  <2>1. PICK a \in Nat : a = lengths[1] BY <1>2
  <2>2. SumFunction(lengths) = a BY <1>1, <1>2, <2>1, LimitsSum
  <2>3. Preceding(lengths, 1) = 0 BY PrecedingIs
  <2>4. \A i \in 1 .. n : i = 1 BY <1>2
  <2>5. Preceding(lengths, 1) + lengths[1] <= SumFunction(lengths) BY <2>1, <2>2, <2>3
  <2> QED BY <2>2, <2>3, <2>4, <2>5
<1>3. CASE n = 2
  <2>0. n >= 2 /\ 1 \in 1 .. n /\ 2 \in 1 .. n BY <1>3
  <2>1. PICK a \in Nat, b \in Nat : a = lengths[1] /\ b = lengths[2] BY <2>0
  <2>2. SumFunction(lengths) = a + b BY <1>1, <1>3, <2>1, LimitsSum
  <2>3. Preceding(lengths, 1) = 0 /\ Preceding(lengths, 2) = a BY <2>0, <2>1, PrecedingIs
  <2>4. \A i \in 1 .. n : i = 1 \/ i = 2 BY <1>3
  <2>5. /\ Preceding(lengths, 1) + lengths[1] = a
        /\ Preceding(lengths, 2) + lengths[2] = a + b
    BY <2>1, <2>3
  <2>6. a <= a + b /\ a + b \in Nat OBVIOUS
  <2>7. ASSUME NEW i \in 1 .. n
        PROVE  Preceding(lengths, i) \in Nat /\ Preceding(lengths, i) + lengths[i] <= SumFunction(lengths)
    <3>1. CASE i = 1 BY <2>2, <2>3, <2>5, <2>6, <3>1
    <3>2. CASE i = 2 BY <2>2, <2>3, <2>5, <2>6, <3>2
    <3> QED BY <2>4, <3>1, <3>2
  <2>8. ASSUME NEW i \in 1 .. n, NEW j \in 1 .. n, i < j
        PROVE  Preceding(lengths, i) + lengths[i] <= Preceding(lengths, j)
    <3>1. i = 1 /\ j = 2 BY <2>4, <2>8
    <3> QED BY <2>3, <2>5, <3>1
  <2> QED BY <2>2, <2>3, <2>6, <2>7, <2>8
<1>4. CASE n = 3
  <2>0. n >= 2 /\ n >= 3 /\ 1 \in 1 .. n /\ 2 \in 1 .. n /\ 3 \in 1 .. n BY <1>4
  <2>1. PICK a \in Nat, b \in Nat, c \in Nat : a = lengths[1] /\ b = lengths[2] /\ c = lengths[3]
    BY <2>0
  <2>2. SumFunction(lengths) = a + b + c BY <1>1, <1>4, <2>1, LimitsSum
  <2>3. /\ Preceding(lengths, 1) = 0 /\ Preceding(lengths, 2) = a
        /\ Preceding(lengths, 3) = a + b
    BY <2>0, <2>1, PrecedingIs
  <2>4. \A i \in 1 .. n : i = 1 \/ i = 2 \/ i = 3 BY <1>4
  <2>5. /\ Preceding(lengths, 1) + lengths[1] = a
        /\ Preceding(lengths, 2) + lengths[2] = a + b
        /\ Preceding(lengths, 3) + lengths[3] = a + b + c
    BY <2>1, <2>3
  <2>6. /\ a <= a + b + c /\ a + b <= a + b + c /\ a + b \in Nat /\ a + b + c \in Nat
        /\ a <= a + b
    OBVIOUS
  <2>7. ASSUME NEW i \in 1 .. n
        PROVE  Preceding(lengths, i) \in Nat /\ Preceding(lengths, i) + lengths[i] <= SumFunction(lengths)
    <3>1. CASE i = 1 BY <2>2, <2>3, <2>5, <2>6, <3>1
    <3>2. CASE i = 2 BY <2>2, <2>3, <2>5, <2>6, <3>2
    <3>3. CASE i = 3 BY <2>2, <2>3, <2>5, <2>6, <3>3
    <3> QED BY <2>4, <3>1, <3>2, <3>3
  <2>8. ASSUME NEW i \in 1 .. n, NEW j \in 1 .. n, i < j
        PROVE  Preceding(lengths, i) + lengths[i] <= Preceding(lengths, j)
    <3>1. (i = 1 /\ (j = 2 \/ j = 3)) \/ (i = 2 /\ j = 3) BY <2>4, <2>8
    <3> QED BY <2>3, <2>5, <2>6, <3>1
  <2> QED BY <2>2, <2>3, <2>6, <2>7, <2>8
<1> QED BY <1>2, <1>3, <1>4 DEF MaxSegments


\* Sharing time is symmetric.
LEMMA MeetBothWays ==
  ASSUME NEW i, NEW j
  PROVE  Meet(i, j) <=> Meet(j, i)
  BY DEF Meet

\* Sets of intervals that do not go on forever.
Proper(I) ==
  /\ I \subseteq Nat \X Nat
  /\ \A i \in I : i[1] < i[2]
  /\ \E n \in Nat : \A i \in I : i[2] <= n

MergedStarts(I) == {i[1] : i \in {j \in I : ~\E k \in I : k[1] < j[1] /\ j[1] <= k[2]}}
MergedEnds(I) == {i[2] : i \in {j \in I : ~\E k \in I : k[1] <= j[2] /\ j[2] < k[2]}}

\* From each start of the union an end can be reached.
LEMMA MergedReaches ==
  ASSUME NEW I, Proper(I), NEW s \in MergedStarts(I)
  PROVE  /\ s \in Nat /\ \E i \in I : i[1] = s
         /\ Min({e \in MergedEnds(I) : e >= s}) \in {e \in MergedEnds(I) : e >= s}
         /\ \A e \in MergedEnds(I) : e >= s => Min({d \in MergedEnds(I) : d >= s}) <= e
         /\ Min({e \in MergedEnds(I) : e >= s}) > s
<1> DEFINE E == {e \in MergedEnds(I) : e >= s}
<1> DEFINE R == {k[2] : k \in {l \in I : l[2] >= s}}
<1>0. /\ \A i \in I : i[1] \in Nat /\ i[2] \in Nat /\ i[1] < i[2]
      /\ \E n \in Nat : \A i \in I : i[2] <= n
  BY DEF Proper
<1>1. PICK j \in I : j[1] = s /\ ~\E k \in I : k[1] < j[1] /\ j[1] <= k[2] BY DEF MergedStarts
<1>2. s \in Nat BY <1>0, <1>1
<1>3. j[2] \in R /\ R \subseteq Nat /\ \E n \in Nat : \A r \in R : r <= n BY <1>0, <1>1
<1>4. PICK m : m = Max(R) OBVIOUS
<1>5. m \in R /\ \A r \in R : r <= m
  <2> HIDE DEF R
  <2> QED BY <1>3, <1>4, MaxIsGreatest
<1>6. PICK l \in I : l[2] = m /\ m >= s BY <1>5
<1>7. ASSUME NEW k \in I, k[1] <= l[2], l[2] < k[2] PROVE FALSE
  <2>1. k[2] \in R BY <1>0, <1>2, <1>6, <1>7
  <2> QED BY <1>0, <1>5, <1>6, <1>7, <2>1
<1>8. m \in E BY <1>6, <1>7 DEF MergedEnds
<1>9. E \subseteq Nat BY <1>0 DEF MergedEnds
<1>10. Min(E) \in E /\ \A e \in E : Min(E) <= e
  <2> HIDE DEF E
  <2> QED BY <1>8, <1>9, MinIsLeast
<1>11. Min(E) > s
  <2>1. PICK i \in I : i[2] = Min(E) BY <1>10 DEF MergedEnds
  <2>2. CASE i[1] < s
    <3>1. ~ (s <= i[2]) BY <1>1, <2>2
    <3> QED BY <3>1, <2>1, <1>10, <1>0, <1>2
  <2>3. CASE ~ (i[1] < s)
    <3>1. i[1] >= s /\ i[1] < i[2] BY <1>0, <1>2, <2>3
    <3> QED BY <3>1, <2>1, <1>0, <1>2
  <2> QED BY <2>2, <2>3
<1> QED BY <1>1, <1>2, <1>10, <1>11

\* What a merged interval is.
LEMMA MergedIs ==
  ASSUME NEW I, NEW b
  PROVE  b \in Merged(I) <=>
           \E s \in MergedStarts(I) : b = <<s, Min({e \in MergedEnds(I) : e >= s})>>
  BY Zenon DEF Merged, MergedStarts, MergedEnds

\* _merge returns intervals that begin and end where given ones do.
LEMMA MergedProper ==
  ASSUME NEW I, Proper(I)
  PROVE  /\ Proper(Merged(I))
         /\ \A b \in Merged(I) : /\ \E i \in I : i[1] = b[1]
                                 /\ \E i \in I : i[2] = b[2]
<1>0. /\ \A i \in I : i[1] \in Nat /\ i[2] \in Nat /\ i[1] < i[2]
      /\ \E n \in Nat : \A i \in I : i[2] <= n
  BY DEF Proper
<1>1. ASSUME NEW b \in Merged(I)
      PROVE  /\ b \in Nat \X Nat /\ b[1] < b[2]
             /\ \E i \in I : i[1] = b[1]
             /\ \E i \in I : i[2] = b[2]
  <2>1. PICK s \in MergedStarts(I) : b = <<s, Min({e \in MergedEnds(I) : e >= s})>> BY MergedIs
  <2>2. /\ s \in Nat /\ \E i \in I : i[1] = s
        /\ Min({e \in MergedEnds(I) : e >= s}) \in {e \in MergedEnds(I) : e >= s}
        /\ Min({e \in MergedEnds(I) : e >= s}) > s
    BY MergedReaches
  <2>3. PICK m : m = Min({e \in MergedEnds(I) : e >= s}) OBVIOUS
  <2>4. m \in MergedEnds(I) /\ m > s BY <2>2, <2>3
  <2>5. PICK i \in I : i[2] = m BY <2>4 DEF MergedEnds
  <2>6. m \in Nat BY <1>0, <2>5
  <2>7. b = <<s, m>> BY <2>1, <2>3
  <2> QED BY <2>2, <2>4, <2>5, <2>6, <2>7
<1>2. \E n \in Nat : \A b \in Merged(I) : b[2] <= n
  <2>1. PICK n \in Nat : \A i \in I : i[2] <= n BY <1>0
  <2>2. ASSUME NEW b \in Merged(I) PROVE b[2] <= n
    <3>1. PICK i \in I : i[2] = b[2] BY <1>1
    <3> QED BY <2>1, <3>1
  <2> QED BY <2>2
<1>3. Merged(I) \subseteq Nat \X Nat /\ \A b \in Merged(I) : b[1] < b[2] BY <1>1
<1>4. Proper(Merged(I)) BY <1>2, <1>3, Zenon DEF Proper
<1> QED BY <1>1, <1>4

\* _merge loses nothing.
LEMMA MergedCovers ==
  ASSUME NEW I, Proper(I), NEW i \in I
  PROVE  \E b \in Merged(I) : b[1] <= i[1] /\ i[2] <= b[2]
<1>0. /\ \A k \in I : k[1] \in Nat /\ k[2] \in Nat /\ k[1] < k[2]
      /\ \E n \in Nat : \A k \in I : k[2] <= n
  BY DEF Proper
<1> DEFINE P == {s \in MergedStarts(I) : s <= i[1]}
<1>1. P \subseteq Nat BY <1>0 DEF MergedStarts
<1>2. P # {}
  <2>5. SUFFICES ASSUME P = {} PROVE FALSE OBVIOUS
  <2> DEFINE Z == {a \in Nat : \E l \in I : l[1] = a /\ a <= i[1]}
  <2>6. i[1] \in Z BY <1>0
  <2>7. PICK a \in Z : \A c \in Z : a <= c
    <3>1. Z \subseteq Nat OBVIOUS
    <3> HIDE DEF Z
    <3> QED BY <2>6, <3>1, LeastMember
  <2>8. PICK l \in I : l[1] = a /\ a <= i[1] BY <2>7
  <2>9. ASSUME NEW h \in I, h[1] < l[1], l[1] <= h[2] PROVE FALSE
    <3>1. h[1] \in Z BY <1>0, <2>8, <2>9
    <3> QED BY <1>0, <2>7, <2>8, <2>9, <3>1
  <2>10. a \in MergedStarts(I) BY <2>8, <2>9 DEF MergedStarts
  <2> QED BY <2>5, <2>8, <2>10
<1>3. PICK s : s \in P /\ \A p \in P : p <= s
  <2>1. i[1] \in Nat /\ \A p \in P : p <= i[1] BY <1>0
  <2> HIDE DEF P
  <2>2. Max(P) \in P /\ \A p \in P : p <= Max(P) BY <1>1, <1>2, <2>1, MaxIsGreatest
  <2> QED BY <2>2
<1>4. s \in MergedStarts(I) /\ s <= i[1] /\ s \in Nat BY <1>1, <1>3
<1>5. PICK e : e = Min({d \in MergedEnds(I) : d >= s}) OBVIOUS
<1>6. e \in MergedEnds(I) /\ e >= s /\ e > s BY <1>4, <1>5, MergedReaches
<1>7. PICK j \in I : j[2] = e /\ ~\E k \in I : k[1] <= e /\ e < k[2] BY <1>6 DEF MergedEnds
<1>8. e \in Nat BY <1>0, <1>7
<1>9. i[2] <= e
  <2> SUFFICES ASSUME e < i[2] PROVE FALSE BY <1>0, <1>8
  <2>1. e < i[1] BY <1>0, <1>7, <1>8
  <2> DEFINE Z == {a \in Nat : a > e /\ a <= i[1] /\ \E l \in I : l[1] = a}
  <2>2. i[1] \in Z BY <1>0, <2>1
  <2>3. PICK a \in Z : \A c \in Z : a <= c
    <3>1. Z \subseteq Nat OBVIOUS
    <3> HIDE DEF Z
    <3> QED BY <2>2, <3>1, LeastMember
  <2>4. PICK l \in I : l[1] = a /\ a <= i[1] /\ a > e BY <2>3
  <2>5. ASSUME NEW h \in I, h[1] < l[1], l[1] <= h[2] PROVE FALSE
    <3>1. CASE h[1] > e
      <4>1. h[1] \in Z BY <1>0, <2>4, <2>5, <3>1
      <4> QED BY <1>0, <2>3, <2>4, <2>5, <4>1
    <3>2. CASE ~ (h[1] > e)
      <4>1. h[1] <= e /\ e < h[2] BY <1>0, <1>8, <2>4, <2>5, <3>2
      <4> QED BY <1>7, <4>1
    <3> QED BY <3>1, <3>2
  <2>6. a \in MergedStarts(I) BY <2>4, <2>5 DEF MergedStarts
  <2>7. a \in P BY <2>4, <2>6
  <2> QED BY <1>1, <1>3, <1>6, <1>8, <2>4, <2>7
<1>10. <<s, e>> \in Merged(I) BY <1>4, <1>5, MergedIs
<1> QED BY <1>4, <1>9, <1>10

-----------------------------------------------------------------------------
(* Drafts: TodayDrafts *)

(* TodayDrafts *)

DraftsSpec == DraftsInit /\ [][DraftsNext]_draftVars

DraftsTyped ==
  /\ today \in 0 .. LastDate
  /\ rows \in [Items -> [Dates -> Nat]]
  /\ session \in [pc : {"form", "warned", "applying", "adding", "keeping", "deferring", "closing", "closed"},
                  kind : {"none", "ai", "manual"}, section : {"none", "more", "onboard"},
                  asked : Dates \cup {NoPlan}, warned : BOOLEAN, kept : SUBSET Items,
                  target : Dates \cup {NoPlan}]
  /\ history \in [confirms : Nat, failed : SUBSET Items,
                  ended : {"no", "cancelled", "applied", "refused", "split", "lost"}]

\* Where the script can be after how many confirmations.
Stages ==
  /\ session.pc = "closed" <=> history.ended # "no"
  /\ session.pc \in {"form", "adding"} => history.confirms = 0
  /\ session.kind = "manual" => history.confirms = 0
  /\ session.pc = "applying" => session.kind = "ai"
  /\ session.pc \notin {"form", "closed"} => session.kind # "none"
  /\ session.pc \in {"warned", "keeping", "deferring"} => session.warned
  /\ session.pc = "applying" /\ ~session.warned => history.confirms = 0
  /\ session.pc \in {"keeping", "deferring", "closing"} => history.confirms > 0
  /\ session.target # NoPlan => session.target <= today
  /\ session.pc = "deferring" => session.target # NoPlan

\* How many rows a task can have by then: a confirmation that is not finished
\* has added none of what it has still to save.
Rowed ==
  /\ session.pc # "closed" => \A i \in Items : Copies(i) <= history.confirms
  /\ session.pc = "keeping" => \A i \in Items : Copies(i) < history.confirms
  /\ session.pc = "deferring" =>
       /\ \A i \in Deferred : Copies(i) < history.confirms
       /\ \A i \in session.kept \ history.failed : Copies(i) >= 1
       /\ history.confirms = 1 => \A i \in Items, d \in Dates :
            rows[i][d] > 0 => i \in session.kept /\ d = session.target
  /\ session.pc = "closing" =>
       /\ \A i \in Items \ history.failed : Copies(i) >= 1
       /\ history.confirms = 1 => \A i \in session.kept, j \in Deferred, d, e \in Dates :
            rows[i][d] > 0 /\ rows[j][e] > 0 => d < e

DraftsInv == DraftsTyped /\ Stages /\ Rowed /\ DraftsLandOnce

LEMMA DatesAreFinite == IsFiniteSet(Dates) /\ Dates \subseteq Nat
<1>1. LastDate \in Nat BY DraftsAssumption
<1>2. 0 \in Int /\ LastDate + 1 \in Int BY <1>1
<1>3. IsFiniteSet(0 .. LastDate + 1) BY <1>2, FS_Interval
<1> QED BY <1>1, <1>3 DEF Dates

\* The rows of an item over all plans, as a sum over the dates.
LEMMA CopiesAreSums ==
  ASSUME NEW i
  PROVE  Copies(i) = Sum(rows[i], Dates) /\ Copies(i)' = Sum(rows'[i], Dates)
<1>1. Copies(i) = Sum(rows[i], Dates) BY Zenon DEF Copies, Sum
<1>2. Copies(i)' = Sum(rows'[i], Dates)
  BY Zenon DEF Copies, Sum, MapThenSumSet, MapThenFoldSet
<1> QED BY <1>1, <1>2

LEMMA CopiesAreNatural ==
  ASSUME rows \in [Items -> [Dates -> Nat]], NEW i \in Items
  PROVE  Copies(i) \in Nat
<1>1. \A d \in Dates : rows[i][d] \in Nat OBVIOUS
<1>2. Sum(rows[i], Dates) \in Nat BY <1>1, DatesAreFinite, SumNatural
<1> QED BY <1>2, CopiesAreSums

\* No row at all, when there are none altogether.
LEMMA NoCopies ==
  ASSUME rows \in [Items -> [Dates -> Nat]], NEW i \in Items, Copies(i) = 0, NEW d \in Dates
  PROVE  rows[i][d] = 0
<1>1. \A e \in Dates : rows[i][e] \in Nat OBVIOUS
<1>2. Sum(rows[i], Dates) = 0 BY CopiesAreSums
<1> QED BY <1>1, <1>2, DatesAreFinite, SumOfNothing

LEMMA NoRowNoCopies ==
  ASSUME NEW i \in Items, \A d \in Dates : rows[i][d] = 0
  PROVE  Copies(i) = 0
<1>1. Sum(rows[i], Dates) = 0 BY DatesAreFinite, SumOfZeros
<1> QED BY <1>1, CopiesAreSums

\* Saving adds one row to each task that is saved, on the day it is saved to.
LEMMA SavedRows ==
  ASSUME rows \in [Items -> [Dates -> Nat]], NEW S, NEW d \in Dates, rows' = Saved(S, d)
  PROVE  /\ rows' \in [Items -> [Dates -> Nat]]
         /\ \A i \in Items, e \in Dates :
              rows'[i][e] = IF i \in S /\ e = d THEN rows[i][e] + 1 ELSE rows[i][e]
         /\ \A i \in Items : Copies(i)' = IF i \in S THEN Copies(i) + 1 ELSE Copies(i)
<1>1. \A i \in Items : rows[i] \in [Dates -> Nat] OBVIOUS
<1>2. \A i \in Items : rows'[i] = [rows[i] EXCEPT ![d] = rows[i][d] + IF i \in S THEN 1 ELSE 0]
  BY DEF Saved
<1>3. \A i \in Items, e \in Dates :
        rows'[i][e] = IF i \in S /\ e = d THEN rows[i][e] + 1 ELSE rows[i][e]
  <2> SUFFICES ASSUME NEW i \in Items, NEW e \in Dates
               PROVE  rows'[i][e] = IF i \in S /\ e = d THEN rows[i][e] + 1 ELSE rows[i][e]
    OBVIOUS
  <2>1. rows[i] \in [Dates -> Nat] /\ rows[i][e] \in Nat BY <1>1
  <2>2. rows'[i][e] = IF e = d THEN rows[i][d] + IF i \in S THEN 1 ELSE 0 ELSE rows[i][e]
    BY <1>2, <2>1
  <2> QED BY <2>1, <2>2
<1>4. rows' \in [Items -> [Dates -> Nat]]
  <2>1. \A i \in Items : rows'[i] \in [Dates -> Nat]
    <3> SUFFICES ASSUME NEW i \in Items PROVE rows'[i] \in [Dates -> Nat] OBVIOUS
    <3>1. rows[i] \in [Dates -> Nat] /\ rows[i][d] \in Nat BY <1>1
    <3>2. PICK k \in Nat : k = rows[i][d] + IF i \in S THEN 1 ELSE 0 BY <3>1
    <3>3. rows'[i] = [rows[i] EXCEPT ![d] = k] BY <1>2, <3>2
    <3> QED BY <3>1, <3>3
  <2>2. rows' = [i \in Items |-> rows'[i]] BY DEF Saved
  <2> QED BY <2>1, <2>2
<1>5. ASSUME NEW i \in Items
      PROVE  Copies(i)' = IF i \in S THEN Copies(i) + 1 ELSE Copies(i)
  <2>1. PICK f : f = rows[i] OBVIOUS
  <2>2. PICK g : g = rows'[i] OBVIOUS
  <2>3. Copies(i) = Sum(f, Dates) BY <2>1, CopiesAreSums
  <2>4. Copies(i)' = Sum(g, Dates)
    <3>1. Copies(i)' = Sum(rows'[i], Dates) BY CopiesAreSums
    <3> QED BY <3>1, <2>2
  <2>5. \A e \in Dates : f[e] \in Int BY <1>1, <2>1
  <2>6. g[d] = (IF i \in S THEN f[d] + 1 ELSE f[d]) /\ \A e \in Dates \ {d} : g[e] = f[e]
    BY <1>3, <2>1, <2>2
  <2>7. Sum(g, Dates) = Sum(f, Dates) + (g[d] - f[d])
    <3>1. \A e \in Dates : g[e] \in Int BY <2>5, <2>6
    <3>2. ChangesAt(f, g, Dates, d) BY <2>5, <2>6, <3>1 DEF ChangesAt
    <3> QED BY <3>2, DatesAreFinite, SumChanges
  <2>8. Sum(f, Dates) \in Int BY <2>5, DatesAreFinite, SumTyped
  <2> QED BY <2>3, <2>4, <2>5, <2>6, <2>7, <2>8
<1> QED BY <1>3, <1>4, <1>5

LEMMA TodayIsADate ==
  ASSUME today \in 0 .. LastDate
  PROVE  /\ today \in Nat /\ today \in Dates /\ today + 1 \in Dates /\ today + 1 \in Nat
         /\ today \notin {NoPlan} /\ NoPlan \notin Dates
BY DraftsAssumption DEF Dates

LEMMA SomethingIsDrafted ==
  ASSUME NEW kind \in {"ai", "manual"}
  PROVE  DraftedBy(kind) \subseteq Items /\ DraftedBy(kind) # {}
<1>1. Items \subseteq Nat /\ Items # {} BY DraftsAssumption
<1>2. \E i \in Items : \A j \in Items : i <= j BY <1>1, LeastMember
<1>3. (CHOOSE i \in Items : \A j \in Items : i <= j) \in Items BY <1>2
<1> QED BY <1>1, <1>3 DEF DraftedBy

\* Before a page is opened nothing is drafted.
LEMMA DraftsBegin == ASSUME DraftsInit PROVE DraftsInv
<1> USE DEF DraftsInit
<1>1. \A i \in Items, d \in Dates : rows[i][d] = 0 OBVIOUS
<1>2. \A i \in Items : Copies(i) = 0 BY <1>1, NoRowNoCopies
<1>3. DraftsTyped BY DraftsAssumption DEF DraftsTyped
<1>4. Stages BY DEF Stages
<1>5. Rowed BY <1>2 DEF Rowed
<1>6. DraftsLandOnce BY <1>2 DEF DraftsLandOnce
<1> QED BY <1>3, <1>4, <1>5, <1>6 DEF DraftsInv

\* A step that saves nothing leaves the sums alone.
LEMMA SameCopies ==
  ASSUME rows' = rows
  PROVE  \A i : Copies(i)' = Copies(i) /\ On(i)' = On(i)
<1> SUFFICES ASSUME NEW i PROVE Copies(i)' = Copies(i) /\ On(i)' = On(i) OBVIOUS
<1>1. Copies(i)' = Sum(rows'[i], Dates) /\ Copies(i) = Sum(rows[i], Dates) BY CopiesAreSums
<1>2. Copies(i)' = Copies(i) BY <1>1
<1>3. On(i)' = On(i) BY DEF On
<1> QED BY <1>2, <1>3

\* ... and what is true of them while the session goes on, if neither its
\* script nor its confirmations move.
LEMMA AroundTheSession ==
  ASSUME DraftsInv, UNCHANGED <<rows, session, history>>, today' \in today .. LastDate
  PROVE  DraftsInv'
<1>0. today \in Nat /\ today' \in Nat /\ today <= today' /\ today' \in 0 .. LastDate
  BY DraftsAssumption DEF DraftsInv, DraftsTyped
<1>1. \A i : Copies(i)' = Copies(i) /\ On(i)' = On(i) BY SameCopies
<1>2. Deferred' = Deferred /\ Drafted' = Drafted BY DEF Deferred, Drafted
<1>3. DraftsTyped' BY <1>0 DEF DraftsInv, DraftsTyped, Dates
<1>4. Stages'
  <2>1. session.target # NoPlan => session.target \in Nat /\ session.target <= today
    BY DatesAreFinite DEF DraftsInv, DraftsTyped, Stages
  <2>2. session.target # NoPlan => session.target <= today' BY <1>0, <2>1
  <2> QED BY <2>2 DEF DraftsInv, Stages
<1>5. Rowed' BY <1>1, <1>2 DEF DraftsInv, Rowed
<1>6. DraftsLandOnce'
  <2>1. (UNION {On(i) : i \in Items})' = UNION {On(i) : i \in Items} BY <1>1
  <2>2. DraftsLandOnce BY DEF DraftsInv
  <2> QED BY <1>1, <1>2, <2>1, <2>2 DEF DraftsLandOnce
<1> QED BY <1>3, <1>4, <1>5, <1>6 DEF DraftsInv

\* Asking for a draft, by the assistant or by hand.
LEMMA AskKeeps == ASSUME DraftsInv, NEW kind \in {"ai", "manual"}, Ask(kind) PROVE DraftsInv'
<1> USE DEF Ask
<1>1. \A i : Copies(i)' = Copies(i) /\ On(i)' = On(i) BY SameCopies
<1>2. /\ session.pc = "form" /\ session'.kind = kind /\ session'.target = session.target
      /\ session'.pc \in {"warned", "applying", "adding"} /\ history' = history
      /\ session'.pc = "applying" => kind = "ai"
      /\ session'.kept = session.kept
  BY DEF DraftsInv, DraftsTyped
<1>3. DraftsTyped'
  <2>1. Section \in {"more", "onboard"} BY DEF Section
  <2>2. Triggered(DraftedBy(kind)) \in BOOLEAN BY DraftsAssumption DEF Triggered
  <2>3. today \in Dates BY TodayIsADate DEF DraftsInv, DraftsTyped
  <2> QED BY <2>1, <2>2, <2>3 DEF DraftsInv, DraftsTyped, Dates
<1>4. history.confirms = 0 /\ history.ended = "no" /\ \A i \in Items : Copies(i) <= history.confirms
  BY <1>2 DEF DraftsInv, Stages, Rowed
<1>5. Stages' BY <1>2, <1>4 DEF DraftsInv, Stages
<1>6. Rowed' BY <1>1, <1>2, <1>4 DEF Rowed
<1>7. DraftsLandOnce' BY <1>1, <1>2, <1>4 DEF DraftsLandOnce
<1> QED BY <1>3, <1>5, <1>6, <1>7 DEF DraftsInv

\* A session that ends without saving anything, with no more to say than how
\* many rows there are.
LEMMA EndsWithout ==
  ASSUME DraftsInv, NEW how \in {"cancelled", "lost"}, Ended(how), session.pc # "closed",
         UNCHANGED <<rows, today>>
  PROVE  DraftsInv'
<1> USE DEF Ended
<1>1. \A i : Copies(i)' = Copies(i) /\ On(i)' = On(i) BY SameCopies
<1>2. /\ session'.pc = "closed" /\ history'.ended = how /\ session'.kind = session.kind
      /\ history'.confirms = history.confirms /\ session'.target = session.target
  BY DEF DraftsInv, DraftsTyped
<1>3. DraftsTyped' BY DEF DraftsInv, DraftsTyped, Dates
<1>4. \A i \in Items : Copies(i) <= history.confirms BY DEF DraftsInv, Rowed
<1>5. Stages' BY <1>2 DEF DraftsInv, Stages
<1>6. Rowed' BY <1>2 DEF Rowed
<1>7. DraftsLandOnce' BY <1>1, <1>2, <1>4 DEF DraftsLandOnce
<1> QED BY <1>3, <1>5, <1>6, <1>7 DEF DraftsInv

\* The script goes on from a warning, or back to it.
LEMMA MovesOn ==
  ASSUME DraftsInv, NEW pc \in {"form", "warned", "applying", "adding"}, To(pc),
         UNCHANGED <<rows, today, history>>, session.pc \notin {"form", "closed"},
         pc \in {"form", "adding"} => history.confirms = 0,
         pc = "applying" => session.kind = "ai", pc \in {"warned", "applying"} => session.warned
  PROVE  DraftsInv'
<1> USE DEF To
<1>1. \A i : Copies(i)' = Copies(i) /\ On(i)' = On(i) BY SameCopies
<1>2. /\ session'.pc = pc /\ session'.kind = session.kind /\ session'.target = session.target
      /\ session'.warned = session.warned
  BY DEF DraftsInv, DraftsTyped
<1>3. DraftsTyped' BY DEF DraftsInv, DraftsTyped, Dates
<1>4. \A i \in Items : Copies(i) <= history.confirms BY DEF DraftsInv, Rowed
<1>5. Stages' BY <1>2 DEF DraftsInv, Stages
<1>6. Rowed' BY <1>1, <1>2, <1>4 DEF Rowed
<1>7. DraftsLandOnce' BY <1>1, <1>4, <1>5, <1>2 DEF DraftsLandOnce, Stages
<1> QED BY <1>3, <1>5, <1>6, <1>7 DEF DraftsInv

\* What is applied before any confirmation is all there is.
LEMMA AppliedAtOnce ==
  ASSUME DraftsInv, NEW S, rows' = Saved(S, today), Ended("applied"), UNCHANGED today,
         session.pc \in {"applying", "adding"}, S = Drafted, session.kind \in {"ai", "manual"}
  PROVE  DraftsInv'
<1> USE DEF Ended
<1>0. today \in Dates BY TodayIsADate DEF DraftsInv, DraftsTyped
<1>1. /\ rows' \in [Items -> [Dates -> Nat]]
      /\ \A i \in Items, e \in Dates :
           rows'[i][e] = IF i \in S /\ e = today THEN rows[i][e] + 1 ELSE rows[i][e]
      /\ \A i \in Items : Copies(i)' = IF i \in S THEN Copies(i) + 1 ELSE Copies(i)
  BY <1>0, SavedRows DEF DraftsInv, DraftsTyped
<1>2. /\ session'.pc = "closed" /\ history'.ended = "applied" /\ session'.kind = session.kind
      /\ history'.confirms = history.confirms /\ session'.target = session.target
      /\ session'.kept = session.kept
  BY DEF DraftsInv, DraftsTyped
<1>3. DraftsTyped' BY <1>1 DEF DraftsInv, DraftsTyped, Dates
<1>4. Stages' BY <1>2 DEF DraftsInv, Stages
<1>5. Rowed' BY <1>2 DEF Rowed
<1>6. Drafted' = S BY <1>2 DEF Drafted
<1>7. ASSUME history.confirms = 0
      PROVE  /\ \A i \in Items : Copies(i)' = IF i \in S THEN 1 ELSE 0
             /\ (UNION {On(i) : i \in Items})' = {today}
  <2>1. \A i \in Items : Copies(i) = 0
    <3>1. \A i \in Items : Copies(i) <= 0 BY <1>7 DEF DraftsInv, Rowed
    <3>2. \A i \in Items : Copies(i) \in Nat BY CopiesAreNatural DEF DraftsInv, DraftsTyped
    <3> QED BY <3>1, <3>2
  <2>2. \A i \in Items, e \in Dates : rows[i][e] = 0
    BY <2>1, NoCopies DEF DraftsInv, DraftsTyped
  <2>3. \A i \in Items : On(i)' = IF i \in S THEN {today} ELSE {}
    BY <1>0, <1>1, <2>2 DEF On
  <2>4. \E i \in Items : i \in S
    BY SomethingIsDrafted DEF Drafted
  <2> QED BY <1>1, <2>1, <2>3, <2>4
<1>8. DraftsLandOnce'
  <2>1. Cardinality({today}) = 1 BY FS_Singleton
  <2>2. history.confirms = 0 => Cardinality((UNION {On(i) : i \in Items})') = 1
    BY <1>7, <2>1
  <2> QED BY <1>2, <1>6, <1>7, <2>2 DEF DraftsLandOnce
<1> QED BY <1>3, <1>4, <1>5, <1>8 DEF DraftsInv

\* Applying a draft the day has room for.
LEMMA ApplyDraftKeeps == ASSUME DraftsInv, ApplyDraft PROVE DraftsInv'
<1>1. session.pc = "applying" /\ session.kind = "ai" BY DEF ApplyDraft, DraftsInv, Stages
<1>2. CASE rows' = Saved(Items, today) /\ Ended("applied")
  <2>1. Items = Drafted BY <1>1 DEF Drafted, DraftedBy
  <2>2. UNCHANGED today BY DEF ApplyDraft
  <2>3. DraftsInv /\ session.kind \in {"ai", "manual"} /\ session.pc \in {"applying", "adding"} BY <1>1
  <2> QED BY <1>2, <2>1, <2>2, <2>3, AppliedAtOnce
<1>3. CASE To(IF session.warned THEN "warned" ELSE "form") /\ UNCHANGED <<rows, history>>
  <2>1. PICK pc \in {"warned", "form"} : pc = (IF session.warned THEN "warned" ELSE "form") OBVIOUS
  <2>2. To(pc) BY <1>3, <2>1
  <2>3. UNCHANGED <<rows, today, history>> BY <1>3 DEF ApplyDraft
  <2>4. (pc = "form" => history.confirms = 0) /\ (pc = "warned" => session.warned)
    BY <1>1, <2>1 DEF DraftsInv, Stages, DraftsTyped
  <2>5. pc \in {"form", "warned", "applying", "adding"} OBVIOUS
  <2> QED BY <1>1, <2>2, <2>3, <2>4, <2>5, MovesOn
<1> QED BY <1>2, <1>3 DEF ApplyDraft

\* Adding by hand, over the day's capacity or not.
LEMMA AddManualKeeps == ASSUME DraftsInv, AddManual PROVE DraftsInv'
<1>1. session.pc = "adding" /\ history.confirms = 0 BY DEF AddManual, DraftsInv, Stages
<1>2. UNCHANGED today BY DEF AddManual
<1>3. CASE rows' = Saved(Drafted, today) /\ Ended("applied")
  <2>1. session.kind \in {"ai", "manual"} BY <1>1 DEF DraftsInv, Stages, DraftsTyped
  <2> QED BY <1>1, <1>2, <1>3, <2>1, AppliedAtOnce
<1>4. CASE Ended("refused") /\ UNCHANGED rows
  <2> USE DEF Ended
  <2>1. \A i : Copies(i)' = Copies(i) /\ On(i)' = On(i) BY <1>4, SameCopies
  <2>2. /\ session'.pc = "closed" /\ history'.ended = "refused" /\ session'.kind = session.kind
        /\ history'.confirms = history.confirms /\ session'.target = session.target
    BY <1>4 DEF DraftsInv, DraftsTyped
  <2>3. DraftsTyped' BY <1>2, <1>4 DEF DraftsInv, DraftsTyped, Dates
  <2>4. \A i \in Items : Copies(i) = 0
    <3>1. \A i \in Items : Copies(i) <= 0 BY <1>1 DEF DraftsInv, Rowed
    <3>2. \A i \in Items : Copies(i) \in Nat BY CopiesAreNatural DEF DraftsInv, DraftsTyped
    <3> QED BY <3>1, <3>2
  <2>5. Stages' BY <1>2, <2>2 DEF DraftsInv, Stages
  <2>6. Rowed' BY <2>2 DEF Rowed
  <2>7. DraftsLandOnce' BY <2>1, <2>2, <2>4 DEF DraftsLandOnce
  <2> QED BY <2>3, <2>5, <2>6, <2>7 DEF DraftsInv
<1> QED BY <1>3, <1>4 DEF AddManual

\* Confirming the warning opens the split.
LEMMA ConfirmKeeps ==
  ASSUME DraftsInv, NEW flips \in SUBSET (Items \ FixedItems), Confirm(flips)
  PROVE  DraftsInv'
<1> USE DEF Confirm
<1>0. PICK kept : kept = FixedItems \cup (CapacitySplit \ flips) \cup (flips \ CapacitySplit) OBVIOUS
<1>1. \A i : Copies(i)' = Copies(i) /\ On(i)' = On(i) BY SameCopies
<1>2. /\ session.pc = "warned" /\ session.kind = "ai" /\ session'.pc = "keeping" /\ session'.kind = "ai"
      /\ session'.target = (IF today \in plans THEN today ELSE NoPlan)
      /\ session'.kept = kept /\ session'.warned = session.warned
      /\ history'.confirms = history.confirms + 1 /\ history'.ended = history.ended
  BY <1>0 DEF DraftsInv, DraftsTyped, Warned
<1>3. kept \subseteq Items
  <2>1. CapacitySplit \subseteq Items \ FixedItems BY DEF CapacitySplit
  <2>2. FixedItems \subseteq Items BY DraftsAssumption
  <2> QED BY <1>0, <2>1, <2>2
<1>4. today \in Dates /\ today \in Nat /\ today <= today /\ today # NoPlan
  BY TodayIsADate DEF DraftsInv, DraftsTyped
<1>5. DraftsTyped'
  <2>1. PICK target : target = IF today \in plans THEN today ELSE NoPlan OBVIOUS
  <2>2. session' = [session EXCEPT !.pc = "keeping", !.target = target, !.kept = kept]
    BY <1>0, <2>1
  <2>3. target \in Dates \cup {NoPlan} BY <1>4, <2>1
  <2>4. history' = [history EXCEPT !.confirms = history.confirms + 1] OBVIOUS
  <2>5. UNCHANGED <<today, rows>> OBVIOUS
  <2> HIDE DEF Confirm
  <2>6. session' \in [pc : {"form", "warned", "applying", "adding", "keeping", "deferring", "closing", "closed"},
                     kind : {"none", "ai", "manual"}, section : {"none", "more", "onboard"},
                     asked : Dates \cup {NoPlan}, warned : BOOLEAN, kept : SUBSET Items,
                     target : Dates \cup {NoPlan}]
    BY <1>3, <2>2, <2>3 DEF DraftsInv, DraftsTyped
  <2>7. history' \in [confirms : Nat, failed : SUBSET Items,
                      ended : {"no", "cancelled", "applied", "refused", "split", "lost"}]
    BY <2>4 DEF DraftsInv, DraftsTyped
  <2> QED BY <2>5, <2>6, <2>7 DEF DraftsInv, DraftsTyped, Dates
<1>6. history.confirms \in Nat /\ history.ended = "no" /\ \A i \in Items : Copies(i) <= history.confirms
  BY <1>2 DEF DraftsInv, DraftsTyped, Stages, Rowed
<1>7. \A i \in Items : Copies(i) \in Nat BY CopiesAreNatural DEF DraftsInv, DraftsTyped
<1>8. Stages' BY <1>2, <1>4, <1>6 DEF DraftsInv, Stages
<1>9. Rowed' BY <1>1, <1>2, <1>6, <1>7 DEF Rowed
<1>10. DraftsLandOnce' BY <1>1, <1>2, <1>6, <1>7 DEF DraftsLandOnce
<1> QED BY <1>5, <1>8, <1>9, <1>10 DEF DraftsInv

\* Creating today's plan while the dialogue is open.
LEMMA CreateTodayKeeps == ASSUME DraftsInv, CreateToday PROVE DraftsInv'
<1> USE DEF CreateToday
<1>1. \A i : Copies(i)' = Copies(i) /\ On(i)' = On(i) BY SameCopies
<1>2. today \in Dates /\ today \in Nat /\ today <= today
  BY TodayIsADate DEF DraftsInv, DraftsTyped
<1>3. CASE session' = [session EXCEPT !.target = today]
  <2>1. session'.pc = session.pc /\ session'.target = today /\ session'.kind = session.kind
        /\ session.pc = "keeping" /\ session'.warned = session.warned
    BY <1>3 DEF DraftsInv, DraftsTyped
  <2>2. DraftsTyped' BY <1>2, <1>3 DEF DraftsInv, DraftsTyped, Dates
  <2>3. Stages' BY <1>2, <2>1 DEF DraftsInv, Stages
  <2>4. Rowed' BY <1>1, <2>1 DEF DraftsInv, Rowed
  <2>5. DraftsLandOnce' BY <1>1, <2>1 DEF DraftsInv, Stages, Rowed, DraftsLandOnce
  <2> QED BY <2>2, <2>3, <2>4, <2>5 DEF DraftsInv
<1>4. CASE To("warned")
  <2>1. UNCHANGED <<rows, today, history>> /\ session.pc = "keeping" /\ session.warned
    BY DEF DraftsInv, Stages
  <2> QED BY <1>4, <2>1, MovesOn
<1> QED BY <1>3, <1>4

\* All that is to be saved is saved, except for one task whose INSERT failed.
LEMMA SavesAllButFailed ==
  ASSUME DraftsInv, NEW S \in SUBSET Items, NEW d, Saves(S, d)
  PROVE  \E T \in SUBSET S :
           /\ rows' = Saved(T, d) /\ S \ T \subseteq history'.failed
           /\ history' = [history EXCEPT !.failed = history'.failed]
           /\ history.failed \subseteq history'.failed /\ history'.failed \subseteq Items
<1>0. history \in [confirms : Nat, failed : SUBSET Items,
                   ended : {"no", "cancelled", "applied", "refused", "split", "lost"}]
  BY DEF DraftsInv, DraftsTyped
<1>1. CASE rows' = Saved(S, d) /\ UNCHANGED <<faults, history>>
  BY <1>0, <1>1, S \in SUBSET S
<1>2. CASE \E i \in S : /\ Fails
                        /\ rows' = Saved(S \ {i}, d)
                        /\ history' = [history EXCEPT !.failed = @ \cup {i}]
  <2>1. PICK i \in S : /\ rows' = Saved(S \ {i}, d)
                       /\ history' = [history EXCEPT !.failed = @ \cup {i}]
    BY <1>2
  <2>2. history'.failed = history.failed \cup {i} BY <1>0, <2>1
  <2>3. S \ {i} \in SUBSET S /\ S \ (S \ {i}) \subseteq {i} OBVIOUS
  <2>4. history' = [history EXCEPT !.failed = history'.failed] BY <1>0, <2>1, <2>2
  <2>5. history'.failed \subseteq Items BY <1>0, <2>2
  <2> QED BY <2>1, <2>2, <2>3, <2>4, <2>5
<1> QED BY <1>1, <1>2 DEF Saves

\* The split: what stays today.
LEMMA KeepTodayKeeps == ASSUME DraftsInv, KeepToday PROVE DraftsInv'
<1>1. /\ session.pc = "keeping" /\ session.target # NoPlan /\ To("deferring")
      /\ Saves(session.kept, session.target) /\ UNCHANGED today
  BY DEF KeepToday
<1>2. /\ session.kept \in SUBSET Items /\ session.target \in Dates /\ history.confirms \in Nat
      /\ history.confirms > 0 /\ history.ended = "no"
  BY <1>1 DEF DraftsInv, DraftsTyped, Stages
<1>3. PICK T \in SUBSET session.kept :
           /\ rows' = Saved(T, session.target) /\ session.kept \ T \subseteq history'.failed
           /\ history' = [history EXCEPT !.failed = history'.failed]
           /\ history.failed \subseteq history'.failed /\ history'.failed \subseteq Items
  BY <1>1, <1>2, SavesAllButFailed
<1>4. /\ rows' \in [Items -> [Dates -> Nat]]
      /\ \A i \in Items, e \in Dates : rows'[i][e] =
           IF i \in T /\ e = session.target THEN rows[i][e] + 1 ELSE rows[i][e]
      /\ \A i \in Items : Copies(i)' = IF i \in T THEN Copies(i) + 1 ELSE Copies(i)
  BY <1>2, <1>3, SavedRows DEF DraftsInv, DraftsTyped
<1>5. /\ session'.pc = "deferring" /\ session'.target = session.target
      /\ session'.kept = session.kept /\ session'.kind = session.kind
      /\ session'.warned = session.warned
      /\ Deferred' = Deferred /\ Deferred = Items \ session.kept
      /\ history'.confirms = history.confirms /\ history'.ended = "no"
  BY <1>1, <1>2, <1>3 DEF To, DraftsInv, DraftsTyped, Deferred
<1>6. DraftsTyped' BY <1>1, <1>3, <1>4 DEF To, DraftsInv, DraftsTyped, Dates
<1>7. \A i \in Items : Copies(i) \in Nat /\ Copies(i) < history.confirms
  BY <1>1, CopiesAreNatural DEF DraftsInv, DraftsTyped, Rowed
<1>8. Stages' BY <1>1, <1>2, <1>5 DEF DraftsInv, Stages
<1>9. \A i \in Items : Copies(i)' <= history.confirms BY <1>2, <1>4, <1>7
<1>10. Rowed'
  <2>1. \A i \in Deferred : Copies(i)' < history.confirms
    BY <1>4, <1>5, <1>7
  <2>2. \A i \in session.kept \ history'.failed : Copies(i)' >= 1
    BY <1>2, <1>3, <1>4, <1>7
  <2>3. ASSUME history.confirms = 1, NEW i \in Items, NEW d \in Dates, rows'[i][d] > 0
        PROVE  i \in session.kept /\ d = session.target
    <3>1. Copies(i) = 0 BY <1>7, <2>3
    <3>2. rows[i][d] = 0 BY <3>1, NoCopies DEF DraftsInv, DraftsTyped
    <3> QED BY <1>4, <2>3, <3>2
  <2> QED BY <1>5, <1>9, <2>1, <2>2, <2>3 DEF Rowed
<1>11. DraftsLandOnce' BY <1>5, <1>9 DEF DraftsLandOnce
<1> QED BY <1>6, <1>8, <1>10, <1>11 DEF DraftsInv

\* The split: what goes to the day after.
LEMMA DeferRestKeeps == ASSUME DraftsInv, DeferRest PROVE DraftsInv'
<1>1. session.pc = "deferring" /\ UNCHANGED today BY DEF DeferRest
<1>2. CASE Saves(Deferred, today + 1) /\ To("closing")
  <2>1. /\ Deferred \in SUBSET Items /\ Deferred = Items \ session.kept
        /\ session.kept \in SUBSET Items
        /\ session.target \in Dates /\ session.target \in Nat /\ session.target <= today
        /\ history.confirms \in Nat /\ history.confirms > 0 /\ history.ended = "no"
    BY <1>1, DatesAreFinite DEF DraftsInv, DraftsTyped, Stages, Deferred
  <2>2. PICK T \in SUBSET Deferred :
             /\ rows' = Saved(T, today + 1) /\ Deferred \ T \subseteq history'.failed
             /\ history' = [history EXCEPT !.failed = history'.failed]
             /\ history.failed \subseteq history'.failed /\ history'.failed \subseteq Items
    <3>1. PICK S : S = Deferred OBVIOUS
    <3>2. S \in SUBSET Items /\ Saves(S, today + 1) BY <1>2, <2>1, <3>1
    <3> QED BY <3>1, <3>2, SavesAllButFailed
  <2>3. today + 1 \in Dates /\ today \in Nat BY TodayIsADate DEF DraftsInv, DraftsTyped
  <2>4. /\ rows' \in [Items -> [Dates -> Nat]]
        /\ \A i \in Items, e \in Dates :
             rows'[i][e] = IF i \in T /\ e = today + 1 THEN rows[i][e] + 1 ELSE rows[i][e]
        /\ \A i \in Items : Copies(i)' = IF i \in T THEN Copies(i) + 1 ELSE Copies(i)
    BY <2>2, <2>3, SavedRows DEF DraftsInv, DraftsTyped
  <2>5. /\ session'.pc = "closing" /\ session'.target = session.target
        /\ session'.kept = session.kept /\ session'.kind = session.kind
        /\ Deferred' = Deferred
        /\ history'.confirms = history.confirms /\ history'.ended = "no"
    BY <1>2, <2>1, <2>2 DEF To, DraftsInv, DraftsTyped, Deferred
  <2>6. DraftsTyped' BY <1>1, <1>2, <2>2, <2>4 DEF To, DraftsInv, DraftsTyped, Dates
  <2>7. \A i \in Items : Copies(i) \in Nat BY CopiesAreNatural DEF DraftsInv, DraftsTyped
  <2>8. /\ \A i \in Deferred : Copies(i) < history.confirms
        /\ \A i \in Items : Copies(i) <= history.confirms
        /\ \A i \in session.kept \ history.failed : Copies(i) >= 1
    BY <1>1 DEF DraftsInv, Rowed
  <2>9. Stages' BY <1>1, <2>1, <2>5 DEF DraftsInv, Stages
  <2>10. \A i \in Items : Copies(i)' <= history.confirms BY <2>1, <2>2, <2>4, <2>7, <2>8
  <2>11. Rowed'
    <3>1. ASSUME NEW i \in Items \ history'.failed PROVE Copies(i)' >= 1
      <4>1. CASE i \in session.kept BY <2>2, <2>4, <2>7, <2>8, <4>1
      <4>2. CASE i \notin session.kept
        <5>1. i \in T BY <2>1, <2>2, <4>2
        <5> QED BY <2>4, <2>7, <5>1
      <4> QED BY <4>1, <4>2
    <3>2. ASSUME history.confirms = 1, NEW i \in session.kept, NEW j \in Deferred,
                 NEW d \in Dates, NEW e \in Dates, rows'[i][d] > 0, rows'[j][e] > 0
          PROVE  d < e
      <4>0. i \in Items /\ j \in Items /\ j \notin session.kept /\ i \notin T BY <2>1, <2>2
      <4>1. \A k \in Items, c \in Dates : rows[k][c] > 0 => k \in session.kept /\ c = session.target
        BY <1>1, <3>2 DEF DraftsInv, Rowed
      <4>2. d = session.target BY <2>4, <3>2, <4>0, <4>1
      <4>3. e = today + 1 BY <2>4, <3>2, <4>0, <4>1
      <4> QED BY <2>1, <2>3, <4>2, <4>3
    <3> QED BY <2>5, <2>10, <3>1, <3>2 DEF Rowed
  <2>12. DraftsLandOnce' BY <2>5, <2>10 DEF DraftsLandOnce
  <2> QED BY <2>6, <2>9, <2>11, <2>12 DEF DraftsInv
<1>3. CASE To("warned") /\ UNCHANGED <<rows, history>>
  <2>1. UNCHANGED <<rows, today, history>> /\ session.warned
    BY <1>1, <1>3 DEF DraftsInv, Stages
  <2> QED BY <1>1, <1>3, <2>1, MovesOn
<1> QED BY <1>2, <1>3 DEF DeferRest

\* Closing the dialogue.
LEMMA CloseKeeps == ASSUME DraftsInv, Close PROVE DraftsInv'
<1> USE DEF Close, Ended
<1>1. \A i : Copies(i)' = Copies(i) /\ On(i)' = On(i) BY SameCopies
<1>2. /\ session.pc = "closing" /\ session'.pc = "closed" /\ history'.ended = "split"
      /\ session'.kind = session.kind /\ history'.confirms = history.confirms
      /\ history'.failed = history.failed /\ session'.target = session.target
      /\ session'.kept = session.kept /\ Deferred' = Deferred
  BY DEF DraftsInv, DraftsTyped, Deferred
<1>3. DraftsTyped' BY DEF DraftsInv, DraftsTyped, Dates
<1>4. Stages' BY <1>2 DEF DraftsInv, Stages
<1>5. Rowed' BY <1>2 DEF Rowed
<1>6. DraftsLandOnce'
  <2>1. /\ \A i \in Items : Copies(i)' <= history'.confirms
        /\ \A i \in Items \ history'.failed : Copies(i)' >= 1
    BY <1>1, <1>2 DEF DraftsInv, Rowed
  <2>2. history'.confirms = 1 => \A i \in session'.kept, j \in Deferred', d, e \in Dates :
           rows'[i][d] > 0 /\ rows'[j][e] > 0 => d < e
    BY <1>2 DEF DraftsInv, Rowed
  <2> QED BY <1>2, <2>1, <2>2 DEF DraftsLandOnce
<1> QED BY <1>3, <1>4, <1>5, <1>6 DEF DraftsInv

\* Every step of the page keeps the invariant.
LEMMA DraftsStep == ASSUME DraftsInv, [DraftsNext]_draftVars PROVE DraftsInv'
<1>0. today \in 0 .. LastDate /\ today \in Nat /\ today \in today .. LastDate
  BY TodayIsADate DEF DraftsInv, DraftsTyped
<1>1. ASSUME NEW kind \in {"ai", "manual"}, Ask(kind) PROVE DraftsInv'
  BY <1>1, AskKeeps
<1>2. CASE Cancel
  <2>1. session.pc # "closed" /\ UNCHANGED <<rows, today>> /\ Ended("cancelled")
    BY <1>2 DEF Cancel, Warned
  <2> QED BY <2>1, EndsWithout
<1>3. CASE Proceed
  <2>1. /\ session.pc = "warned" /\ UNCHANGED <<rows, today, history>>
        /\ To(IF session.kind = "ai" THEN "applying" ELSE "adding")
    BY <1>3 DEF Proceed, Warned
  <2>2. CASE session.kind = "ai"
    <3>1. To("applying") BY <2>1, <2>2
    <3>2. session.warned BY <2>1 DEF DraftsInv, Stages
    <3> QED BY <2>1, <2>2, <3>1, <3>2, MovesOn
  <2>3. CASE session.kind # "ai"
    <3>1. To("adding") BY <2>1, <2>3
    <3>2. history.confirms = 0 BY <2>1, <2>3 DEF DraftsInv, Stages, DraftsTyped
    <3> QED BY <2>1, <3>1, <3>2, MovesOn
  <2> QED BY <2>2, <2>3
<1>4. CASE RenderAgain
  <2>1. /\ session.pc = "warned" /\ UNCHANGED <<rows, today, history>> /\ To("adding")
        /\ session.kind = "manual"
    BY <1>4 DEF RenderAgain, Warned
  <2>2. history.confirms = 0 BY <2>1 DEF DraftsInv, Stages
  <2> QED BY <2>1, <2>2, MovesOn
<1>5. CASE ApplyDraft BY <1>5, ApplyDraftKeeps
<1>6. CASE AddManual BY <1>6, AddManualKeeps
<1>7. ASSUME NEW flips \in SUBSET (Items \ FixedItems), Confirm(flips) PROVE DraftsInv'
  BY <1>7, ConfirmKeeps
<1>8. CASE CreateToday BY <1>8, CreateTodayKeeps
<1>9. CASE KeepToday BY <1>9, KeepTodayKeeps
<1>10. CASE DeferRest BY <1>10, DeferRestKeeps
<1>11. CASE Close BY <1>11, CloseKeeps
<1>12. CASE FreeRoom
  <2>1. UNCHANGED <<rows, session, history>> /\ today' = today BY <1>12 DEF FreeRoom
  <2> QED BY <1>0, <2>1, AroundTheSession
<1>13. CASE PlanElsewhere
  <2>1. UNCHANGED <<rows, session, history>> /\ today' = today BY <1>13 DEF PlanElsewhere
  <2> QED BY <1>0, <2>1, AroundTheSession
<1>14. CASE Midnight
  <2>1. UNCHANGED <<rows, session, history>> BY <1>14 DEF Midnight
  <2>2. today' \in today .. LastDate BY <1>0, <1>14, DraftsAssumption DEF Midnight
  <2> QED BY <2>1, <2>2, AroundTheSession
<1>15. CASE LoseSession
  <2>1. session.pc # "closed" /\ UNCHANGED <<rows, today>> /\ Ended("lost")
    BY <1>15 DEF LoseSession
  <2> QED BY <2>1, EndsWithout
<1>16. CASE UNCHANGED draftVars
  <2>1. UNCHANGED <<rows, session, history>> /\ today' = today BY <1>16 DEF draftVars
  <2> QED BY <1>0, <2>1, AroundTheSession
<1> QED
  BY <1>1, <1>2, <1>3, <1>4, <1>5, <1>6, <1>7, <1>8, <1>9, <1>10, <1>11, <1>12, <1>13,
     <1>14, <1>15, <1>16 DEF DraftsNext

\* A drafted task gets a row for each confirmation at most, exactly one when the
\* draft is applied, none when it is refused, and a split leaves out no task
\* whose own INSERT did not fail and puts what it defers on a later day: in
\* whatever order the page is rendered, midnight comes, INSERTs fail, plans are
\* created elsewhere (save_draft_tasks_to_plan, defer_draft_tasks_to_tomorrow).
THEOREM DraftedTasksLandOnce == DraftsSpec => []DraftsLandOnce
<1>1. DraftsInit => DraftsInv BY DraftsBegin
<1>2. DraftsInv /\ [DraftsNext]_draftVars => DraftsInv' BY DraftsStep
<1>3. DraftsInv => DraftsLandOnce BY DEF DraftsInv
<1> QED BY <1>1, <1>2, <1>3, PTL DEF DraftsSpec

-----------------------------------------------------------------------------
(* The allocator: SmartAllocation *)

\* The allocator: what its state is made of.
FlexOf == {t \in DOMAIN queue : ~Fixed(t)}
Fixture == walls \cup {spec[t].fixed : t \in {u \in DOMAIN queue : Fixed(u)}}
TakenBy(but) == Fixture \cup UNION {ToSet(segments[t]) : t \in FlexOf \ {but}}

WorkTyped ==
  /\ work \in [pc: {"rest", "next", "placing"}, pending: SUBSET FlexOf, primary: Nat, remaining: Nat,
               tentative: Seq(DayIntervals), cursor: Nat, preferred: Nat]
  /\ work.pc = "placing" => Primary \in work.pending

AllocTyped ==
  /\ spec \in [Ids -> Task]
  /\ DOMAIN queue \subseteq Ids /\ queue \in [DOMAIN queue -> Nat]
  /\ walls \subseteq DayIntervals /\ dayStart \in Nat
  /\ segments \in [Ids -> Seq(DayIntervals)]
  /\ WorkTyped

LEMMA DayIntervalTyped ==
  ASSUME NEW i \in DayIntervals
  PROVE  /\ i \in Nat \X Nat /\ i[1] \in Nat /\ i[2] \in Nat /\ i[1] < i[2] /\ i[2] <= DayEnd
         /\ DayEnd \in Nat
  BY AllocationAssumption DEF DayIntervals

LEMMA IsDayInterval ==
  ASSUME NEW a \in Nat, NEW e \in Nat, a < e, e <= DayEnd
  PROVE  <<a, e>> \in DayIntervals
  BY AllocationAssumption DEF DayIntervals

LEMMA DayProper ==
  ASSUME NEW I, I \subseteq DayIntervals
  PROVE  Proper(I)
<1>1. \A i \in I : i \in Nat \X Nat /\ i[1] < i[2] /\ i[2] <= DayEnd BY DayIntervalTyped
<1>2. DayEnd \in Nat BY AllocationAssumption
<1> QED BY <1>1, <1>2 DEF Proper

\* _merge stays inside the day.
LEMMA MergedOfDay ==
  ASSUME NEW I, I \subseteq DayIntervals
  PROVE  /\ Merged(I) \subseteq DayIntervals
         /\ \A i \in I : \E b \in Merged(I) : b[1] <= i[1] /\ i[2] <= b[2]
<1>1. Proper(I) BY DayProper
<1>2. ASSUME NEW b \in Merged(I) PROVE b \in DayIntervals
  <2>1. b \in Nat \X Nat /\ b[1] < b[2] BY <1>1, MergedProper DEF Proper
  <2>2. PICK i \in I : i[2] = b[2] BY <1>1, MergedProper
  <2>3. b[2] <= DayEnd BY <2>2, DayIntervalTyped
  <2>4. b = <<b[1], b[2]>> /\ b[1] \in Nat /\ b[2] \in Nat BY <2>1
  <2> QED BY <2>1, <2>3, <2>4, IsDayInterval
<1>3. \A i \in I : \E b \in Merged(I) : b[1] <= i[1] /\ i[2] <= b[2] BY <1>1, MergedCovers
<1> QED BY <1>2, <1>3

\* What is fixed in a day is walls and Fixed rows.
LEMMA FixtureOfDay ==
  ASSUME AllocTyped
  PROVE  Fixture \subseteq DayIntervals
<1>1. ASSUME NEW t \in DOMAIN queue, Fixed(t) PROVE spec[t].fixed \in DayIntervals
  <2>1. spec[t] \in Task /\ spec[t].fixed # <<>> BY <1>1 DEF AllocTyped, Fixed
  <2> QED BY <2>1 DEF Task
<1> QED BY <1>1 DEF Fixture, AllocTyped

\* What a pass takes as occupied covers everything that is taken.
LEMMA OccupiedCovers ==
  ASSUME AllocTyped
  PROVE  /\ Occupied \subseteq DayIntervals
         /\ \A o \in TakenBy(Primary) \cup ToSet(work.tentative) :
              \E b \in Occupied : b[1] <= o[1] /\ o[2] <= b[2]
         /\ TakenBy(Primary) \cup ToSet(work.tentative) \subseteq DayIntervals
<1>1. Fixture \subseteq DayIntervals BY FixtureOfDay
<1>2. Permanent = Merged(Fixture) BY Zenon DEF Permanent, Fixture
<1>3. PICK theirs : theirs = UNION {ToSet(segments[t]) : t \in FlexOf \ {Primary}} OBVIOUS
<1>4. {u \in DOMAIN queue \ {Primary} : ~Fixed(u)} = FlexOf \ {Primary} BY DEF FlexOf
<1>5. Taken(Primary) = Permanent \cup theirs BY <1>3, <1>4, Zenon DEF Taken
<1>6. theirs \subseteq DayIntervals
  <2>1. ASSUME NEW t \in FlexOf PROVE ToSet(segments[t]) \subseteq DayIntervals
    <3>1. t \in Ids BY DEF AllocTyped, FlexOf
    <3>2. segments[t] \in Seq(DayIntervals) BY <3>1 DEF AllocTyped
    <3> QED BY <3>2 DEF ToSet
  <2> QED BY <1>3, <2>1
<1>7. ToSet(work.tentative) \subseteq DayIntervals
  <2>1. work.tentative \in Seq(DayIntervals) BY DEF AllocTyped, WorkTyped
  <2> QED BY <2>1 DEF ToSet
<1>8. PICK I : I = Taken(Primary) \cup ToSet(work.tentative) OBVIOUS
<1>9. Permanent \subseteq DayIntervals /\ \A i \in Fixture : \E b \in Permanent : b[1] <= i[1] /\ i[2] <= b[2]
  BY <1>1, <1>2, MergedOfDay
<1>10. I \subseteq DayIntervals BY <1>5, <1>6, <1>7, <1>8, <1>9
<1>11. Occupied = Merged(I) BY <1>8, Zenon DEF Occupied
<1>12. Occupied \subseteq DayIntervals /\ \A i \in I : \E b \in Occupied : b[1] <= i[1] /\ i[2] <= b[2]
  BY <1>10, <1>11, MergedOfDay
<1>13. ASSUME NEW o \in TakenBy(Primary) \cup ToSet(work.tentative)
       PROVE  o \in DayIntervals /\ \E b \in Occupied : b[1] <= o[1] /\ o[2] <= b[2]
  <2>1. CASE o \in Fixture
    <3>1. PICK p \in Permanent : p[1] <= o[1] /\ o[2] <= p[2] BY <1>9, <2>1
    <3>2. p \in I BY <1>5, <1>8
    <3>3. PICK b \in Occupied : b[1] <= p[1] /\ p[2] <= b[2] BY <1>12, <3>2
    <3>4. o \in DayIntervals /\ p \in DayIntervals /\ b \in DayIntervals BY <1>1, <1>9, <1>12, <2>1
    <3>5. /\ o[1] \in Nat /\ o[2] \in Nat /\ p[1] \in Nat /\ p[2] \in Nat /\ b[1] \in Nat /\ b[2] \in Nat
      BY <3>4, DayIntervalTyped
    <3>6. b[1] <= o[1] /\ o[2] <= b[2] BY <3>1, <3>3, <3>5
    <3> QED BY <3>4, <3>6
  <2>2. CASE o \in theirs \cup ToSet(work.tentative)
    <3>1. o \in I BY <1>5, <1>8, <2>2
    <3> QED BY <1>10, <1>12, <3>1
  <2> QED BY <1>3, <2>1, <2>2 DEF TakenBy
<1> QED BY <1>12, <1>13

Inside(at, blocks) == {i \in blocks : i[1] <= at /\ at < i[2]}

\* _next_free does not go back.
LEMMA AtIs ==
  ASSUME AllocTyped
  PROVE  At \in Nat /\ work.cursor \in Nat /\ work.cursor <= At /\ work.remaining \in Nat
<1>1. work.cursor \in Nat /\ work.remaining \in Nat BY DEF AllocTyped, WorkTyped
<1>2. PICK inside : inside = Inside(work.cursor, Occupied) OBVIOUS
<1>3. At = IF inside = {} THEN work.cursor ELSE (CHOOSE i \in inside : TRUE)[2]
  <2>1. NextFree(work.cursor, Occupied)
          = IF Inside(work.cursor, Occupied) = {} THEN work.cursor
            ELSE (CHOOSE i \in Inside(work.cursor, Occupied) : TRUE)[2]
    BY DEF NextFree, Inside
  <2> QED BY <1>2, <2>1, Zenon DEF At
<1>4. CASE inside = {} BY <1>1, <1>3, <1>4
<1>5. CASE inside # {}
  <2>1. PICK i : i = CHOOSE j \in inside : TRUE OBVIOUS
  <2>2. i \in inside BY <1>5, <2>1
  <2>3. i \in Occupied /\ work.cursor < i[2] BY <1>2, <2>2 DEF Inside
  <2>4. i[2] \in Nat BY <2>3, OccupiedCovers, DayIntervalTyped
  <2>5. At = i[2] BY <1>3, <1>5, <2>1
  <2> QED BY <1>1, <2>3, <2>4, <2>5
<1> QED BY <1>4, <1>5

\* Between times where no block stands, nothing that is taken is met.
LEMMA FreeStretch ==
  ASSUME AllocTyped, NEW x \in Nat, NEW y \in Nat, \A b \in Occupied : ~ (x < b[2] /\ b[1] < y),
         NEW i \in DayIntervals, x <= i[1], i[2] <= y,
         NEW o \in TakenBy(Primary) \cup ToSet(work.tentative)
  PROVE  ~Meet(i, o) /\ ~Meet(o, i)
<1>1. PICK b \in Occupied : b[1] <= o[1] /\ o[2] <= b[2] BY OccupiedCovers
<1>2. o \in DayIntervals /\ b \in DayIntervals BY OccupiedCovers
<1>3. /\ o[1] \in Nat /\ o[2] \in Nat /\ b[1] \in Nat /\ b[2] \in Nat /\ i[1] \in Nat /\ i[2] \in Nat
  BY <1>2, DayIntervalTyped
<1>4. ~ (x < b[2] /\ b[1] < y) OBVIOUS
<1> QED BY <1>1, <1>3, <1>4 DEF Meet

\* The block ahead, and the free stretch before it.
LEMMA BlockIs ==
  ASSUME AllocTyped, Facing
  PROVE  /\ Block \in DayIntervals /\ Block[1] \in Nat /\ Block[2] \in Nat
         /\ At < Block[2] /\ Block[1] < At + work.remaining /\ Block[1] < Block[2] /\ Block[2] <= DayEnd
         /\ \A b \in Occupied : ~ (At < b[2] /\ b[1] < Block[1])
<1>1. Blocks # {} BY DEF Facing
<1>2. PICK a \in Nat, r \in Nat : a = At /\ r = work.remaining BY AtIs
<1>3. \A i \in Blocks : i \in Occupied /\ a < i[2] /\ i[1] < a + r
  BY <1>2 DEF Blocks, Overlaps, Meet
<1>4. \A i \in Occupied : i \in DayIntervals /\ i[1] \in Nat /\ i[2] \in Nat BY OccupiedCovers, DayIntervalTyped
<1>5. PICK T : T = {i[1] : i \in Blocks} OBVIOUS
<1>6. T \subseteq Nat /\ T # {} BY <1>1, <1>3, <1>4, <1>5
<1>7. PICK m \in T : \A k \in T : m <= k BY <1>6, LeastMember
<1>8. PICK i \in Blocks : i[1] = m BY <1>5, <1>7
<1>9. \A j \in Blocks : i[1] <= j[1] BY <1>5, <1>7, <1>8
<1>10. Block = CHOOSE j \in Blocks : \A k \in Blocks : j[1] <= k[1] BY Zenon DEF Block, First
<1>11. Block \in Blocks /\ \A k \in Blocks : Block[1] <= k[1] BY <1>9, <1>10, Zenon
<1>12. /\ Block \in DayIntervals /\ Block[1] \in Nat /\ Block[2] \in Nat /\ Block[1] < Block[2]
       /\ Block[2] <= DayEnd
  BY <1>3, <1>4, <1>11, DayIntervalTyped
<1>13. ASSUME NEW b \in Occupied, At < b[2], b[1] < Block[1] PROVE FALSE
  <2>1. b[1] < a + r BY <1>2, <1>3, <1>4, <1>11, <1>12, <1>13
  <2>2. b \in Blocks BY <1>2, <1>4, <1>13, <2>1 DEF Blocks, Overlaps, Meet
  <2> QED BY <1>4, <1>11, <1>12, <1>13, <2>2
<1> QED BY <1>2, <1>3, <1>11, <1>12, <1>13

\* Sessions in the order of time, and the minutes of at most three of them.
InRow(c) ==
  /\ c \in Seq(DayIntervals) /\ Len(c) <= MaxSegments
  /\ Len(c) >= 2 => c[1][2] <= c[2][1]
  /\ Len(c) >= 3 => c[2][2] <= c[3][1]

TotalOf(c) ==
  CASE Len(c) = 0 -> 0
    [] Len(c) = 1 -> Length(c[1])
    [] Len(c) = 2 -> Length(c[1]) + Length(c[2])
    [] Len(c) = 3 -> Length(c[1]) + Length(c[2]) + Length(c[3])

\* The allocator's books: Fixed tasks stand where they are, a task has none or
\* all of its minutes, and what it has meets nothing else.
Placed(t) ==
  /\ InRow(segments[t]) /\ TotalOf(segments[t]) = spec[t].minutes
  /\ \A i \in ToSet(segments[t]) :
       dayStart <= i[1] /\ (Length(i) >= MinSegment \/ spec[t].minutes < MinSegment)

FixedStand == \A t \in DOMAIN queue : Fixed(t) => segments[t] = <<spec[t].fixed>>
OthersHaveNone == \A t \in Ids : t \notin DOMAIN queue \/ t \in work.pending => segments[t] = <<>>
WholeTasks == \A t \in FlexOf : segments[t] # <<>> => Placed(t)
Apart == \A t \in FlexOf : \A i \in ToSet(segments[t]), o \in TakenBy(t) : ~Meet(i, o)

\* The task under way has sessions behind the cursor, and minutes left.
Partly ==
  /\ InRow(work.tentative) /\ Len(work.tentative) <= 2
  /\ TotalOf(work.tentative) + work.remaining = spec[Primary].minutes /\ work.remaining >= 1
  /\ dayStart <= work.cursor
  /\ \A i \in ToSet(work.tentative) :
       /\ dayStart <= i[1] /\ i[2] <= work.cursor /\ Length(i) >= MinSegment
       /\ \A o \in TakenBy(Primary) : ~Meet(i, o)

AllocBooks ==
  /\ FixedStand /\ OthersHaveNone /\ WholeTasks /\ Apart
  /\ work.pc = "placing" => Partly

AllocInv == AllocTyped /\ AllocBooks

\* A step that leaves the inputs alone leaves what follows from them alone.
LEMMA SameInputs ==
  ASSUME UNCHANGED <<spec, queue, walls, dayStart>>
  PROVE  /\ spec' = spec /\ queue' = queue /\ walls' = walls /\ dayStart' = dayStart
         /\ FlexOf' = FlexOf /\ Fixture' = Fixture /\ \A t : Fixed(t)' = Fixed(t)
<1>1. spec' = spec /\ queue' = queue /\ walls' = walls /\ dayStart' = dayStart OBVIOUS
<1>2. \A t : Fixed(t)' = Fixed(t) BY <1>1, Zenon DEF Fixed
<1>3. FlexOf' = FlexOf BY <1>1, <1>2, Zenon DEF FlexOf
<1>4. Fixture' = Fixture BY <1>1, <1>2, Zenon DEF Fixture
<1> QED BY <1>1, <1>2, <1>3, <1>4

LEMMA PrimaryIs ==
  ASSUME AllocInv, work.pc = "placing"
  PROVE  /\ Primary \in work.pending /\ Primary \in FlexOf /\ Primary \in Ids /\ Primary \in DOMAIN queue
         /\ segments[Primary] = <<>> /\ spec[Primary] \in Task /\ Partly
<1>1. Primary \in work.pending /\ work.pending \subseteq FlexOf
  BY DEF AllocInv, AllocTyped, WorkTyped
<1>2. Primary \in FlexOf /\ Primary \in Ids /\ Primary \in DOMAIN queue
  BY <1>1 DEF AllocInv, AllocTyped, FlexOf
<1>3. segments[Primary] = <<>> BY <1>1, <1>2 DEF AllocInv, AllocBooks, OthersHaveNone
<1>4. spec[Primary] \in Task BY <1>2 DEF AllocInv, AllocTyped
<1> QED BY <1>1, <1>2, <1>3, <1>4 DEF AllocInv, AllocBooks

\* Tasks that get their places beside what is taken stay apart.
LEMMA StaysApart ==
  ASSUME AllocInv, work.pc = "placing", UNCHANGED <<spec, queue, walls, dayStart>>,
         NEW P, P \subseteq work.pending,
         \A t \in FlexOf \ P : segments'[t] = segments[t],
         \A t \in P : \A i \in ToSet(segments'[t]), o \in TakenBy(Primary) : ~Meet(i, o) /\ ~Meet(o, i),
         \A t \in P, u \in P : t # u => \A i \in ToSet(segments'[t]), j \in ToSet(segments'[u]) : ~Meet(i, j)
  PROVE  Apart'
<1>1. FlexOf' = FlexOf /\ Fixture' = Fixture BY SameInputs
<1>2. \A t \in work.pending : segments[t] = <<>>
  BY DEF AllocInv, AllocBooks, OthersHaveNone, AllocTyped, WorkTyped, FlexOf
<1>3. ASSUME NEW t \in FlexOf, NEW i \in ToSet(segments[t]) PROVE t # Primary /\ i \in TakenBy(Primary)
  <2>1. t # Primary
    <3>1. segments[t] # <<>> BY <1>3 DEF ToSet
    <3> QED BY <1>2, <3>1, PrimaryIs
  <2> QED BY <1>3, <2>1 DEF TakenBy
<1>4. ASSUME NEW t \in FlexOf, NEW i \in ToSet(segments'[t]), NEW o \in Fixture PROVE ~Meet(i, o)
  <2>1. o \in TakenBy(Primary) /\ o \in TakenBy(t) BY DEF TakenBy
  <2>2. CASE t \in P BY <2>1, <2>2
  <2>3. CASE t \notin P
    <3>1. i \in ToSet(segments[t]) BY <2>3
    <3> QED BY <2>1, <3>1 DEF AllocInv, AllocBooks, Apart
  <2> QED BY <2>2, <2>3
<1>5. ASSUME NEW t \in FlexOf, NEW u \in FlexOf, t # u,
             NEW i \in ToSet(segments'[t]), NEW j \in ToSet(segments'[u])
      PROVE  ~Meet(i, j)
  <2>1. CASE t \in P /\ u \in P BY <1>5, <2>1
  <2>2. CASE t \in P /\ u \notin P
    <3>1. j \in ToSet(segments[u]) BY <2>2
    <3>2. j \in TakenBy(Primary) BY <1>3, <3>1
    <3> QED BY <2>2, <3>2
  <2>3. CASE t \notin P /\ u \in P
    <3>1. i \in ToSet(segments[t]) BY <2>3
    <3>2. i \in TakenBy(Primary) BY <1>3, <3>1
    <3> QED BY <2>3, <3>2
  <2>4. CASE t \notin P /\ u \notin P
    <3>1. i \in ToSet(segments[t]) /\ j \in ToSet(segments[u]) BY <2>4
    <3>2. j \in TakenBy(t) BY <1>5, <3>1 DEF TakenBy
    <3> QED BY <3>1, <3>2 DEF AllocInv, AllocBooks, Apart
  <2> QED BY <2>1, <2>2, <2>3, <2>4
<1>6. \A t \in FlexOf : \A i \in ToSet(segments'[t]) :
        \A o \in Fixture \cup UNION {ToSet(segments'[u]) : u \in FlexOf \ {t}} : ~Meet(i, o)
  BY <1>4, <1>5
<1> QED BY <1>1, <1>6, Zenon DEF Apart, TakenBy, ToSet, Meet

\* Of the tasks that fit a gap one comes first.
LEMMA BestFiller ==
  ASSUME AllocTyped, NEW T, T \subseteq FlexOf, T # {}, NEW room \in Nat, \A t \in T : spec[t].minutes <= room
  PROVE  Best(T) \in T
<1>1. \A t \in T : /\ t \in Ids /\ spec[t].priority \in Nat /\ spec[t].minutes \in Nat /\ queue[t] \in Nat
  <2> TAKE t \in T
  <2>1. t \in Ids /\ t \in DOMAIN queue BY DEF FlexOf, AllocTyped
  <2>2. spec[t] \in Task /\ queue[t] \in Nat BY <2>1 DEF AllocTyped
  <2> QED BY <2>1, <2>2 DEF Task
<1>2. PICK p : p \in {spec[t].priority : t \in T} /\ \A q \in {spec[t].priority : t \in T} : p <= q
  <2>1. PICK X : X = {spec[t].priority : t \in T} OBVIOUS
  <2>2. X \subseteq Nat /\ X # {} BY <1>1, <2>1
  <2>3. PICK p \in X : \A q \in X : p <= q BY <2>2, LeastMember
  <2> QED BY <2>1, <2>3
<1>3. PICK T1 : T1 = {t \in T : spec[t].priority = p} OBVIOUS
<1>4. T1 # {} BY <1>2, <1>3
<1>5. PICK m : m \in {spec[t].minutes : t \in T1} /\ \A q \in {spec[t].minutes : t \in T1} : q <= m
  <2>1. PICK X : X = {spec[t].minutes : t \in T1} OBVIOUS
  <2>2. X \subseteq Nat /\ X # {} /\ \A k \in X : k <= room BY <1>1, <1>3, <1>4, <2>1
  <2>3. Max(X) \in X /\ \A k \in X : k <= Max(X) BY <2>2, MaxIsGreatest
  <2> QED BY <2>1, <2>3
<1>6. PICK T2 : T2 = {t \in T1 : spec[t].minutes = m} OBVIOUS
<1>7. T2 # {} BY <1>5, <1>6
<1>8. PICK n : n \in {queue[t] : t \in T2} /\ \A q \in {queue[t] : t \in T2} : n <= q
  <2>1. PICK X : X = {queue[t] : t \in T2} OBVIOUS
  <2>2. X \subseteq Nat /\ X # {} BY <1>1, <1>3, <1>6, <1>7, <2>1
  <2>3. PICK n \in X : \A q \in X : n <= q BY <2>2, LeastMember
  <2> QED BY <2>1, <2>3
<1>9. PICK f \in T2 : queue[f] = n BY <1>8
<1>10. f \in T /\ spec[f].priority = p /\ spec[f].minutes = m BY <1>3, <1>6, <1>9
<1>11. ASSUME NEW u \in T, Better(u, f) PROVE FALSE
  <2>1. p <= spec[u].priority BY <1>2
  <2>2. spec[u].priority = p BY <1>1, <1>10, <1>11, <2>1 DEF Better
  <2>3. u \in T1 BY <1>3, <2>2
  <2>4. spec[u].minutes <= m BY <1>5, <2>3
  <2>5. spec[u].minutes = m BY <1>1, <1>10, <1>11, <2>2, <2>4 DEF Better
  <2>6. u \in T2 BY <1>6, <2>3, <2>5
  <2>7. queue[f] <= queue[u] BY <1>8, <1>9, <2>6
  <2> QED BY <1>1, <1>10, <1>11, <2>2, <2>5, <2>7 DEF Better
<1>12. \E t \in T : \A u \in T : ~Better(u, t) BY <1>10, <1>11
<1>13. Best(T) = CHOOSE t \in T : \A u \in T : ~Better(u, t) BY Zenon DEF Best
<1> QED BY <1>12, <1>13, Zenon

WorkOf(T) ==
  [pc: {"rest", "next", "placing"}, pending: SUBSET T, primary: Nat, remaining: Nat,
   tentative: Seq(DayIntervals), cursor: Nat, preferred: Nat]

LEMMA WorkIs == ASSUME AllocTyped PROVE work \in WorkOf(FlexOf)
  BY DEF AllocTyped, WorkTyped, WorkOf

LEMMA StillTyped ==
  ASSUME AllocTyped, UNCHANGED <<spec, queue, walls, dayStart>>,
         segments' \in [Ids -> Seq(DayIntervals)], work' \in WorkOf(FlexOf),
         work'.pc = "placing" => work'.primary \in work'.pending
  PROVE  AllocTyped'
<1>1. spec' = spec /\ queue' = queue /\ walls' = walls /\ dayStart' = dayStart /\ FlexOf' = FlexOf
  BY SameInputs
<1>2. WorkTyped' BY <1>1 DEF WorkTyped, WorkOf, Primary
<1>3. spec' \in [Ids -> Task] BY <1>1 DEF AllocTyped
<1>4. DOMAIN queue' \subseteq Ids /\ queue' \in [DOMAIN queue' -> Nat] BY <1>1 DEF AllocTyped
<1>5. walls' \subseteq DayIntervals /\ dayStart' \in Nat BY <1>1 DEF AllocTyped
<1> QED BY <1>2, <1>3, <1>4, <1>5 DEF AllocTyped

\* What the books say of segments that stay as they are.
LEMMA SameSegments ==
  ASSUME UNCHANGED <<spec, queue, walls, dayStart>>, segments' = segments, FixedStand, WholeTasks, Apart
  PROVE  /\ FixedStand' /\ WholeTasks' /\ Apart'
         /\ \A t : TakenBy(t)' = TakenBy(t)
<1>1. /\ spec' = spec /\ queue' = queue /\ walls' = walls /\ dayStart' = dayStart
      /\ FlexOf' = FlexOf /\ Fixture' = Fixture /\ \A t : Fixed(t)' = Fixed(t)
  BY SameInputs
<1>2. \A t : TakenBy(t)' = TakenBy(t) BY <1>1, Zenon DEF TakenBy
<1>3. FixedStand' BY <1>1 DEF FixedStand
<1>4. WholeTasks'
  <2>1. \A t : Placed(t)' = Placed(t) BY <1>1, Zenon DEF Placed
  <2> QED BY <1>1, <2>1 DEF WholeTasks
<1>5. Apart' BY <1>1, <1>2 DEF Apart
<1> QED BY <1>2, <1>3, <1>4, <1>5

\* A pass that only moves the cursor ahead.
LEMMA GoToKeeps ==
  ASSUME AllocInv, work.pc = "placing", NEW time \in Nat, work.cursor < time, GoTo(time)
  PROVE  AllocInv' /\ work'.cursor > work.cursor
<1>1. UNCHANGED <<spec, queue, walls, dayStart>> /\ segments' = segments BY DEF GoTo
<1>2. AllocTyped /\ FixedStand /\ OthersHaveNone /\ WholeTasks /\ Apart /\ Partly
  BY DEF AllocInv, AllocBooks
<1>3. work \in WorkOf(FlexOf) BY <1>2, WorkIs
<1>4. work' = [work EXCEPT !.cursor = time] BY DEF GoTo
<1>5. /\ work' \in WorkOf(FlexOf) /\ work'.pc = work.pc /\ work'.primary = work.primary
      /\ work'.pending = work.pending /\ work'.tentative = work.tentative
      /\ work'.remaining = work.remaining /\ work'.cursor = time
  BY <1>3, <1>4 DEF WorkOf
<1>6. work.primary \in work.pending BY <1>2 DEF AllocTyped, WorkTyped, Primary
<1>7. AllocTyped' BY <1>1, <1>2, <1>5, <1>6, StillTyped DEF AllocTyped
<1>8. /\ FixedStand' /\ WholeTasks' /\ Apart' /\ \A t : TakenBy(t)' = TakenBy(t)
  BY <1>1, <1>2, SameSegments
<1>9. OthersHaveNone' BY <1>1, <1>2, <1>5 DEF OthersHaveNone
<1>10. Partly'
  <2>1. Primary' = Primary /\ TakenBy(Primary)' = TakenBy(Primary) BY <1>5, <1>8 DEF Primary
  <2>2. dayStart' = dayStart /\ spec' = spec BY <1>1
  <2>3. work.cursor \in Nat /\ dayStart \in Nat BY <1>2, <1>3 DEF WorkOf, AllocTyped
  <2>4. ASSUME NEW i \in ToSet(work.tentative)
        PROVE  dayStart <= i[1] /\ i[2] <= time /\ Length(i) >= MinSegment
               /\ \A o \in TakenBy(Primary) : ~Meet(i, o)
    <3>1. i \in DayIntervals
      <4>1. work.tentative \in Seq(DayIntervals) BY <1>3 DEF WorkOf
      <4> QED BY <4>1 DEF ToSet
    <3>2. i[2] \in Nat BY <3>1, DayIntervalTyped
    <3>3. i[2] <= work.cursor BY <1>2 DEF Partly
    <3>4. i[2] <= time BY <2>3, <3>2, <3>3
    <3> QED BY <1>2, <3>4 DEF Partly
  <2>5. dayStart <= time BY <1>2, <2>3 DEF Partly
  <2>6. InRow(work'.tentative) /\ Len(work'.tentative) <= 2 BY <1>2, <1>5 DEF Partly
  <2>7. TotalOf(work'.tentative) + work'.remaining = spec'[Primary'].minutes /\ work'.remaining >= 1
    BY <1>2, <1>5, <2>1, <2>2 DEF Partly
  <2> QED BY <1>5, <2>1, <2>2, <2>4, <2>5, <2>6, <2>7 DEF Partly
<1> QED BY <1>5, <1>7, <1>8, <1>9, <1>10 DEF AllocInv, AllocBooks

\* The first task is done with: the loop begins anew without the tasks placed.
LEMMA NextOf ==
  ASSUME NEW F, NEW P \in SUBSET F
  PROVE  /\ [Rest EXCEPT !.pc = "next", !.pending = P] \in WorkOf(F)
         /\ [Rest EXCEPT !.pc = "next", !.pending = P].pc = "next"
         /\ [Rest EXCEPT !.pc = "next", !.pending = P].pending = P
<1>1. <<>> \in Seq(DayIntervals) OBVIOUS
<1>2. PICK r : r = Rest OBVIOUS
<1>3. r \in WorkOf(F) BY <1>1, <1>2 DEF Rest, WorkOf
<1>4. PICK n : n = [r EXCEPT !.pc = "next", !.pending = P] OBVIOUS
<1>5. n \in WorkOf(F) /\ n.pc = "next" /\ n.pending = P BY <1>3, <1>4 DEF WorkOf
<1> QED BY <1>2, <1>4, <1>5

\* The task leaves without a place.
LEMMA UnplacedKeeps ==
  ASSUME AllocInv, work.pc = "placing", NEW cause, Unplaced(cause)
  PROVE  AllocInv' /\ work'.pc = "next"
<1>1. UNCHANGED <<spec, queue, walls, dayStart>> /\ segments' = segments BY DEF Unplaced
<1>2. AllocTyped /\ FixedStand /\ OthersHaveNone /\ WholeTasks /\ Apart
  BY DEF AllocInv, AllocBooks
<1>3. work \in WorkOf(FlexOf) BY <1>2, WorkIs
<1>4. work' = [Rest EXCEPT !.pc = "next", !.pending = work.pending \ {Primary}] BY DEF Unplaced
<1>5. work' \in WorkOf(FlexOf) /\ work'.pc = "next" /\ work'.pending = work.pending \ {Primary}
  <2>1. work.pending \ {Primary} \subseteq FlexOf BY <1>3 DEF WorkOf
  <2> QED BY <1>4, <2>1, NextOf
<1>6. AllocTyped' BY <1>1, <1>2, <1>5, StillTyped DEF AllocTyped
<1>7. FixedStand' /\ WholeTasks' /\ Apart' BY <1>1, <1>2, SameSegments
<1>8. OthersHaveNone' BY <1>1, <1>2, <1>5 DEF OthersHaveNone
<1> QED BY <1>5, <1>6, <1>7, <1>8 DEF AllocInv, AllocBooks

\* One more session after those a task has.
LEMMA RowGrows ==
  ASSUME NEW c, InRow(c), Len(c) <= 1, NEW i \in DayIntervals, \A j \in ToSet(c) : j[2] <= i[1]
  PROVE  /\ InRow(Append(c, i)) /\ Len(Append(c, i)) <= 2
         /\ TotalOf(Append(c, i)) = TotalOf(c) + Length(i)
         /\ ToSet(Append(c, i)) = ToSet(c) \cup {i}
<1>0. c \in Seq(DayIntervals) BY DEF InRow
<1>1. PICK d : d = Append(c, i) OBVIOUS
<1>2. d \in Seq(DayIntervals) /\ Len(d) = Len(c) + 1 /\ d[Len(c) + 1] = i BY <1>0, <1>1
<1>3. i[1] \in Nat /\ i[2] \in Nat BY DayIntervalTyped
<1>4. Length(i) \in Int BY <1>3 DEF Length
<1>5. Len(c) \in {0, 1} BY <1>0
<1>6. CASE Len(c) = 0
  <2>1. d[1] = i /\ Len(d) = 1 BY <1>2, <1>6
  <2>2. ToSet(c) = {} /\ ToSet(d) = {i}
    <3>1. DOMAIN c = 1 .. 0 /\ DOMAIN d = 1 .. 1 BY <1>0, <1>2, <1>6, <2>1
    <3> QED BY <2>1, <3>1 DEF ToSet
  <2>3. TotalOf(c) = 0 /\ TotalOf(d) = Length(i) BY <1>6, <2>1 DEF TotalOf
  <2>4. InRow(d) BY <1>2, <2>1 DEF InRow, MaxSegments
  <2> QED BY <1>1, <1>4, <2>1, <2>2, <2>3, <2>4
<1>7. CASE Len(c) = 1
  <2>1. d[1] = c[1] /\ d[2] = i /\ Len(d) = 2 BY <1>0, <1>1, <1>2, <1>7
  <2>2. ToSet(c) = {c[1]} /\ ToSet(d) = {c[1], i}
    <3>1. DOMAIN c = {1} /\ DOMAIN d = {1, 2} BY <1>0, <1>2, <1>7, <2>1
    <3> QED BY <2>1, <3>1 DEF ToSet
  <2>3. TotalOf(c) = Length(c[1]) BY <1>7 DEF TotalOf
  <2>4. TotalOf(d) = Length(c[1]) + Length(i) BY <2>1 DEF TotalOf
  <2>5. InRow(d) BY <1>2, <2>1, <2>2 DEF InRow, MaxSegments
  <2>6. ToSet(d) = ToSet(c) \cup {i} BY <2>2
  <2> QED BY <1>1, <2>1, <2>3, <2>4, <2>5, <2>6
<1> QED BY <1>5, <1>6, <1>7

LEMMA TentativeOfDay ==
  ASSUME AllocInv, work.pc = "placing"
  PROVE  /\ work.tentative \in Seq(DayIntervals) /\ ToSet(work.tentative) \subseteq DayIntervals
         /\ \A i \in ToSet(work.tentative) :
              /\ i \in DayIntervals /\ i[1] \in Nat /\ i[2] \in Nat /\ dayStart <= i[1] /\ i[2] <= At
              /\ Length(i) >= MinSegment /\ \A o \in TakenBy(Primary) : ~Meet(i, o)
         /\ dayStart \in Nat /\ dayStart <= At
<1>1. AllocTyped /\ Partly BY DEF AllocInv, AllocBooks
<1>2. work.tentative \in Seq(DayIntervals) /\ dayStart \in Nat BY <1>1 DEF AllocTyped, WorkTyped
<1>3. ToSet(work.tentative) \subseteq DayIntervals BY <1>2 DEF ToSet
<1>4. At \in Nat /\ work.cursor \in Nat /\ work.cursor <= At BY <1>1, AtIs
<1>5. ASSUME NEW i \in ToSet(work.tentative)
      PROVE  /\ i \in DayIntervals /\ i[1] \in Nat /\ i[2] \in Nat /\ dayStart <= i[1] /\ i[2] <= At
             /\ Length(i) >= MinSegment /\ \A o \in TakenBy(Primary) : ~Meet(i, o)
  <2>1. i \in DayIntervals /\ i[1] \in Nat /\ i[2] \in Nat BY <1>3, DayIntervalTyped
  <2>2. /\ dayStart <= i[1] /\ i[2] <= work.cursor /\ Length(i) >= MinSegment
        /\ \A o \in TakenBy(Primary) : ~Meet(i, o)
    BY <1>1 DEF Partly
  <2>3. i[2] <= At BY <1>4, <2>1, <2>2
  <2> QED BY <2>1, <2>2, <2>3
<1>6. dayStart <= At BY <1>1, <1>2, <1>4 DEF Partly
<1> QED BY <1>2, <1>3, <1>5, <1>6

\* A session before the block: the rest is looked for behind it.
LEMMA SplitKeeps ==
  ASSUME AllocInv, Facing, Len(work.tentative) <= 1, NEW amount \in Nat,
         amount >= MinSegment, amount <= Gap, amount < work.remaining, Split(amount)
  PROVE  AllocInv' /\ work'.remaining < work.remaining
<1>1. UNCHANGED <<spec, queue, walls, dayStart>> /\ segments' = segments BY DEF Split
<1>2. AllocTyped /\ FixedStand /\ OthersHaveNone /\ WholeTasks /\ Apart /\ work.pc = "placing" /\ Partly
  BY DEF AllocInv, AllocBooks, Facing, Ahead
<1>3. work \in WorkOf(FlexOf) BY <1>2, WorkIs
<1>4. PICK a \in Nat : a = At BY <1>2, AtIs
<1>5. PICK b \in Nat, e \in Nat : b = Block[1] /\ e = Block[2] /\ b < e /\ e <= DayEnd /\ a < e
  BY <1>2, <1>4, BlockIs
<1>6. DayEnd \in Nat BY AllocationAssumption
<1>7. a + amount <= b BY <1>4, <1>5 DEF Gap
<1>8. PICK i : i = <<a, a + amount>> OBVIOUS
<1>9. i \in DayIntervals /\ i[1] = a /\ i[2] = a + amount /\ Length(i) = amount
  <2>1. amount >= 1 BY DEF MinSegment
  <2>2. a < a + amount /\ a + amount <= DayEnd BY <1>5, <1>6, <1>7, <2>1
  <2>3. i \in DayIntervals BY <1>8, <2>2, IsDayInterval
  <2> QED BY <1>8, <2>3 DEF Length
<1>10. PICK c : c = Append(work.tentative, i) OBVIOUS
<1>11. PICK left \in Nat : left = work.remaining - amount /\ left >= 1
  <2>1. work.remaining \in Nat BY <1>2, AtIs
  <2> QED BY <2>1
<1>12. work' = [work EXCEPT !.tentative = c, !.remaining = left, !.cursor = e]
  BY <1>4, <1>5, <1>8, <1>10, <1>11 DEF Split
<1>13. work.tentative \in Seq(DayIntervals) /\ c \in Seq(DayIntervals) BY <1>2, <1>9, <1>10, TentativeOfDay
<1>14. /\ work' \in WorkOf(FlexOf) /\ work'.pc = work.pc /\ work'.primary = work.primary
       /\ work'.pending = work.pending /\ work'.tentative = c
       /\ work'.remaining = left /\ work'.cursor = e
  BY <1>3, <1>12, <1>13 DEF WorkOf
<1>15. work.primary \in work.pending BY <1>2 DEF AllocTyped, WorkTyped, Primary
<1>16. AllocTyped' BY <1>1, <1>2, <1>14, <1>15, StillTyped DEF AllocTyped
<1>17. /\ FixedStand' /\ WholeTasks' /\ Apart' /\ \A t : TakenBy(t)' = TakenBy(t)
  BY <1>1, <1>2, SameSegments
<1>18. OthersHaveNone' BY <1>1, <1>2, <1>14 DEF OthersHaveNone
<1>19. /\ InRow(c) /\ Len(c) <= 2 /\ TotalOf(c) = TotalOf(work.tentative) + amount
       /\ ToSet(c) = ToSet(work.tentative) \cup {i}
  <2>1. InRow(work.tentative) BY <1>2 DEF Partly
  <2>2. \A j \in ToSet(work.tentative) : j[2] <= i[1] BY <1>2, <1>4, <1>9, TentativeOfDay
  <2> QED BY <1>9, <1>10, <2>1, <2>2, RowGrows
<1>20. Partly'
  <2>1. Primary' = Primary /\ TakenBy(Primary)' = TakenBy(Primary) BY <1>14, <1>17 DEF Primary
  <2>2. dayStart' = dayStart /\ spec' = spec BY <1>1
  <2>3. ASSUME NEW j \in ToSet(c)
        PROVE  dayStart <= j[1] /\ j[2] <= e /\ Length(j) >= MinSegment
               /\ \A o \in TakenBy(Primary) : ~Meet(j, o)
    <3>1. CASE j \in ToSet(work.tentative)
      <4>1. /\ dayStart <= j[1] /\ j[2] \in Nat /\ j[2] <= At /\ Length(j) >= MinSegment
            /\ \A o \in TakenBy(Primary) : ~Meet(j, o)
        BY <1>2, <3>1, TentativeOfDay
      <4>2. j[2] <= e BY <1>4, <1>5, <4>1
      <4> QED BY <4>1, <4>2
    <3>2. CASE j = i
      <4>1. \A o \in TakenBy(Primary) : ~Meet(i, o)
        <5>1. \A k \in Occupied : ~ (a < k[2] /\ k[1] < b) BY <1>2, <1>4, <1>5, BlockIs
        <5>2. a <= i[1] /\ i[2] <= b BY <1>7, <1>9
        <5> QED BY <1>2, <1>9, <5>1, <5>2, FreeStretch
      <4>2. dayStart <= a BY <1>2, <1>4, TentativeOfDay
      <4>3. a + amount <= e BY <1>5, <1>7
      <4> QED BY <1>9, <3>2, <4>1, <4>2, <4>3
    <3> QED BY <1>19, <3>1, <3>2
  <2>4. dayStart <= e BY <1>2, <1>4, <1>5, TentativeOfDay
  <2>5. TotalOf(c) + left = spec[Primary].minutes
    <3>1. TotalOf(work.tentative) + work.remaining = spec[Primary].minutes BY <1>2 DEF Partly
    <3>2. work.remaining \in Nat BY <1>2, AtIs
    <3>3. TotalOf(work.tentative) \in Int
      <4>1. \A k \in 1 .. Len(work.tentative) : Length(work.tentative[k]) \in Int
        <5> TAKE k \in 1 .. Len(work.tentative)
        <5>1. work.tentative[k] \in DayIntervals BY <1>13
        <5>2. work.tentative[k][1] \in Nat /\ work.tentative[k][2] \in Nat BY <5>1, DayIntervalTyped
        <5> QED BY <5>2 DEF Length
      <4>2. Len(work.tentative) \in Nat BY <1>13
      <4>3. \A m \in Nat : m <= 1 => m \in {0, 1} OBVIOUS
      <4>4. Len(work.tentative) \in {0, 1} BY <4>2, <4>3
      <4> QED BY <4>1, <4>4 DEF TotalOf
    <3> QED BY <1>11, <1>19, <3>1, <3>2, <3>3
  <2> QED BY <1>11, <1>14, <1>19, <2>1, <2>2, <2>3, <2>4, <2>5 DEF Partly
<1>21. work'.remaining < work.remaining
  <2>1. work.remaining \in Nat /\ amount >= 15 BY <1>2, AtIs DEF MinSegment
  <2> QED BY <1>11, <1>14, <2>1
<1> QED BY <1>2, <1>14, <1>16, <1>17, <1>18, <1>20, <1>21 DEF AllocInv, AllocBooks

\* Tasks that leave the queue get all of their minutes beside what is taken.
LEMMA PlacesKeep ==
  ASSUME AllocInv, work.pc = "placing", UNCHANGED <<spec, queue, walls, dayStart>>,
         NEW P, P \subseteq work.pending, work'.pending = work.pending \ P,
         \A t \in Ids \ P : segments'[t] = segments[t],
         \A t \in P : Placed(t)',
         \A t \in P : \A i \in ToSet(segments'[t]), o \in TakenBy(Primary) : ~Meet(i, o) /\ ~Meet(o, i),
         \A t \in P, u \in P : t # u => \A i \in ToSet(segments'[t]), j \in ToSet(segments'[u]) : ~Meet(i, j)
  PROVE  FixedStand' /\ OthersHaveNone' /\ WholeTasks' /\ Apart'
<1>1. /\ spec' = spec /\ queue' = queue /\ walls' = walls /\ dayStart' = dayStart
      /\ FlexOf' = FlexOf /\ Fixture' = Fixture /\ \A t : Fixed(t)' = Fixed(t)
  BY SameInputs
<1>2. /\ FixedStand /\ OthersHaveNone /\ WholeTasks /\ AllocTyped BY DEF AllocInv, AllocBooks
<1>3. P \subseteq FlexOf /\ FlexOf \subseteq Ids /\ FlexOf \subseteq DOMAIN queue /\ DOMAIN queue \subseteq Ids
  BY <1>2 DEF AllocTyped, WorkTyped, FlexOf
<1>4. FixedStand'
  <2>1. \A t \in DOMAIN queue : Fixed(t) => t \in Ids \ P BY <1>3 DEF FlexOf
  <2> QED BY <1>1, <1>2, <2>1 DEF FixedStand
<1>5. OthersHaveNone'
  <2>1. ASSUME NEW t \in Ids, t \notin DOMAIN queue \/ t \in work'.pending PROVE segments'[t] = <<>>
    <3>1. t \notin P BY <1>3, <2>1
    <3>2. segments'[t] = segments[t] BY <3>1
    <3>3. t \notin DOMAIN queue \/ t \in work.pending BY <2>1
    <3> QED BY <1>2, <3>2, <3>3 DEF OthersHaveNone
  <2> QED BY <1>1, <2>1 DEF OthersHaveNone
<1>6. WholeTasks'
  <2>1. ASSUME NEW t \in FlexOf, segments'[t] # <<>> PROVE Placed(t)'
    <3>1. CASE t \in P BY <3>1
    <3>2. CASE t \notin P
      <4>1. segments'[t] = segments[t] BY <1>3, <3>2
      <4>2. Placed(t)' <=> Placed(t) BY <1>1, <4>1, Zenon DEF Placed
      <4> QED BY <1>2, <2>1, <4>1, <4>2 DEF WholeTasks
    <3> QED BY <3>1, <3>2
  <2> QED BY <1>1, <2>1 DEF WholeTasks
<1>7. Apart'
  <2>1. \A t \in FlexOf \ P : segments'[t] = segments[t] BY <1>3
  <2> QED BY <2>1, StaysApart
<1> QED BY <1>4, <1>5, <1>6, <1>7

\* A filler fits the room, in its own bounds.
LEMMA FillerFits ==
  ASSUME AllocInv, work.pc = "placing", NEW T, T \subseteq work.pending \ {Primary}, T # {},
         NEW room \in Nat, NEW at \in Nat, NEW end \in Nat, \A t \in T : MayFill(t, room, at, end)
  PROVE  /\ Best(T) \in T /\ Best(T) \in FlexOf /\ Best(T) \in Ids
         /\ spec[Best(T)].minutes \in Nat /\ spec[Best(T)].minutes >= 1 /\ spec[Best(T)].minutes <= room
         /\ dayStart <= at /\ at + spec[Best(T)].minutes <= end /\ at + spec[Best(T)].minutes <= DayEnd
<1>1. AllocTyped BY DEF AllocInv
<1>2. T \subseteq FlexOf /\ FlexOf \subseteq Ids BY <1>1 DEF AllocTyped, WorkTyped, FlexOf
<1>3. \A t \in T : spec[t].minutes <= room BY DEF MayFill
<1>4. PICK f : f = Best(T) OBVIOUS
<1>5. f \in T BY <1>1, <1>2, <1>3, <1>4, BestFiller
<1>6. spec[f] \in Task BY <1>1, <1>2, <1>5 DEF AllocTyped
<1>7. PICK m \in Nat, s \in Nat, d \in Nat : m = spec[f].minutes /\ s = spec[f].earliest /\ d = spec[f].deadline /\ m >= 1
  BY <1>6 DEF Task
<1>8. dayStart \in Nat BY <1>1 DEF AllocTyped
<1>9. DayEnd \in Nat BY AllocationAssumption
<1>10. Most(dayStart, s) <= at /\ at + m <= Least(end, Least(DayEnd, d)) /\ m <= room
  BY <1>5, <1>7 DEF MayFill, EarliestOf, LatestOf
<1>11. dayStart <= at BY <1>7, <1>8, <1>10 DEF Most
<1>12. at + m <= end /\ at + m <= DayEnd
  <2>1. PICK l \in Nat : l = Least(DayEnd, d) /\ l <= DayEnd BY <1>7, <1>9 DEF Least
  <2>2. at + m <= Least(end, l) BY <1>10, <2>1
  <2>3. Least(end, l) <= end /\ Least(end, l) <= l /\ Least(end, l) \in Nat BY <2>1 DEF Least
  <2> QED BY <1>9, <2>1, <2>2, <2>3
<1> QED BY <1>2, <1>4, <1>5, <1>7, <1>10, <1>11, <1>12

\* The filler is all there, in one session.
LEMMA OneSession ==
  ASSUME NEW i \in DayIntervals, NEW c, c = <<i>>
  PROVE  InRow(c) /\ TotalOf(c) = Length(i) /\ ToSet(c) = {i} /\ c \in Seq(DayIntervals) /\ c # <<>>
<1>1. c \in Seq(DayIntervals) /\ Len(c) = 1 /\ c[1] = i OBVIOUS
<1>2. InRow(c) BY <1>1 DEF InRow, MaxSegments
<1>3. TotalOf(c) = Length(i) BY <1>1 DEF TotalOf
<1>4. ToSet(c) = {i}
  <2>1. DOMAIN c = {1} BY <1>1
  <2> QED BY <1>1, <2>1 DEF ToSet
<1> QED BY <1>1, <1>2, <1>3, <1>4

\* A filler in the gap before a task's next session keeps the books.
LEMMA FillGapKeeps ==
  ASSUME AllocInv, FillGap
  PROVE  AllocInv' /\ work'.pending \subseteq work.pending /\ work'.pending # work.pending
<1>1. UNCHANGED <<spec, queue, walls, dayStart>> /\ Facing /\ GapFillers # {} BY DEF FillGap
<1>2. AllocTyped /\ work.pc = "placing" /\ Partly BY <1>1 DEF AllocInv, AllocBooks, Facing, Ahead
<1>3. work \in WorkOf(FlexOf) BY <1>2, WorkIs
<1>4. PICK a \in Nat : a = At BY <1>2, AtIs
<1>5. PICK b \in Nat : b = Block[1] /\ b <= DayEnd
  <2>1. /\ Block[1] \in Nat /\ Block[2] \in Nat /\ Block[1] < Block[2] /\ Block[2] <= DayEnd
    BY <1>1, <1>2, BlockIs
  <2>2. DayEnd \in Nat BY AllocationAssumption
  <2> QED BY <2>1, <2>2
<1>6. Gap > 0 /\ Gap = b - a /\ GapFillers = Fillers(b - a, a, b)
  BY <1>1, <1>4, <1>5 DEF GapFillers, Gap
<1>7. PICK room \in Nat : room = b - a BY <1>6
<1>8. PICK T : T = Fillers(room, a, b) OBVIOUS
<1>9. T \subseteq work.pending \ {Primary} /\ T # {} /\ \A t \in T : MayFill(t, room, a, b)
  BY <1>1, <1>6, <1>7, <1>8 DEF Fillers
<1>10. PICK f : f = Best(T) OBVIOUS
<1>11. /\ f \in T /\ f \in FlexOf /\ f \in Ids /\ spec[f].minutes \in Nat
       /\ spec[f].minutes >= 1 /\ spec[f].minutes <= room
       /\ dayStart <= a /\ a + spec[f].minutes <= b /\ a + spec[f].minutes <= DayEnd
  BY <1>2, <1>9, <1>10, FillerFits
<1>12. PICK m \in Nat : m = spec[f].minutes BY <1>11
<1>13. PICK i : i = <<a, a + m>> OBVIOUS
<1>14. i \in DayIntervals /\ i[1] = a /\ i[2] = a + m /\ Length(i) = m
  <2>1. a < a + m BY <1>11, <1>12
  <2>2. i \in DayIntervals BY <1>11, <1>12, <1>13, <2>1, IsDayInterval
  <2> QED BY <1>13, <2>2 DEF Length
<1>15. PICK c : c = <<i>> OBVIOUS
<1>16. /\ InRow(c) /\ TotalOf(c) = m /\ ToSet(c) = {i} /\ c \in Seq(DayIntervals)
  BY <1>14, <1>15, OneSession
<1>17. f = Best(GapFillers) /\ f # Primary /\ f \in work.pending
  BY <1>6, <1>7, <1>8, <1>9, <1>10, <1>11
<1>18. segments' = [segments EXCEPT ![f] = c]
  BY <1>4, <1>12, <1>13, <1>15, <1>17 DEF FillGap, Filled
<1>19. work' = [work EXCEPT !.cursor = a, !.pending = work.pending \ {f}]
  BY <1>4, <1>17 DEF FillGap
<1>20. work.pending \subseteq FlexOf BY <1>3 DEF WorkOf
<1>21. /\ work' \in WorkOf(FlexOf) /\ work'.pc = work.pc /\ work'.primary = work.primary
       /\ work'.pending = work.pending \ {f} /\ work'.tentative = work.tentative
       /\ work'.remaining = work.remaining /\ work'.cursor = a
  BY <1>3, <1>19, <1>20 DEF WorkOf
<1>22. segments \in [Ids -> Seq(DayIntervals)] BY <1>2 DEF AllocTyped
<1>23. /\ segments' \in [Ids -> Seq(DayIntervals)] /\ segments'[f] = c
       /\ \A t \in Ids \ {f} : segments'[t] = segments[t]
  BY <1>11, <1>16, <1>18, <1>22
<1>24. work.primary \in work.pending BY <1>2 DEF AllocTyped, WorkTyped, Primary
<1>25. AllocTyped'
  <2>1. work'.primary \in work'.pending BY <1>17, <1>21, <1>24 DEF Primary
  <2> QED BY <1>1, <1>2, <1>21, <1>23, <2>1, StillTyped
<1>26. spec' = spec /\ dayStart' = dayStart BY <1>1
<1>27. Placed(f)'
  <2>1. InRow(segments'[f]) /\ TotalOf(segments'[f]) = spec'[f].minutes BY <1>12, <1>16, <1>23, <1>26
  <2>2. \A j \in ToSet(segments'[f]) : dayStart' <= j[1] /\ (Length(j) >= MinSegment \/ spec'[f].minutes < MinSegment)
    <3>1. dayStart <= i[1] BY <1>11, <1>14
    <3>2. m >= 15 \/ m < 15 OBVIOUS
    <3> QED BY <1>12, <1>14, <1>16, <1>23, <1>26, <3>1, <3>2 DEF MinSegment
  <2> QED BY <2>1, <2>2 DEF Placed
<1>28. \A o \in TakenBy(Primary) \cup ToSet(work.tentative) : ~Meet(i, o) /\ ~Meet(o, i)
  <2>1. \A k \in Occupied : ~ (a < k[2] /\ k[1] < b) BY <1>1, <1>2, <1>4, <1>5, BlockIs
  <2>2. a <= i[1] /\ i[2] <= b BY <1>11, <1>12, <1>14
  <2> QED BY <1>2, <1>14, <2>1, <2>2, FreeStretch
<1>29. FixedStand' /\ OthersHaveNone' /\ WholeTasks' /\ Apart'
  <2> PICK P : P = {f} OBVIOUS
  <2>1. P \subseteq work.pending /\ work'.pending = work.pending \ P BY <1>17, <1>21
  <2>2. \A t \in P : \A j \in ToSet(segments'[t]), o \in TakenBy(Primary) : ~Meet(j, o) /\ ~Meet(o, j)
    BY <1>16, <1>23, <1>28
  <2>3. \A t \in P, u \in P : t # u => \A j \in ToSet(segments'[t]), k \in ToSet(segments'[u]) : ~Meet(j, k)
    OBVIOUS
  <2>4. \A t \in P : Placed(t)' BY <1>27
  <2>5. \A t \in Ids \ P : segments'[t] = segments[t] BY <1>23
  <2> QED BY <1>1, <1>2, <2>1, <2>2, <2>3, <2>4, <2>5, PlacesKeep
<1>30. Partly'
  <2>1. Primary' = Primary BY <1>21 DEF Primary
  <2>2. TakenBy(Primary)' \subseteq TakenBy(Primary) \cup {i}
    <3>1. FlexOf' = FlexOf /\ Fixture' = Fixture BY <1>1, SameInputs
    <3>2. PICK p : p = Primary OBVIOUS
    <3>3. TakenBy(Primary)' = Fixture \cup UNION {ToSet(segments'[t]) : t \in FlexOf \ {p}}
      BY <2>1, <3>1, <3>2, Zenon DEF TakenBy, ToSet
    <3>4. TakenBy(Primary) = Fixture \cup UNION {ToSet(segments[t]) : t \in FlexOf \ {p}}
      BY <3>2, Zenon DEF TakenBy, ToSet
    <3>5. FlexOf \subseteq Ids BY <1>2 DEF AllocTyped, FlexOf
    <3>6. ASSUME NEW t \in FlexOf \ {p}, NEW o \in ToSet(segments'[t])
          PROVE  o = i \/ o \in UNION {ToSet(segments[u]) : u \in FlexOf \ {p}}
      <4>1. CASE t = f BY <1>16, <1>23, <3>6, <4>1
      <4>2. CASE t # f
        <5>1. segments'[t] = segments[t] BY <1>23, <3>5, <4>2
        <5>2. o \in ToSet(segments[t]) BY <3>6, <5>1
        <5> QED BY <5>2
      <4> QED BY <4>1, <4>2
    <3> QED BY <3>3, <3>4, <3>6
  <2>3. InRow(work.tentative) /\ Len(work.tentative) <= 2 BY <1>2 DEF Partly
  <2>4. TotalOf(work.tentative) + work.remaining = spec[Primary].minutes /\ work.remaining >= 1
    BY <1>2 DEF Partly
  <2>5. ASSUME NEW j \in ToSet(work.tentative)
        PROVE  /\ dayStart <= j[1] /\ j[2] <= a /\ Length(j) >= MinSegment
               /\ \A o \in TakenBy(Primary)' : ~Meet(j, o)
    <3>1. /\ dayStart <= j[1] /\ j[2] <= a /\ Length(j) >= MinSegment
          /\ \A o \in TakenBy(Primary) : ~Meet(j, o)
      BY <1>2, <1>4, TentativeOfDay
    <3>2. ~Meet(j, i) BY <1>28
    <3> QED BY <2>2, <3>1, <3>2
  <2>6. dayStart' <= work'.cursor BY <1>11, <1>21, <1>26
  <2>7. spec'[Primary'].minutes = spec[Primary].minutes BY <1>26, <2>1
  <2> QED BY <1>21, <1>26, <2>1, <2>3, <2>4, <2>5, <2>6, <2>7 DEF Partly
<1>31. work'.pending \subseteq work.pending /\ work'.pending # work.pending BY <1>17, <1>21
<1> QED BY <1>2, <1>21, <1>25, <1>29, <1>30, <1>31 DEF AllocInv, AllocBooks

\* Where the sessions of a task stand, a filler of so many minutes after the
\* first of them.
SessionsFrom(a, lengths, between) ==
  [i \in DOMAIN lengths |->
     <<a + Preceding(lengths, i) + (IF i = 1 THEN 0 ELSE between),
       a + Preceding(lengths, i) + (IF i = 1 THEN 0 ELSE between) + lengths[i]>>]

Fitting(n, lengths, a, m, e) ==
  /\ \A k \in 1 .. n : MinSegment <= lengths[k]
  /\ a + SumFunction(lengths) + m <= e /\ e <= DayEnd

LEMMA OneAfterAnother ==
  ASSUME NEW a \in Nat, NEW g \in Nat, NEW q \in Nat, NEW l \in Nat, NEW m \in Nat, g + l <= q,
         NEW u, u = a + g \/ u = a + g + m
  PROVE  u + l <= a + q + m
  OBVIOUS

LEMMA StandsWithin ==
  ASSUME NEW a \in Nat, NEW q \in Nat, NEW l \in Nat, NEW m \in Nat, NEW r \in Nat, NEW e \in Nat, NEW d \in Nat,
         q + l <= r, l >= 15, a + r + m <= e, e <= d, NEW u, u = a + q \/ u = a + q + m
  PROVE  u \in Nat /\ a <= u /\ u + l \in Nat /\ u + l <= e /\ u < u + l /\ u + l <= d
  OBVIOUS

Standing(n, lengths, a, m, e, s) ==
  /\ s \in [1 .. n -> DayIntervals] /\ DOMAIN s = 1 .. n
  /\ \A k \in 1 .. n : a <= s[k][1] /\ s[k][2] <= e /\ Length(s[k]) = lengths[k]
  /\ s[1][2] = a + lengths[1]
  /\ \A k \in 1 .. n : k # 1 => a + lengths[1] + m <= s[k][1]
  /\ \A j \in 1 .. n, k \in 1 .. n : j < k => s[j][2] <= s[k][1]

\* Sessions laid one after another stand apart and inside the window.
LEMMA SessionsStand ==
  ASSUME NEW n \in 1 .. MaxSegments, NEW lengths \in [1 .. n -> Nat],
         NEW a \in Nat, NEW m \in Nat, NEW e \in Nat, Fitting(n, lengths, a, m, e),
         NEW s, s = SessionsFrom(a, lengths, m)
  PROVE  Standing(n, lengths, a, m, e, s)
<1>1. DOMAIN lengths = 1 .. n /\ n \in Nat /\ 1 \in 1 .. n BY DEF MaxSegments
<1>2. PICK p \in [1 .. n -> Nat] : p = [k \in 1 .. n |-> Preceding(lengths, k)]
  <2>1. \A k \in 1 .. n : Preceding(lengths, k) \in Nat BY SessionsInARow
  <2> QED BY <2>1
<1>3. PICK r \in Nat : r = SumFunction(lengths) BY SessionsInARow
<1>4. /\ p[1] = 0 /\ \A k \in 1 .. n : p[k] + lengths[k] <= r
      /\ \A j \in 1 .. n, k \in 1 .. n : j < k => p[j] + lengths[j] <= p[k]
  BY <1>1, <1>2, <1>3, SessionsInARow
<1>5. DayEnd \in Nat /\ a + r + m <= e /\ e <= DayEnd BY <1>3, AllocationAssumption DEF Fitting
<1>6. PICK x \in [1 .. n -> Nat] : x = [k \in 1 .. n |-> a + p[k] + (IF k = 1 THEN 0 ELSE m)]
  <2>1. \A k \in 1 .. n : a + p[k] + (IF k = 1 THEN 0 ELSE m) \in Nat OBVIOUS
  <2> QED BY <2>1
<1>7. s = [k \in 1 .. n |-> <<x[k], x[k] + lengths[k]>>]
  <2>1. \A k \in 1 .. n : x[k] = a + Preceding(lengths, k) + (IF k = 1 THEN 0 ELSE m) BY <1>2, <1>6
  <2> QED BY <1>1, <2>1 DEF SessionsFrom
<1>8. ASSUME NEW k \in 1 .. n
      PROVE  /\ s[k] \in DayIntervals /\ s[k][1] = x[k] /\ s[k][2] = x[k] + lengths[k]
             /\ a <= s[k][1] /\ s[k][2] <= e /\ Length(s[k]) = lengths[k]
  <2>1. PICK y \in Nat, q \in Nat, l \in Nat : y = x[k] /\ q = p[k] /\ l = lengths[k] OBVIOUS
  <2>2. s[k] = <<y, y + l>> BY <1>7, <2>1
  <2>3. s[k][1] = y /\ s[k][2] = y + l BY <2>2
  <2>4. q + l <= r BY <1>4, <2>1
  <2>5. l >= 15 BY <2>1 DEF MinSegment, Fitting
  <2>6. y = a + q \/ y = a + q + m
    <3>1. x[k] = a + p[k] + (IF k = 1 THEN 0 ELSE m) BY <1>6
    <3>2. y = a + q + (IF k = 1 THEN 0 ELSE m) BY <2>1, <3>1
    <3> QED BY <3>2
  <2>7. a <= y /\ y + l \in Nat /\ y + l <= e /\ y < y + l /\ y + l <= DayEnd
    BY <1>5, <2>4, <2>5, <2>6, StandsWithin
  <2>8. s[k] \in DayIntervals BY <2>2, <2>7, IsDayInterval
  <2>9. y + l - y = l OBVIOUS
  <2>10. Length(s[k]) = l BY <2>3, <2>9 DEF Length
  <2> QED BY <2>1, <2>3, <2>7, <2>8, <2>10
<1>9. s \in [1 .. n -> DayIntervals] /\ DOMAIN s = 1 .. n BY <1>7, <1>8
<1>10. \A k \in 1 .. n : a <= s[k][1] /\ s[k][2] <= e /\ Length(s[k]) = lengths[k] BY <1>8
<1>11. s[1][2] = a + lengths[1]
  <2>1. x[1] = a BY <1>1, <1>4, <1>6
  <2> QED BY <1>1, <1>8, <2>1
<1>12. \A k \in 1 .. n : k # 1 => a + lengths[1] + m <= s[k][1]
  <2> SUFFICES ASSUME NEW k \in 1 .. n, k # 1 PROVE a + lengths[1] + m <= s[k][1] OBVIOUS
  <2>1. PICK q \in Nat, l \in Nat : q = p[k] /\ l = lengths[1] BY <1>1
  <2>2. 1 < k BY <1>1
  <2>3. p[1] + lengths[1] <= p[k] /\ p[1] = 0 BY <1>1, <1>4, <2>2
  <2>4. x[k] = a + q + m BY <1>6, <2>1
  <2>5. s[k][1] = x[k] BY <1>8
  <2>6. 0 + l <= q BY <2>1, <2>3
  <2>7. a + l + m <= a + q + m
    <3>1. l <= q BY <2>6
    <3> QED BY <3>1
  <2>8. a + lengths[1] + m = a + l + m BY <2>1
  <2>9. s[k][1] = a + q + m BY <2>4, <2>5
  <2>10. a + lengths[1] + m <= a + q + m BY <2>7, <2>8
  <2> QED BY <2>9, <2>10
<1>13. \A j \in 1 .. n, k \in 1 .. n : j < k => s[j][2] <= s[k][1]
  <2> SUFFICES ASSUME NEW j \in 1 .. n, NEW k \in 1 .. n, j < k PROVE s[j][2] <= s[k][1] OBVIOUS
  <2>1. PICK g \in Nat, q \in Nat, l \in Nat : g = p[j] /\ q = p[k] /\ l = lengths[j] OBVIOUS
  <2>2. g + l <= q BY <1>4, <2>1
  <2>3. k # 1 BY <1>1
  <2>4. x[k] = a + q + m BY <1>6, <2>1, <2>3
  <2>5. PICK u \in Nat : u = x[j] OBVIOUS
  <2>6. u = a + g \/ u = a + g + m
    <3>1. x[j] = a + p[j] + (IF j = 1 THEN 0 ELSE m) BY <1>6
    <3>2. u = a + g + (IF j = 1 THEN 0 ELSE m) BY <2>1, <2>5, <3>1
    <3> QED BY <3>2
  <2>7. s[k][1] = x[k] BY <1>8
  <2>8. s[j][2] = u + l BY <1>8, <2>1, <2>5
  <2>9. u + l <= a + q + m BY <2>2, <2>6, OneAfterAnother
  <2> QED BY <2>4, <2>7, <2>8, <2>9
<1> QED BY <1>9, <1>10, <1>11, <1>12, <1>13 DEF Standing

LEMMA TotalTyped ==
  ASSUME NEW c, InRow(c)
  PROVE  /\ TotalOf(c) \in Int /\ c \in Seq(DayIntervals) /\ Len(c) \in {0, 1, 2, 3} /\ DOMAIN c = 1 .. Len(c)
         /\ \A k \in 1 .. Len(c) : /\ c[k] \in DayIntervals /\ c[k][1] \in Nat /\ c[k][2] \in Nat
                                   /\ Length(c[k]) \in Int
<1>1. c \in Seq(DayIntervals) /\ Len(c) <= 3 BY DEF InRow, MaxSegments
<1>2. Len(c) \in Nat /\ DOMAIN c = 1 .. Len(c) BY <1>1
<1>3. \A k \in Nat : k <= 3 => k \in {0, 1, 2, 3} OBVIOUS
<1>4. Len(c) \in {0, 1, 2, 3} BY <1>1, <1>2, <1>3
<1>5. \A k \in 1 .. Len(c) : c[k] \in DayIntervals BY <1>1
<1>6. \A k \in 1 .. Len(c) : c[k][1] \in Nat /\ c[k][2] \in Nat /\ Length(c[k]) \in Int
  <2> TAKE k \in 1 .. Len(c)
  <2>1. c[k][1] \in Nat /\ c[k][2] \in Nat BY <1>5, DayIntervalTyped
  <2> QED BY <2>1 DEF Length
<1>7. TotalOf(c) \in Int
  <2>1. CASE Len(c) = 0 BY <2>1 DEF TotalOf
  <2>2. CASE Len(c) = 1 BY <1>6, <2>2 DEF TotalOf
  <2>3. CASE Len(c) = 2
    <3>1. 1 \in 1 .. Len(c) /\ 2 \in 1 .. Len(c) BY <2>3
    <3> QED BY <1>6, <2>3, <3>1 DEF TotalOf
  <2>4. CASE Len(c) = 3
    <3>1. 1 \in 1 .. Len(c) /\ 2 \in 1 .. Len(c) /\ 3 \in 1 .. Len(c) BY <2>4
    <3> QED BY <1>6, <2>4, <3>1 DEF TotalOf
  <2> QED BY <1>4, <2>1, <2>2, <2>3, <2>4
<1> QED BY <1>1, <1>2, <1>4, <1>5, <1>6, <1>7

Following(n, lengths, c, s) ==
  /\ s \in [1 .. n -> DayIntervals]
  /\ \A k \in 1 .. n : Length(s[k]) = lengths[k]
  /\ \A j \in 1 .. n, k \in 1 .. n : j < k => s[j][2] <= s[k][1]
  /\ \A i \in ToSet(c) : i[2] <= s[1][1]

\* The sessions of the rest after those a task already has.
LEMMA RowsJoin ==
  ASSUME NEW c, InRow(c), NEW n \in 1 .. MaxSegments, Len(c) + n <= MaxSegments,
         NEW lengths \in [1 .. n -> Nat], NEW s, Following(n, lengths, c, s)
  PROVE  /\ InRow(c \o s) /\ ToSet(c \o s) = ToSet(c) \cup {s[k] : k \in 1 .. n}
         /\ TotalOf(c \o s) = TotalOf(c) + SumFunction(lengths)
<1>0. /\ s \in [1 .. n -> DayIntervals]
      /\ \A k \in 1 .. n : Length(s[k]) = lengths[k]
      /\ \A j \in 1 .. n, k \in 1 .. n : j < k => s[j][2] <= s[k][1]
      /\ \A i \in ToSet(c) : i[2] <= s[1][1]
  BY DEF Following
<1>1. /\ TotalOf(c) \in Int /\ c \in Seq(DayIntervals) /\ Len(c) \in {0, 1, 2, 3} /\ DOMAIN c = 1 .. Len(c)
      /\ \A k \in 1 .. Len(c) : Length(c[k]) \in Int
  BY TotalTyped
<1>2. n \in {1, 2, 3} /\ n \in Nat /\ Len(c) + n <= 3 BY DEF MaxSegments
<1>3. s \in Seq(DayIntervals) /\ Len(s) = n BY <1>0, <1>2
<1>4. PICK u : u = c \o s OBVIOUS
<1>5. /\ u \in Seq(DayIntervals) /\ Len(u) = Len(c) + n
      /\ \A k \in 1 .. Len(c) : u[k] = c[k]
      /\ \A k \in 1 .. n : u[Len(c) + k] = s[k]
  BY <1>1, <1>2, <1>3, <1>4
<1>6. DOMAIN u = 1 .. Len(u) BY <1>5
<1>7. \A k \in 1 .. n : lengths[k] \in Nat OBVIOUS
<1>8. lengths \in [1 .. n -> Int] OBVIOUS
<1>9. \A k \in 1 .. Len(c) : c[k] \in ToSet(c) BY <1>1 DEF ToSet
<1>10. CASE Len(c) = 0 /\ n = 1
  <2>1. 1 \in 1 .. n BY <1>10
  <2>2. Len(u) = 1 /\ u[1] = s[1]
    <3>1. 0 + 1 = 1 /\ Len(u) = 1 BY <1>5, <1>10
    <3> QED BY <1>5, <1>10, <2>1, <3>1
  <2>3. ToSet(u) = {s[1]}
    <3>1. DOMAIN u = {1} BY <1>6, <2>2
    <3> QED BY <2>2, <3>1 DEF ToSet
  <2>4. ToSet(c) = {}
    <3>1. DOMAIN c = {} BY <1>1, <1>10
    <3> QED BY <3>1 DEF ToSet
  <2>5. {s[k] : k \in 1 .. n} = {s[1]}
    <3>1. 1 .. n = {1} BY <1>10
    <3> QED BY <3>1
  <2>6. ToSet(u) = ToSet(c) \cup {s[k] : k \in 1 .. n} BY <2>3, <2>4, <2>5
  <2>7. TotalOf(u) = TotalOf(c) + SumFunction(lengths)
    <3>1. PICK l1 \in Nat : l1 = lengths[1]
      BY <1>1, <1>7, <2>1
    <3>2. SumFunction(lengths) = l1 BY <1>8, <1>10, <3>1, LimitsSum
    <3>3. Length(s[1]) = l1 BY <1>0, <2>1, <3>1
    <3>4. TotalOf(c) = 0 BY <1>10, <3>1 DEF TotalOf
    <3>5. TotalOf(u) = Length(s[1])
      BY <2>2 DEF TotalOf
    <3>6. TotalOf(u) = l1 BY <3>1, <3>3, <3>5
    <3> QED BY <3>2, <3>4, <3>6
  <2>8. InRow(u)
    <3>3. Len(u) <= MaxSegments BY <2>2 DEF MaxSegments
    <3>4. Len(u) >= 2 => u[1][2] <= u[2][1] BY <2>2
    <3>5. Len(u) >= 3 => u[2][2] <= u[3][1] BY <2>2
    <3> QED BY <1>5, <3>3, <3>4, <3>5 DEF InRow
  <2> QED BY <1>4, <2>2, <2>6, <2>7, <2>8
<1>11. CASE Len(c) = 0 /\ n = 2
  <2>1. 1 \in 1 .. n /\ 2 \in 1 .. n BY <1>11
  <2>2. Len(u) = 2 /\ u[1] = s[1] /\ u[2] = s[2]
    <3>1. 0 + 1 = 1 /\ 0 + 2 = 2 /\ Len(u) = 2 BY <1>5, <1>11
    <3> QED BY <1>5, <1>11, <2>1, <3>1
  <2>3. ToSet(u) = {s[1], s[2]}
    <3>1. DOMAIN u = {1, 2} BY <1>6, <2>2
    <3> QED BY <2>2, <3>1 DEF ToSet
  <2>4. ToSet(c) = {}
    <3>1. DOMAIN c = {} BY <1>1, <1>11
    <3> QED BY <3>1 DEF ToSet
  <2>5. {s[k] : k \in 1 .. n} = {s[1], s[2]}
    <3>1. 1 .. n = {1, 2} BY <1>11
    <3> QED BY <3>1
  <2>6. ToSet(u) = ToSet(c) \cup {s[k] : k \in 1 .. n} BY <2>3, <2>4, <2>5
  <2>7. TotalOf(u) = TotalOf(c) + SumFunction(lengths)
    <3>1. PICK l1 \in Nat, l2 \in Nat : l1 = lengths[1] /\ l2 = lengths[2]
      BY <1>1, <1>7, <2>1
    <3>2. SumFunction(lengths) = l1 + l2 BY <1>8, <1>11, <3>1, LimitsSum
    <3>3. Length(s[1]) = l1 /\ Length(s[2]) = l2 BY <1>0, <2>1, <3>1
    <3>4. TotalOf(c) = 0 BY <1>11, <3>1 DEF TotalOf
    <3>5. TotalOf(u) = Length(s[1]) + Length(s[2])
      BY <2>2 DEF TotalOf
    <3>6. TotalOf(u) = l1 + l2 BY <3>1, <3>3, <3>5
    <3> QED BY <3>2, <3>4, <3>6
  <2>8. InRow(u)
    <3>1. s[1][2] <= s[2][1] BY <1>0, <2>1
    <3>3. Len(u) <= MaxSegments BY <2>2 DEF MaxSegments
    <3>4. Len(u) >= 2 => u[1][2] <= u[2][1] BY <2>2, <3>1
    <3>5. Len(u) >= 3 => u[2][2] <= u[3][1] BY <2>2
    <3> QED BY <1>5, <3>3, <3>4, <3>5 DEF InRow
  <2> QED BY <1>4, <2>2, <2>6, <2>7, <2>8
<1>12. CASE Len(c) = 0 /\ n = 3
  <2>1. 1 \in 1 .. n /\ 2 \in 1 .. n /\ 3 \in 1 .. n BY <1>12
  <2>2. Len(u) = 3 /\ u[1] = s[1] /\ u[2] = s[2] /\ u[3] = s[3]
    <3>1. 0 + 1 = 1 /\ 0 + 2 = 2 /\ 0 + 3 = 3 /\ Len(u) = 3 BY <1>5, <1>12
    <3> QED BY <1>5, <1>12, <2>1, <3>1
  <2>3. ToSet(u) = {s[1], s[2], s[3]}
    <3>1. DOMAIN u = {1, 2, 3} BY <1>6, <2>2
    <3> QED BY <2>2, <3>1 DEF ToSet
  <2>4. ToSet(c) = {}
    <3>1. DOMAIN c = {} BY <1>1, <1>12
    <3> QED BY <3>1 DEF ToSet
  <2>5. {s[k] : k \in 1 .. n} = {s[1], s[2], s[3]}
    <3>1. 1 .. n = {1, 2, 3} BY <1>12
    <3> QED BY <3>1
  <2>6. ToSet(u) = ToSet(c) \cup {s[k] : k \in 1 .. n} BY <2>3, <2>4, <2>5
  <2>7. TotalOf(u) = TotalOf(c) + SumFunction(lengths)
    <3>1. PICK l1 \in Nat, l2 \in Nat, l3 \in Nat : l1 = lengths[1] /\ l2 = lengths[2] /\ l3 = lengths[3]
      BY <1>1, <1>7, <2>1
    <3>2. SumFunction(lengths) = l1 + l2 + l3 BY <1>8, <1>12, <3>1, LimitsSum
    <3>3. Length(s[1]) = l1 /\ Length(s[2]) = l2 /\ Length(s[3]) = l3 BY <1>0, <2>1, <3>1
    <3>4. TotalOf(c) = 0 BY <1>12, <3>1 DEF TotalOf
    <3>5. TotalOf(u) = Length(s[1]) + Length(s[2]) + Length(s[3])
      BY <2>2 DEF TotalOf
    <3>6. TotalOf(u) = l1 + l2 + l3 BY <3>1, <3>3, <3>5
    <3> QED BY <3>2, <3>4, <3>6
  <2>8. InRow(u)
    <3>1. s[1][2] <= s[2][1] BY <1>0, <2>1
    <3>2. s[2][2] <= s[3][1] BY <1>0, <2>1
    <3>3. Len(u) <= MaxSegments BY <2>2 DEF MaxSegments
    <3>4. Len(u) >= 2 => u[1][2] <= u[2][1] BY <2>2, <3>1
    <3>5. Len(u) >= 3 => u[2][2] <= u[3][1] BY <2>2, <3>2
    <3> QED BY <1>5, <3>3, <3>4, <3>5 DEF InRow
  <2> QED BY <1>4, <2>2, <2>6, <2>7, <2>8
<1>13. CASE Len(c) = 1 /\ n = 1
  <2>1. 1 \in 1 .. n /\ 1 \in 1 .. Len(c) BY <1>13
  <2>2. Len(u) = 2 /\ u[1] = c[1] /\ u[2] = s[1]
    <3>1. 1 + 1 = 2 /\ Len(u) = 2 BY <1>5, <1>13
    <3> QED BY <1>5, <1>13, <2>1, <3>1
  <2>3. ToSet(u) = {c[1], s[1]}
    <3>1. DOMAIN u = {1, 2} BY <1>6, <2>2
    <3> QED BY <2>2, <3>1 DEF ToSet
  <2>4. ToSet(c) = {c[1]}
    <3>1. DOMAIN c = {1} BY <1>1, <1>13
    <3> QED BY <3>1 DEF ToSet
  <2>5. {s[k] : k \in 1 .. n} = {s[1]}
    <3>1. 1 .. n = {1} BY <1>13
    <3> QED BY <3>1
  <2>6. ToSet(u) = ToSet(c) \cup {s[k] : k \in 1 .. n} BY <2>3, <2>4, <2>5
  <2>7. TotalOf(u) = TotalOf(c) + SumFunction(lengths)
    <3>1. PICK x1 \in Int, l1 \in Nat : x1 = Length(c[1]) /\ l1 = lengths[1]
      BY <1>1, <1>7, <2>1
    <3>2. SumFunction(lengths) = l1 BY <1>8, <1>13, <3>1, LimitsSum
    <3>3. Length(s[1]) = l1 BY <1>0, <2>1, <3>1
    <3>4. TotalOf(c) = x1 BY <1>13, <3>1 DEF TotalOf
    <3>5. TotalOf(u) = Length(c[1]) + Length(s[1])
      BY <2>2 DEF TotalOf
    <3>6. TotalOf(u) = x1 + l1 BY <3>1, <3>3, <3>5
    <3> QED BY <3>2, <3>4, <3>6
  <2>8. InRow(u)
    <3>1. c[1][2] <= s[1][1] BY <1>0, <1>9, <2>1
    <3>3. Len(u) <= MaxSegments BY <2>2 DEF MaxSegments
    <3>4. Len(u) >= 2 => u[1][2] <= u[2][1] BY <2>2, <3>1
    <3>5. Len(u) >= 3 => u[2][2] <= u[3][1] BY <2>2
    <3> QED BY <1>5, <3>3, <3>4, <3>5 DEF InRow
  <2> QED BY <1>4, <2>2, <2>6, <2>7, <2>8
<1>14. CASE Len(c) = 1 /\ n = 2
  <2>1. 1 \in 1 .. n /\ 2 \in 1 .. n /\ 1 \in 1 .. Len(c) BY <1>14
  <2>2. Len(u) = 3 /\ u[1] = c[1] /\ u[2] = s[1] /\ u[3] = s[2]
    <3>1. 1 + 1 = 2 /\ 1 + 2 = 3 /\ Len(u) = 3 BY <1>5, <1>14
    <3> QED BY <1>5, <1>14, <2>1, <3>1
  <2>3. ToSet(u) = {c[1], s[1], s[2]}
    <3>1. DOMAIN u = {1, 2, 3} BY <1>6, <2>2
    <3> QED BY <2>2, <3>1 DEF ToSet
  <2>4. ToSet(c) = {c[1]}
    <3>1. DOMAIN c = {1} BY <1>1, <1>14
    <3> QED BY <3>1 DEF ToSet
  <2>5. {s[k] : k \in 1 .. n} = {s[1], s[2]}
    <3>1. 1 .. n = {1, 2} BY <1>14
    <3> QED BY <3>1
  <2>6. ToSet(u) = ToSet(c) \cup {s[k] : k \in 1 .. n} BY <2>3, <2>4, <2>5
  <2>7. TotalOf(u) = TotalOf(c) + SumFunction(lengths)
    <3>1. PICK x1 \in Int, l1 \in Nat, l2 \in Nat : x1 = Length(c[1]) /\ l1 = lengths[1] /\ l2 = lengths[2]
      BY <1>1, <1>7, <2>1
    <3>2. SumFunction(lengths) = l1 + l2 BY <1>8, <1>14, <3>1, LimitsSum
    <3>3. Length(s[1]) = l1 /\ Length(s[2]) = l2 BY <1>0, <2>1, <3>1
    <3>4. TotalOf(c) = x1 BY <1>14, <3>1 DEF TotalOf
    <3>5. TotalOf(u) = Length(c[1]) + Length(s[1]) + Length(s[2])
      BY <2>2 DEF TotalOf
    <3>6. TotalOf(u) = x1 + l1 + l2 BY <3>1, <3>3, <3>5
    <3> QED BY <3>2, <3>4, <3>6
  <2>8. InRow(u)
    <3>1. c[1][2] <= s[1][1] BY <1>0, <1>9, <2>1
    <3>2. s[1][2] <= s[2][1] BY <1>0, <2>1
    <3>3. Len(u) <= MaxSegments BY <2>2 DEF MaxSegments
    <3>4. Len(u) >= 2 => u[1][2] <= u[2][1] BY <2>2, <3>1
    <3>5. Len(u) >= 3 => u[2][2] <= u[3][1] BY <2>2, <3>2
    <3> QED BY <1>5, <3>3, <3>4, <3>5 DEF InRow
  <2> QED BY <1>4, <2>2, <2>6, <2>7, <2>8
<1>15. CASE Len(c) = 2 /\ n = 1
  <2>1. 1 \in 1 .. n /\ 1 \in 1 .. Len(c) /\ 2 \in 1 .. Len(c) BY <1>15
  <2>2. Len(u) = 3 /\ u[1] = c[1] /\ u[2] = c[2] /\ u[3] = s[1]
    <3>1. 2 + 1 = 3 /\ Len(u) = 3 BY <1>5, <1>15
    <3> QED BY <1>5, <1>15, <2>1, <3>1
  <2>3. ToSet(u) = {c[1], c[2], s[1]}
    <3>1. DOMAIN u = {1, 2, 3} BY <1>6, <2>2
    <3> QED BY <2>2, <3>1 DEF ToSet
  <2>4. ToSet(c) = {c[1], c[2]}
    <3>1. DOMAIN c = {1, 2} BY <1>1, <1>15
    <3> QED BY <3>1 DEF ToSet
  <2>5. {s[k] : k \in 1 .. n} = {s[1]}
    <3>1. 1 .. n = {1} BY <1>15
    <3> QED BY <3>1
  <2>6. ToSet(u) = ToSet(c) \cup {s[k] : k \in 1 .. n} BY <2>3, <2>4, <2>5
  <2>7. TotalOf(u) = TotalOf(c) + SumFunction(lengths)
    <3>1. PICK x1 \in Int, x2 \in Int, l1 \in Nat : x1 = Length(c[1]) /\ x2 = Length(c[2]) /\ l1 = lengths[1]
      BY <1>1, <1>7, <2>1
    <3>2. SumFunction(lengths) = l1 BY <1>8, <1>15, <3>1, LimitsSum
    <3>3. Length(s[1]) = l1 BY <1>0, <2>1, <3>1
    <3>4. TotalOf(c) = x1 + x2 BY <1>15, <3>1 DEF TotalOf
    <3>5. TotalOf(u) = Length(c[1]) + Length(c[2]) + Length(s[1])
      BY <2>2 DEF TotalOf
    <3>6. TotalOf(u) = x1 + x2 + l1 BY <3>1, <3>3, <3>5
    <3> QED BY <3>2, <3>4, <3>6
  <2>8. InRow(u)
    <3>1. c[1][2] <= c[2][1] BY <1>15 DEF InRow
    <3>2. c[2][2] <= s[1][1] BY <1>0, <1>9, <2>1
    <3>3. Len(u) <= MaxSegments BY <2>2 DEF MaxSegments
    <3>4. Len(u) >= 2 => u[1][2] <= u[2][1] BY <2>2, <3>1
    <3>5. Len(u) >= 3 => u[2][2] <= u[3][1] BY <2>2, <3>2
    <3> QED BY <1>5, <3>3, <3>4, <3>5 DEF InRow
  <2> QED BY <1>4, <2>2, <2>6, <2>7, <2>8
<1> QED BY <1>1, <1>2, <1>10, <1>11, <1>12, <1>13, <1>14, <1>15

\* Sessions placed at the cursor follow those the task already has.
LEMMA RestFollows ==
  ASSUME NEW c, InRow(c), NEW n \in 1 .. MaxSegments, NEW lengths \in [1 .. n -> Nat],
         NEW a \in Nat, NEW m \in Nat, NEW e \in Nat, NEW s, Standing(n, lengths, a, m, e, s),
         \A i \in ToSet(c) : i[2] <= a
  PROVE  Following(n, lengths, c, s)
<1>1. s \in [1 .. n -> DayIntervals] BY DEF Standing
<1>2. \A i \in ToSet(c) : i[2] <= s[1][1]
  <2> TAKE i \in ToSet(c)
  <2>1. 1 \in 1 .. n BY DEF MaxSegments
  <2>2. a <= s[1][1] /\ s[1] \in DayIntervals BY <1>1, <2>1 DEF Standing
  <2>3. s[1][1] \in Nat BY <2>2, DayIntervalTyped
  <2>4. PICK k \in 1 .. Len(c) : i = c[k]
    <3>1. DOMAIN c = 1 .. Len(c) BY TotalTyped
    <3> QED BY <3>1 DEF ToSet
  <2>5. i[2] \in Nat BY <2>4, TotalTyped
  <2> QED BY <2>2, <2>3, <2>5
<1>3. \A k \in 1 .. n : Length(s[k]) = lengths[k] BY DEF Standing
<1>4. \A j \in 1 .. n, k \in 1 .. n : j < k => s[j][2] <= s[k][1] BY DEF Standing
<1> QED BY <1>1, <1>2, <1>3, <1>4 DEF Following

BlockStarts(at) == {i[1] : i \in {j \in Occupied : j[1] > at}}
FreeEnd(at) == IF BlockStarts(at) = {} THEN Until ELSE Min(BlockStarts(at))

\* With no block ahead of what is left, the day is free as far as the next one.
LEMMA RoomAhead ==
  ASSUME AllocInv, Ahead, Blocks = {}, At + work.remaining <= Until, work.remaining >= 1
  PROVE  /\ FreeEnd(At) \in Nat /\ FreeEnd(At) <= DayEnd /\ At + work.remaining <= FreeEnd(At)
         /\ \A b \in Occupied : ~ (At < b[2] /\ b[1] < FreeEnd(At))
<1>1. AllocTyped /\ work.pc = "placing" BY DEF AllocInv, Ahead
<1>2. PICK a \in Nat, r \in Nat : a = At /\ r = work.remaining BY <1>1, AtIs
<1>3. Until \in Nat /\ Until <= DayEnd
  <2>1. DayEnd \in Nat BY AllocationAssumption
  <2>2. spec[Primary] \in Task BY <1>1, PrimaryIs
  <2>3. PICK d \in Nat : d = spec[Primary].deadline BY <2>2 DEF Task
  <2>4. Until = Least(DayEnd, d) BY <2>3 DEF Until, LatestOf
  <2> QED BY <2>1, <2>4 DEF Least
<1>4. ASSUME NEW b \in Occupied
      PROVE  /\ b[1] \in Nat /\ b[2] \in Nat /\ b[1] < b[2] /\ b[2] <= DayEnd
             /\ ~ (a < b[2] /\ b[1] < a + r)
  <2>1. b \in DayIntervals BY <1>1, OccupiedCovers
  <2>2. b[1] \in Nat /\ b[2] \in Nat /\ b[1] < b[2] /\ b[2] <= DayEnd BY <2>1, DayIntervalTyped
  <2>3. b \notin Blocks OBVIOUS
  <2>4. ~ Meet(<<a, a + r>>, b) BY <1>2, <2>3 DEF Blocks, Overlaps
  <2> QED BY <2>2, <2>4 DEF Meet
<1>5. a + r <= Until /\ r >= 1 BY <1>2
<1>6. PICK X : X = BlockStarts(a) OBVIOUS
<1>7. \A x \in X : \E b \in Occupied : x = b[1] /\ a < b[1] BY <1>6 DEF BlockStarts
<1>8. \A b \in Occupied : a < b[1] => b[1] \in X BY <1>6 DEF BlockStarts
<1>9. DayEnd \in Nat BY AllocationAssumption
<1>10. CASE X = {}
  <2>1. FreeEnd(At) = Until BY <1>2, <1>6, <1>10 DEF FreeEnd
  <2>2. ASSUME NEW b \in Occupied, a < b[2], b[1] < Until PROVE FALSE
    <3>1. ~ (a < b[1]) BY <1>8, <1>10
    <3>2. b[1] < a + r BY <1>4, <1>5, <3>1
    <3> QED BY <1>4, <2>2, <3>2
  <2> QED BY <1>2, <1>3, <1>5, <2>1, <2>2
<1>11. CASE X # {}
  <2>1. X \subseteq Nat BY <1>4, <1>7
  <2>2. PICK e : e = Min(X) OBVIOUS
  <2>3. e \in X /\ \A x \in X : e <= x BY <1>11, <2>1, <2>2, MinIsLeast
  <2>4. FreeEnd(At) = e BY <1>2, <1>6, <1>11, <2>2 DEF FreeEnd
  <2>5. PICK k \in Occupied : e = k[1] /\ a < k[1] BY <1>7, <2>3
  <2>6. e \in Nat /\ e <= DayEnd BY <1>4, <1>9, <2>5
  <2>7. a + r <= e BY <1>4, <2>5, <2>6
  <2>8. ASSUME NEW b \in Occupied, a < b[2], b[1] < e PROVE FALSE
    <3>1. ~ (a < b[1]) BY <1>4, <1>8, <2>3, <2>6, <2>8
    <3>2. b[1] < a + r BY <1>4, <1>5, <3>1
    <3> QED BY <1>4, <2>8, <3>2
  <2> QED BY <1>2, <2>4, <2>6, <2>7, <2>8
<1> QED BY <1>10, <1>11

\* Who fills in between, if anybody.
Between(lengths, spare, end) ==
  IF Len(lengths) > 1 /\ spare >= MinSegment THEN Fillers(spare, At + lengths[1], end) ELSE {}

\* What placing a task's sessions changes, named.
LEMMA PlaceSessionsIs ==
  ASSUME PlaceSessions
  PROVE  \E lengths, F, m, others1 :
           /\ lengths = BestLengths(work.remaining, work.preferred, Available)
           /\ F = Between(lengths, FreeEnd(At) - At - work.remaining, FreeEnd(At))
           /\ m = (IF F = {} THEN 0 ELSE spec[Best(F)].minutes)
           /\ others1 = (IF F = {} THEN segments ELSE Filled(Best(F), At + lengths[1]))
           /\ segments' = [others1 EXCEPT ![Primary] = work.tentative \o SessionsFrom(At, lengths, m)]
           /\ work' = [Rest EXCEPT !.pc = "next",
                         !.pending = work.pending \ ({Primary} \cup IF F = {} THEN {} ELSE {Best(F)})]
<1>1. PICK lengths : lengths = BestLengths(work.remaining, work.preferred, Available) OBVIOUS
<1>2. PICK F : F = Between(lengths, FreeEnd(At) - At - work.remaining, FreeEnd(At)) OBVIOUS
<1>3. PICK m : m = IF F = {} THEN 0 ELSE spec[Best(F)].minutes OBVIOUS
<1>4. PICK others1 : others1 = IF F = {} THEN segments ELSE Filled(Best(F), At + lengths[1]) OBVIOUS
<1>5. segments' = [others1 EXCEPT ![Primary] = work.tentative \o SessionsFrom(At, lengths, m)]
  BY <1>1, <1>2, <1>3, <1>4 DEF PlaceSessions, SessionsFrom, Between, FreeEnd, BlockStarts
<1>6. work' = [Rest EXCEPT !.pc = "next",
                 !.pending = work.pending \ ({Primary} \cup IF F = {} THEN {} ELSE {Best(F)})]
  BY <1>1, <1>2 DEF PlaceSessions, Between, FreeEnd, BlockStarts
<1> QED BY <1>1, <1>2, <1>3, <1>4, <1>5, <1>6

\* The sessions of the rest are near-equal parts of it, none too short.
LEMMA PartsOfTheRest ==
  ASSUME NEW r \in Nat, NEW preferred \in Nat, NEW most \in Nat, most >= 1, r >= MinSegment,
         NEW lengths, lengths = BestLengths(r, preferred, most)
  PROVE  \E n \in 1 .. MaxSegments :
           /\ n <= most /\ lengths \in [1 .. n -> Nat] /\ Len(lengths) = n
           /\ SumFunction(lengths) = r /\ \A k \in 1 .. n : MinSegment <= lengths[k]
<1>1. PICK n \in 1 .. MaxSegments : n <= most /\ n * MinSegment <= r /\ lengths = Balanced(r, n)
  BY BestSessions
<1>2. /\ lengths \in [1 .. n -> Nat] /\ Sum(lengths, 1 .. n) = r
      /\ \A i \in 1 .. n, k \in Nat : k * n <= r => k <= lengths[i]
  BY <1>1, BalancedParts
<1>3. DOMAIN lengths = 1 .. n BY <1>2
<1>4. SumFunction(lengths) = r BY <1>2, <1>3, FoldsAreSums
<1>5. MinSegment \in Nat /\ MinSegment * n <= r
  <2>1. n \in Nat BY DEF MaxSegments
  <2> QED BY <1>1, <2>1 DEF MinSegment
<1>6. \A k \in 1 .. n : MinSegment <= lengths[k] BY <1>2, <1>5
<1>7. Len(lengths) = n
  <2>1. n \in Nat BY DEF MaxSegments
  <2> QED BY <1>2, <2>1
<1> QED BY <1>1, <1>2, <1>4, <1>6, <1>7

\* Placing all sessions of a task keeps the books.
LEMMA PlaceSessionsKeeps ==
  ASSUME AllocInv, PlaceSessions
  PROVE  AllocInv' /\ work'.pc = "next"
<1>1. /\ UNCHANGED <<spec, queue, walls, dayStart>> /\ Ahead /\ Blocks = {} /\ At + work.remaining <= Until
      /\ work.remaining >= MinSegment /\ Available >= 1
  BY DEF PlaceSessions
<1>2. AllocTyped /\ work.pc = "placing" /\ Partly BY <1>1 DEF AllocInv, AllocBooks, Ahead
<1>3. PICK a \in Nat, r \in Nat : a = At /\ r = work.remaining /\ r >= 15 BY <1>1, <1>2, AtIs DEF MinSegment
<1>4. PICK e \in Nat : /\ e = FreeEnd(At) /\ e <= DayEnd /\ a + r <= e
                       /\ \A b \in Occupied : ~ (a < b[2] /\ b[1] < e)
  <2>1. work.remaining >= 1 BY <1>3
  <2> QED BY <1>1, <1>3, <2>1, RoomAhead
<1>5. PICK c : c = work.tentative OBVIOUS
<1>6. InRow(c) /\ Len(c) <= 2 /\ TotalOf(c) + r = spec[Primary].minutes BY <1>2, <1>3, <1>5 DEF Partly
<1>7. Available = 3 - Len(c) /\ Len(c) \in {0, 1, 2, 3} BY <1>5, <1>6, TotalTyped DEF Available, MaxSegments
<1>8. Available \in Nat
  <2>1. \A k \in {0, 1, 2, 3} : 3 - k \in Nat OBVIOUS
  <2> QED BY <1>7, <2>1
<1>9. work \in WorkOf(FlexOf) BY <1>2, WorkIs
<1>10. work.preferred \in Nat /\ work.pending \subseteq FlexOf BY <1>9 DEF WorkOf
<1>11. PICK lengths, F, m, others1 :
           /\ lengths = BestLengths(work.remaining, work.preferred, Available)
           /\ F = Between(lengths, FreeEnd(At) - At - work.remaining, FreeEnd(At))
           /\ m = (IF F = {} THEN 0 ELSE spec[Best(F)].minutes)
           /\ others1 = (IF F = {} THEN segments ELSE Filled(Best(F), At + lengths[1]))
           /\ segments' = [others1 EXCEPT ![Primary] = work.tentative \o SessionsFrom(At, lengths, m)]
           /\ work' = [Rest EXCEPT !.pc = "next",
                         !.pending = work.pending \ ({Primary} \cup IF F = {} THEN {} ELSE {Best(F)})]
  BY PlaceSessionsIs
<1>12. PICK n \in 1 .. MaxSegments :
         /\ n <= Available /\ lengths \in [1 .. n -> Nat] /\ Len(lengths) = n
         /\ SumFunction(lengths) = r /\ \A k \in 1 .. n : MinSegment <= lengths[k]
  <2>1. lengths = BestLengths(r, work.preferred, Available) /\ r >= MinSegment BY <1>1, <1>3, <1>11
  <2> QED BY <1>1, <1>8, <1>10, <2>1, PartsOfTheRest
<1>13. n \in Nat /\ 1 \in 1 .. n BY DEF MaxSegments
<1>14. PICK l \in Nat : l = lengths[1] /\ l <= r
  <2>1. lengths[1] \in Nat BY <1>12, <1>13
  <2>2. Preceding(lengths, 1) = 0 /\ Preceding(lengths, 1) + lengths[1] <= SumFunction(lengths)
    BY <1>12, <1>13, SessionsInARow
  <2>3. 0 + lengths[1] <= r BY <1>12, <2>2
  <2> QED BY <2>1, <2>3
<1>15. PICK f : f = Best(F) OBVIOUS
<1>16. ASSUME F # {}
       PROVE  /\ f \in work.pending \ {Primary} /\ f \in FlexOf /\ f \in Ids
              /\ m = spec[f].minutes /\ m \in Nat /\ m >= 1 /\ a + r + m <= e
              /\ dayStart <= a + l /\ a + l + m <= e /\ a + l + m <= DayEnd
  <2>1. /\ F = Fillers(FreeEnd(At) - At - work.remaining, At + lengths[1], FreeEnd(At))
        /\ FreeEnd(At) - At - work.remaining >= MinSegment
    BY <1>11, <1>16 DEF Between
  <2>2. PICK spare \in Nat : spare = e - a - r BY <1>3, <1>4
  <2>3. F = Fillers(spare, a + l, e) BY <1>3, <1>4, <1>14, <2>1, <2>2
  <2>4. F \subseteq work.pending \ {Primary} /\ \A t \in F : MayFill(t, spare, a + l, e)
    BY <2>3 DEF Fillers
  <2>5. PICK p \in Nat : p = a + l OBVIOUS
  <2>6. /\ f \in F /\ f \in FlexOf /\ f \in Ids /\ spec[f].minutes \in Nat
        /\ spec[f].minutes >= 1 /\ spec[f].minutes <= spare
        /\ dayStart <= p /\ p + spec[f].minutes <= e /\ p + spec[f].minutes <= DayEnd
    BY <1>2, <1>15, <1>16, <2>4, <2>5, FillerFits
  <2>7. m = spec[f].minutes BY <1>11, <1>15, <1>16
  <2>8. a + r + m <= e
    <3>1. PICK k \in Nat : k = m /\ k <= spare BY <2>6, <2>7
    <3>2. a + r + k <= e BY <1>4, <2>2, <3>1
    <3> QED BY <3>1, <3>2
  <2> QED BY <2>4, <2>5, <2>6, <2>7, <2>8
<1>17. m \in Nat /\ a + r + m <= e
  <2>1. CASE F = {}
    <3>1. m = 0 BY <1>11, <2>1
    <3> QED BY <1>4, <3>1
  <2>2. CASE F # {} BY <1>16, <2>2
  <2> QED BY <2>1, <2>2
<1>18. PICK s : s = SessionsFrom(a, lengths, m) OBVIOUS
<1>19. Standing(n, lengths, a, m, e, s)
  <2>1. Fitting(n, lengths, a, m, e) BY <1>4, <1>12, <1>17 DEF Fitting
  <2>2. lengths \in [1 .. n -> Nat] /\ m \in Nat BY <1>12, <1>17
  <2> QED BY <1>18, <2>1, <2>2, SessionsStand
<1>20. PICK d : d = c \o s OBVIOUS
<1>21. /\ InRow(d) /\ ToSet(d) = ToSet(c) \cup {s[k] : k \in 1 .. n}
       /\ TotalOf(d) = spec[Primary].minutes /\ d \in Seq(DayIntervals)
  <2>1. Len(c) + n <= MaxSegments BY <1>7, <1>12, <1>13 DEF MaxSegments
  <2>2. \A i \in ToSet(c) : i[2] <= a BY <1>2, <1>3, <1>5, TentativeOfDay
  <2>3. lengths \in [1 .. n -> Nat] /\ m \in Nat BY <1>12, <1>17
  <2>4. Following(n, lengths, c, s) BY <1>6, <1>19, <2>2, <2>3, RestFollows
  <2>5. /\ InRow(c \o s) /\ ToSet(c \o s) = ToSet(c) \cup {s[k] : k \in 1 .. n}
        /\ TotalOf(c \o s) = TotalOf(c) + SumFunction(lengths)
    BY <1>6, <2>1, <2>3, <2>4, RowsJoin
  <2>6. InRow(d) /\ ToSet(d) = ToSet(c) \cup {s[k] : k \in 1 .. n} /\ TotalOf(d) = TotalOf(c) + r
    BY <1>12, <1>20, <2>5
  <2> QED BY <1>6, <2>6 DEF InRow
<1>22. PICK i : i = <<a + l, a + l + m>> OBVIOUS
<1>23. F # {} => i \in DayIntervals /\ i[1] = a + l /\ i[2] = a + l + m /\ Length(i) = m
  <2> SUFFICES ASSUME F # {} PROVE i \in DayIntervals /\ i[1] = a + l /\ i[2] = a + l + m /\ Length(i) = m
    OBVIOUS
  <2>1. PICK p \in Nat : p = a + l OBVIOUS
  <2>2. m \in Nat /\ m >= 1 /\ p + m <= DayEnd BY <1>16, <2>1
  <2>3. p < p + m /\ p + m \in Nat /\ p + m - p = m BY <2>2
  <2>4. i = <<p, p + m>> /\ i \in DayIntervals BY <1>22, <2>1, <2>2, <2>3, IsDayInterval
  <2>5. i[1] = p /\ i[2] = p + m BY <2>4
  <2>6. Length(i) = p + m - p BY <2>2, <2>5 DEF Length
  <2>7. Length(i) = m BY <2>3, <2>6
  <2> QED BY <2>1, <2>4, <2>5, <2>7
<1>24. segments \in [Ids -> Seq(DayIntervals)] BY <1>2 DEF AllocTyped
<1>25. Primary \in Ids /\ Primary \in work.pending BY <1>2, PrimaryIs
<1>26. PICK b : b = <<i>> OBVIOUS
<1>27. F # {} => b \in Seq(DayIntervals) /\ InRow(b) /\ TotalOf(b) = m /\ ToSet(b) = {i}
  BY <1>23, <1>26, OneSession
<1>28. others1 = IF F = {} THEN segments ELSE [segments EXCEPT ![f] = b]
  <2>1. F # {} => Filled(f, At + lengths[1]) = [segments EXCEPT ![f] = b]
    BY <1>3, <1>14, <1>16, <1>22, <1>26 DEF Filled
  <2> QED BY <1>11, <1>15, <2>1
<1>29. segments' = [others1 EXCEPT ![Primary] = d] BY <1>3, <1>5, <1>11, <1>18, <1>20
<1>30. PICK P : P = {Primary} \cup IF F = {} THEN {} ELSE {f} OBVIOUS
<1>31. /\ segments' \in [Ids -> Seq(DayIntervals)] /\ segments'[Primary] = d
       /\ F # {} => segments'[f] = b
       /\ \A t \in Ids \ P : segments'[t] = segments[t]
  <2>1. CASE F = {} BY <1>21, <1>24, <1>25, <1>28, <1>29, <1>30, <2>1
  <2>2. CASE F # {}
    <3>1. b \in Seq(DayIntervals) /\ f \in Ids /\ f # Primary BY <1>16, <1>27, <2>2
    <3>2. others1 = [segments EXCEPT ![f] = b] BY <1>28, <2>2
    <3>3. /\ others1 \in [Ids -> Seq(DayIntervals)] /\ others1[f] = b
          /\ \A t \in Ids \ {f} : others1[t] = segments[t]
      BY <1>24, <3>1, <3>2
    <3> QED BY <1>21, <1>25, <1>29, <1>30, <2>2, <3>1, <3>3
  <2> QED BY <2>1, <2>2
<1>32. P \subseteq work.pending BY <1>16, <1>25, <1>30
<1>33. work' = [Rest EXCEPT !.pc = "next", !.pending = work.pending \ P] BY <1>11, <1>15, <1>30
<1>34. work' \in WorkOf(FlexOf) /\ work'.pc = "next" /\ work'.pending = work.pending \ P
  <2>1. work.pending \ P \in SUBSET FlexOf BY <1>10
  <2> QED BY <1>33, <2>1, NextOf
<1>35. AllocTyped' BY <1>1, <1>2, <1>31, <1>34, StillTyped
<1>36. spec' = spec /\ dayStart' = dayStart BY <1>1
<1>37. /\ dayStart \in Nat /\ dayStart <= a
       /\ \A j \in ToSet(c) : /\ dayStart <= j[1] /\ Length(j) >= MinSegment /\ j \in DayIntervals
                             /\ \A o \in TakenBy(Primary) : ~Meet(j, o)
  BY <1>2, <1>3, <1>5, TentativeOfDay
<1>38. ASSUME NEW k \in 1 .. n
       PROVE  /\ s[k] \in DayIntervals /\ a <= s[k][1] /\ s[k][2] <= e /\ s[k][1] \in Nat
              /\ Length(s[k]) >= MinSegment
              /\ \A o \in TakenBy(Primary) : ~Meet(s[k], o) /\ ~Meet(o, s[k])
              /\ F # {} => ~Meet(s[k], i) /\ ~Meet(i, s[k])
  <2>1. s[k] \in DayIntervals /\ a <= s[k][1] /\ s[k][2] <= e /\ Length(s[k]) = lengths[k]
    BY <1>19 DEF Standing
  <2>2. s[k][1] \in Nat BY <2>1, DayIntervalTyped
  <2>3. \A o \in TakenBy(Primary) : ~Meet(s[k], o) /\ ~Meet(o, s[k])
    BY <1>2, <1>4, <2>1, FreeStretch
  <2>4. ASSUME F # {} PROVE ~Meet(s[k], i)
    <3>1. i[1] = a + l /\ i[2] = a + l + m BY <1>23, <2>4
    <3>2. CASE k = 1
      <4>1. s[k][2] = a + l BY <1>14, <1>19, <3>2 DEF Standing
      <4>2. ~ (i[1] < s[k][2]) BY <3>1, <4>1
      <4> QED BY <4>2 DEF Meet
    <3>3. CASE k # 1
      <4>1. a + l + m <= s[k][1] BY <1>14, <1>19, <3>3 DEF Standing
      <4>2. ~ (s[k][1] < i[2]) BY <1>17, <2>2, <3>1, <4>1
      <4> QED BY <4>2 DEF Meet
    <3> QED BY <3>2, <3>3
  <2>5. Length(s[k]) >= MinSegment BY <1>12, <2>1 DEF MinSegment
  <2> QED BY <2>1, <2>2, <2>3, <2>4, <2>5, MeetBothWays
<1>39. F # {} => \A o \in TakenBy(Primary) \cup ToSet(c) : ~Meet(i, o) /\ ~Meet(o, i)
  <2> SUFFICES ASSUME F # {}, NEW o \in TakenBy(Primary) \cup ToSet(c) PROVE ~Meet(i, o) /\ ~Meet(o, i)
    OBVIOUS
  <2>1. i \in DayIntervals /\ i[1] = a + l /\ i[2] = a + l + m BY <1>23
  <2>2. i[2] <= e BY <1>16, <2>1
  <2>3. a <= i[1] BY <2>1
  <2> QED BY <1>2, <1>4, <1>5, <2>1, <2>2, <2>3, FreeStretch
<1>40. \A p : p = Primary => Placed(p)'
  <2> SUFFICES ASSUME NEW p, p = Primary PROVE Placed(p)' OBVIOUS
  <2>1. ASSUME NEW j \in ToSet(d) PROVE dayStart <= j[1] /\ Length(j) >= MinSegment
    <3>1. CASE j \in ToSet(c) BY <1>37, <3>1
    <3>2. CASE j \notin ToSet(c)
      <4>1. PICK k \in 1 .. n : j = s[k] BY <1>21, <3>2
      <4>2. /\ a <= s[k][1] /\ s[k][1] \in Nat /\ Length(s[k]) >= MinSegment BY <1>38
      <4>3. dayStart <= s[k][1] BY <1>37, <4>2
      <4> QED BY <4>1, <4>2, <4>3
    <3> QED BY <3>1, <3>2
  <2>2. segments'[p] = d /\ InRow(d) /\ TotalOf(d) = spec'[p].minutes BY <1>21, <1>31, <1>36
  <2> QED BY <1>36, <2>1, <2>2 DEF Placed
<1>41. F # {} => Placed(f)'
  <2> SUFFICES ASSUME F # {} PROVE Placed(f)' OBVIOUS
  <2>1. segments'[f] = b /\ InRow(b) /\ TotalOf(b) = spec'[f].minutes BY <1>16, <1>27, <1>31, <1>36
  <2>2. ToSet(b) = {i} /\ dayStart <= i[1] /\ Length(i) = spec'[f].minutes /\ m \in Nat /\ m = spec'[f].minutes
    BY <1>16, <1>23, <1>27, <1>36
  <2>3. m >= 15 \/ m < 15 BY <2>2
  <2>4. Length(i) >= MinSegment \/ spec'[f].minutes < MinSegment BY <2>2, <2>3 DEF MinSegment
  <2> QED BY <1>36, <2>1, <2>2, <2>4 DEF Placed
<1>42. FixedStand' /\ OthersHaveNone' /\ WholeTasks' /\ Apart'
  <2>1. \A t \in P : Placed(t)' BY <1>30, <1>40, <1>41
  <2>2. \A j \in ToSet(d), o \in TakenBy(Primary) : ~Meet(j, o) /\ ~Meet(o, j)
    <3> TAKE j \in ToSet(d), o \in TakenBy(Primary)
    <3>1. CASE j \in ToSet(c) BY <1>37, <3>1, MeetBothWays
    <3>2. CASE j \notin ToSet(c)
      <4>1. PICK k \in 1 .. n : j = s[k] BY <1>21, <3>2
      <4> QED BY <1>38, <4>1
    <3> QED BY <3>1, <3>2
  <2>3. \A t \in P : \A j \in ToSet(segments'[t]), o \in TakenBy(Primary) : ~Meet(j, o) /\ ~Meet(o, j)
    <3> TAKE t \in P
    <3>1. CASE t = Primary
      <4>1. segments'[t] = d BY <1>31, <3>1
      <4> QED BY <2>2, <4>1
    <3>2. CASE t # Primary
      <4>1. F # {} /\ t = f BY <1>30, <3>2
      <4>2. ToSet(segments'[t]) = {i} BY <1>27, <1>31, <4>1
      <4> QED BY <1>39, <4>1, <4>2
    <3> QED BY <3>1, <3>2
  <2>4. F # {} => \A j \in ToSet(d) : ~Meet(j, i) /\ ~Meet(i, j)
    <3> SUFFICES ASSUME F # {}, NEW j \in ToSet(d) PROVE ~Meet(j, i) /\ ~Meet(i, j) OBVIOUS
    <3>1. CASE j \in ToSet(c) BY <1>39, <3>1
    <3>2. CASE j \notin ToSet(c)
      <4>1. PICK k \in 1 .. n : j = s[k] BY <1>21, <3>2
      <4> QED BY <1>38, <4>1
    <3> QED BY <3>1, <3>2
  <2>5. \A t \in P, u \in P : t # u => \A j \in ToSet(segments'[t]), k \in ToSet(segments'[u]) : ~Meet(j, k)
    <3> SUFFICES ASSUME NEW t \in P, NEW u \in P, t # u, NEW j \in ToSet(segments'[t]), NEW k \in ToSet(segments'[u])
                 PROVE  ~Meet(j, k)
      OBVIOUS
    <3>1. F # {} /\ ((t = Primary /\ u = f) \/ (t = f /\ u = Primary)) BY <1>30
    <3>2. ToSet(segments'[f]) = {i} /\ ToSet(segments'[Primary]) = ToSet(d) BY <1>27, <1>31, <3>1
    <3> QED BY <2>4, <3>1, <3>2
  <2> QED BY <1>1, <1>2, <1>31, <1>32, <1>34, <2>1, <2>3, <2>5, PlacesKeep
<1>43. work'.pc # "placing" BY <1>34
<1> QED BY <1>34, <1>35, <1>42, <1>43 DEF AllocInv, AllocBooks

\* A cut leaves something, and stays before the block.
LEMMA CutIsShort ==
  ASSUME AllocInv, Facing, Gap >= MinSegment, NEW most \in Nat,
         most < work.remaining \/ Gap < work.remaining, Cut(most) >= MinSegment
  PROVE  Cut(most) \in Nat /\ Cut(most) <= Gap /\ Cut(most) < work.remaining
<1>1. AllocTyped BY DEF AllocInv
<1>2. PICK a \in Nat, r \in Nat : a = At /\ r = work.remaining BY <1>1, AtIs
<1>3. PICK b \in Nat : b = Block[1] BY <1>1, BlockIs
<1>4. PICK g \in Nat : g = Gap
  <2>1. Gap = b - a BY <1>2, <1>3 DEF Gap
  <2>2. b - a >= 15 BY <2>1 DEF MinSegment
  <2> QED BY <2>1, <2>2
<1>5. PICK x \in Nat : x = Least(g, most) /\ x <= g /\ x < r
  <2>1. most < r \/ g < r BY <1>2, <1>4
  <2>2. CASE g < most BY <2>1, <2>2 DEF Least
  <2>3. CASE ~ (g < most) BY <2>1, <2>3 DEF Least
  <2> QED BY <2>2, <2>3
<1>6. Cut(most) = IF 0 < r - x /\ r - x < 15 THEN x - (15 - (r - x)) ELSE x
  BY <1>2, <1>4, <1>5 DEF Cut, MinSegment
<1>7. Cut(most) >= 15 BY DEF MinSegment
<1>8. CASE r - x < 15
  <2>1. Cut(most) = x - (15 - (r - x)) BY <1>5, <1>6, <1>8
  <2>2. PICK y \in Int : y = x - (15 - (r - x)) OBVIOUS
  <2>3. y >= 15 /\ y <= x BY <1>7, <1>8, <2>1, <2>2
  <2> QED BY <1>2, <1>4, <1>5, <2>1, <2>2, <2>3
<1>9. CASE ~ (r - x < 15) BY <1>2, <1>4, <1>5, <1>6, <1>9
<1> QED BY <1>8, <1>9

LEMMA RoomForMore ==
  ASSUME AllocInv, work.pc = "placing", Available > 1
  PROVE  Len(work.tentative) <= 1 /\ Available \in Nat
<1>1. InRow(work.tentative) BY DEF AllocInv, AllocBooks, Partly
<1>2. Available = 3 - Len(work.tentative) /\ Len(work.tentative) \in {0, 1, 2, 3}
  BY <1>1, TotalTyped DEF Available, MaxSegments
<1>3. \A k \in {0, 1, 2, 3} : 3 - k > 1 => k <= 1 /\ 3 - k \in Nat OBVIOUS
<1> QED BY <1>2, <1>3

\* A session up to the next interval, by choice.
LEMMA SplitAtBlockKeeps ==
  ASSUME AllocInv, SplitAtBlock
  PROVE  AllocInv' /\ work'.remaining < work.remaining
<1>1. Facing /\ PrefersSplit /\ Split(Cut(FirstSession)) BY DEF SplitAtBlock
<1>2. work.pc = "placing" /\ AllocTyped BY <1>1 DEF Facing, Ahead, AllocInv
<1>3. /\ work.remaining >= MinSegment /\ Available > 1 /\ Gap >= MinSegment
      /\ FirstSession < work.remaining /\ Cut(FirstSession) >= MinSegment
  BY <1>1 DEF PrefersSplit
<1>4. Len(work.tentative) <= 1 /\ Available \in Nat BY <1>2, <1>3, RoomForMore
<1>5. FirstSession \in Nat
  <2>1. work.preferred \in Nat
    <3>1. work \in WorkOf(FlexOf) BY <1>2, WorkIs
    <3> QED BY <3>1 DEF WorkOf
  <2>2. work.remaining \in Nat BY <1>2, AtIs
  <2>3. Available >= 1 BY <1>3, <1>4
  <2>4. PICK lengths : lengths = BestLengths(work.remaining, work.preferred, Available) OBVIOUS
  <2>5. PICK n \in 1 .. MaxSegments : lengths \in [1 .. n -> Nat]
    BY <1>3, <1>4, <2>1, <2>2, <2>3, <2>4, PartsOfTheRest
  <2>6. 1 \in 1 .. n BY DEF MaxSegments
  <2>7. lengths[1] \in Nat BY <2>5, <2>6
  <2> QED BY <2>4, <2>7 DEF FirstSession
<1>6. /\ Cut(FirstSession) \in Nat /\ Cut(FirstSession) <= Gap /\ Cut(FirstSession) < work.remaining
  BY <1>1, <1>3, <1>5, CutIsShort
<1> QED BY <1>1, <1>3, <1>4, <1>6, SplitKeeps

\* A session up to the next interval, where the task cannot stay whole.
LEMMA ForceSplitKeeps ==
  ASSUME AllocInv, ForceSplit
  PROVE  AllocInv' /\ work'.remaining < work.remaining
<1>1. /\ Facing /\ Available > 1 /\ Gap >= MinSegment /\ Cut(work.remaining) >= MinSegment
      /\ Split(Cut(work.remaining))
  BY DEF ForceSplit, MustSplit, Stuck
<1>2. work.pc = "placing" /\ AllocTyped BY <1>1 DEF Facing, Ahead, AllocInv
<1>3. Len(work.tentative) <= 1 BY <1>1, <1>2, RoomForMore
<1>4. work.remaining \in Nat BY <1>2, AtIs
<1>5. Gap < work.remaining
  <2>1. PICK a \in Nat, r \in Nat : a = At /\ r = work.remaining BY <1>2, AtIs
  <2>2. PICK b \in Nat : b = Block[1] /\ b < a + r BY <1>1, <1>2, <2>1, BlockIs
  <2>3. b - a < r BY <2>2
  <2> QED BY <2>1, <2>2, <2>3 DEF Gap
<1>6. /\ Cut(work.remaining) \in Nat /\ Cut(work.remaining) <= Gap /\ Cut(work.remaining) < work.remaining
  BY <1>1, <1>4, <1>5, CutIsShort
<1> QED BY <1>1, <1>3, <1>6, SplitKeeps

\* Going on to the next window or over a gap moves the cursor and no book.
LEMMA SkipsKeep ==
  ASSUME AllocInv, SkipToWindow \/ SkipGap
  PROVE  AllocInv' /\ work'.cursor > work.cursor
<1>1. Facing BY DEF SkipToWindow, SkipGap, Stuck, MustSplit
<1>2. work.pc = "placing" /\ AllocTyped BY <1>1 DEF Facing, Ahead, AllocInv
<1>3. PICK c \in Nat, a \in Nat : c = work.cursor /\ a = At /\ c <= a BY <1>2, AtIs
<1>4. PICK e \in Nat : e = Block[2] /\ a < e BY <1>1, <1>2, <1>3, BlockIs
<1>5. CASE SkipGap
  <2>1. GoTo(e) BY <1>4, <1>5 DEF SkipGap
  <2>2. work.cursor < e BY <1>3, <1>4
  <2> QED BY <1>2, <2>1, <2>2, GoToKeeps
<1>6. CASE SkipToWindow
  <2>1. Later # {} /\ GoTo(Min(Later)) BY <1>6 DEF SkipToWindow
  <2>2. ASSUME NEW x \in Later PROVE x \in Nat /\ e <= x
    <3>1. x = e \/ \E i \in Occupied : x = i[2] /\ i[2] > e
      BY <1>4, <2>2 DEF Later, LaterWindows
    <3>2. \A i \in Occupied : i[2] \in Nat
      <4> TAKE i \in Occupied
      <4>1. i \in DayIntervals BY <1>2, OccupiedCovers
      <4> QED BY <4>1, DayIntervalTyped
    <3>3. CASE x = e BY <3>3
    <3>4. CASE \E i \in Occupied : x = i[2] /\ i[2] > e BY <3>2, <3>4
    <3> QED BY <3>1, <3>3, <3>4
  <2>3. PICK x : x = Min(Later) OBVIOUS
  <2>4. x \in Later
    <3>1. Later \subseteq Nat BY <2>2
    <3> QED BY <2>1, <2>3, <3>1, MinIsLeast
  <2>5. x \in Nat /\ work.cursor < x BY <1>3, <1>4, <2>2, <2>4
  <2> QED BY <1>2, <2>1, <2>3, <2>5, GoToKeeps
<1> QED BY <1>5, <1>6

\* A pass begins with its books in agreement.
LEMMA BeginKeeps ==
  ASSUME AllocInv, Begin
  PROVE  AllocInv' /\ work.pc # "placing"
<1>1. /\ work.pc = "next" /\ work.pending # {}
      /\ UNCHANGED <<spec, queue, walls, dayStart>> /\ segments' = segments
  BY DEF Begin
<1>2. AllocTyped /\ FixedStand /\ OthersHaveNone /\ WholeTasks /\ Apart BY DEF AllocInv, AllocBooks
<1>3. work \in WorkOf(FlexOf) BY <1>2, WorkIs
<1>4. PICK t : t = FirstIn(queue, work.pending) OBVIOUS
<1>5. t \in work.pending
  <2>1. \A u \in work.pending : queue[u] \in Nat
    <3>1. work.pending \subseteq DOMAIN queue BY <1>3 DEF WorkOf, FlexOf
    <3> QED BY <1>2, <3>1 DEF AllocTyped
  <2>2. PICK X : X = {queue[u] : u \in work.pending} OBVIOUS
  <2>3. X \subseteq Nat /\ X # {} BY <1>1, <2>1, <2>2
  <2>4. PICK k \in X : \A j \in X : k <= j BY <2>3, LeastMember
  <2>5. \E u \in work.pending : \A v \in work.pending : queue[u] <= queue[v] BY <2>2, <2>4
  <2>6. t = CHOOSE u \in work.pending : \A v \in work.pending : queue[u] <= queue[v]
    BY <1>4, Zenon DEF FirstIn
  <2> QED BY <2>5, <2>6, Zenon
<1>6. t \in FlexOf /\ t \in Ids /\ t \in Nat BY <1>2, <1>3, <1>5, AllocationAssumption DEF WorkOf, FlexOf, AllocTyped
<1>7. spec[t] \in Task BY <1>2, <1>6 DEF AllocTyped
<1>8. PICK m \in Nat, s \in Nat : m = spec[t].minutes /\ s = spec[t].earliest /\ m >= 1 BY <1>7 DEF Task
<1>9. dayStart \in Nat BY <1>2 DEF AllocTyped
<1>10. PICK c \in Nat : c = EarliestOf(t) /\ dayStart <= c BY <1>8, <1>9 DEF EarliestOf, Most
<1>11. PICK p \in Nat : p = PreferredMinutes(spec[t].minutes, spec[t].nature,
                                FreeMinutes(EarliestOf(t), Merged(Taken(t)), LatestOf(t)),
                                spec[t].deadline # Never)
  BY <1>8, PreferredTyped
<1>12. PICK n : n = <<>> /\ n \in Seq(DayIntervals)
  <2>1. <<>> \in Seq(DayIntervals) OBVIOUS
  <2> QED BY <2>1
<1>13. work' = [work EXCEPT !.pc = "placing", !.primary = t, !.remaining = m,
                   !.tentative = n, !.cursor = c, !.preferred = p]
  BY <1>4, <1>8, <1>10, <1>11, <1>12 DEF Begin
<1>14. /\ work' \in WorkOf(FlexOf) /\ work'.pc = "placing" /\ work'.primary = t
       /\ work'.pending = work.pending /\ work'.tentative = n
       /\ work'.remaining = m /\ work'.cursor = c
  BY <1>3, <1>6, <1>12, <1>13 DEF WorkOf
<1>15. AllocTyped' BY <1>1, <1>2, <1>5, <1>14, StillTyped DEF AllocTyped
<1>16. FixedStand' /\ WholeTasks' /\ Apart' BY <1>1, <1>2, SameSegments
<1>17. OthersHaveNone' BY <1>1, <1>2, <1>14 DEF OthersHaveNone
<1>18. Partly'
  <2>1. Len(n) = 0 /\ ToSet(n) = {} BY <1>12 DEF ToSet
  <2>2. InRow(n) /\ TotalOf(n) = 0 BY <1>12, <2>1 DEF InRow, TotalOf, MaxSegments
  <2>3. spec'[work'.primary].minutes = m /\ dayStart' = dayStart BY <1>1, <1>8, <1>14
  <2> QED BY <1>8, <1>10, <1>14, <2>1, <2>2, <2>3 DEF Partly, Primary
<1> QED BY <1>1, <1>14, <1>15, <1>16, <1>17, <1>18 DEF AllocInv, AllocBooks

\* What a pass of the inner loop has to show.
Advance ==
  \/ work'.remaining < work.remaining \/ work'.cursor > work.cursor
  \/ Cardinality(work'.pending) < Cardinality(work.pending)

\* Every step of the allocator keeps the books and advances.
LEMMA StepKeeps ==
  ASSUME AllocInv, AllocationStep
  PROVE  /\ AllocInv'
         /\ work.pc = "placing" /\ work'.pc = "placing" => Advance
<1>1. CASE Begin BY <1>1, BeginKeeps
<1>2. CASE OutOfDay \/ NoPlaceLeft \/ NotEnough \/ CapReached
  <2>1. PICK cause : Unplaced(cause) BY <1>2 DEF OutOfDay, NoPlaceLeft, NotEnough, CapReached
  <2>2. work.pc = "placing"
    BY <1>2 DEF OutOfDay, NoPlaceLeft, NotEnough, CapReached, MustSplit, Stuck, Facing, Ahead
  <2>3. AllocInv' /\ work'.pc = "next" BY <2>1, <2>2, UnplacedKeeps
  <2> QED BY <2>3
<1>3. CASE PlaceSessions BY <1>3, PlaceSessionsKeeps
<1>4. CASE SplitAtBlock BY <1>4, SplitAtBlockKeeps DEF Advance
<1>5. CASE ForceSplit BY <1>5, ForceSplitKeeps DEF Advance
<1>6. CASE SkipToWindow \/ SkipGap BY <1>6, SkipsKeep DEF Advance
<1>7. CASE FillGap
  <2>1. AllocInv' /\ work'.pending \subseteq work.pending /\ work'.pending # work.pending
    BY <1>7, FillGapKeeps
  <2>2. IsFiniteSet(work.pending)
    <3>1. work.pending \subseteq Ids BY DEF AllocInv, AllocTyped, WorkTyped, FlexOf
    <3> QED BY <3>1, AllocationAssumption, FS_Subset
  <2>3. PICK x : x \in work.pending /\ x \notin work'.pending BY <2>1
  <2>4. Cardinality(work.pending \ {x}) = Cardinality(work.pending) - 1 /\ IsFiniteSet(work.pending \ {x})
    BY <2>2, <2>3, FS_RemoveElement
  <2>5. Cardinality(work'.pending) <= Cardinality(work.pending \ {x})
    <3>1. work'.pending \subseteq work.pending \ {x} BY <2>1, <2>3
    <3> QED BY <2>4, <3>1, FS_Subset
  <2>6. Cardinality(work.pending) \in Nat /\ Cardinality(work'.pending) \in Nat
    <3>1. IsFiniteSet(work'.pending) BY <2>1, <2>2, FS_Subset
    <3> QED BY <2>2, <3>1, FS_CardinalityType
  <2>7. Cardinality(work'.pending) < Cardinality(work.pending) BY <2>4, <2>5, <2>6
  <2> QED BY <2>1, <2>7 DEF Advance
<1> QED BY <1>1, <1>2, <1>3, <1>4, <1>5, <1>6, <1>7 DEF AllocationStep

LEMMA Untouched == ASSUME NEW c, c = <<>> PROVE InRow(c) /\ TotalOf(c) = 0 /\ ToSet(c) = {}
<1>1. <<>> \in Seq(DayIntervals) OBVIOUS
<1>2. c \in Seq(DayIntervals) /\ Len(c) = 0 BY <1>1
<1>3. InRow(c) /\ TotalOf(c) = 0 BY <1>2 DEF InRow, TotalOf, MaxSegments
<1>4. ToSet(c) = {} BY DEF ToSet
<1> QED BY <1>3, <1>4

\* An allocation begins with nothing placed but the Fixed tasks.
LEMMA AllocateKeeps ==
  ASSUME NEW view \in [Ids -> Task], NEW D, D \subseteq Ids, NEW tasks \in [D -> Nat],
         NEW around, around \subseteq DayIntervals, NEW from \in Nat,
         Allocate(view, tasks, around, from)
  PROVE  /\ AllocInv' /\ work'.pc = "next"
         /\ spec' = view /\ DOMAIN queue' = D /\ walls' = around /\ dayStart' = from
<1>1. spec' = view /\ queue' = tasks /\ walls' = around /\ dayStart' = from /\ DOMAIN tasks = D
  BY DEF Allocate
<1>2. /\ segments' = [t \in Ids |-> IF t \in D /\ view[t].fixed # <<>> THEN <<view[t].fixed>> ELSE <<>>]
      /\ work' = [Rest EXCEPT !.pc = "next", !.pending = {t \in D : view[t].fixed = <<>>}]
  BY <1>1 DEF Allocate
<1>3. PICK Q : Q = {t \in D : view[t].fixed = <<>>} OBVIOUS
<1>4. FlexOf' = Q /\ \A t : Fixed(t)' <=> view[t].fixed # <<>>
  BY <1>1, <1>3 DEF FlexOf, Fixed
<1>5. work' \in WorkOf(Q) /\ work'.pc = "next" /\ work'.pending = Q
  <2>1. Q \in SUBSET Q OBVIOUS
  <2>2. work' = [Rest EXCEPT !.pc = "next", !.pending = Q] BY <1>2, <1>3
  <2> QED BY <2>1, <2>2, NextOf
<1>6. ASSUME NEW t \in D, view[t].fixed # <<>>
      PROVE  view[t].fixed \in DayIntervals /\ segments'[t] = <<view[t].fixed>>
  <2>1. view[t] \in Task /\ t \in Ids OBVIOUS
  <2>2. view[t].fixed \in DayIntervals BY <1>6, <2>1 DEF Task
  <2>3. segments'[t] = <<view[t].fixed>> BY <1>2, <1>6, <2>1
  <2> QED BY <2>2, <2>3
<1>7. \A t \in Ids : t \notin D \/ t \in Q => segments'[t] = <<>>
  BY <1>2, <1>3
<1>8. segments' \in [Ids -> Seq(DayIntervals)]
  <2>1. <<>> \in Seq(DayIntervals) OBVIOUS
  <2>2. ASSUME NEW t \in Ids PROVE segments'[t] \in Seq(DayIntervals)
    <3>1. CASE t \in D /\ view[t].fixed # <<>>
      <4>1. PICK i \in DayIntervals : segments'[t] = <<i>> BY <1>6, <3>1
      <4> QED BY <4>1
    <3>2. CASE ~ (t \in D /\ view[t].fixed # <<>>)
      <4>1. segments'[t] = <<>> BY <1>2, <3>2
      <4> QED BY <2>1, <4>1
    <3> QED BY <3>1, <3>2
  <2>3. DOMAIN segments' = Ids BY <1>2
  <2>4. segments' = [t \in Ids |-> segments'[t]] BY <1>2
  <2> QED BY <2>2, <2>4
<1>9. WorkTyped'
  <2>1. work'.pc # "placing" BY <1>5
  <2> QED BY <1>4, <1>5, <2>1 DEF WorkTyped, WorkOf
<1>10. AllocTyped' BY <1>1, <1>8, <1>9 DEF AllocTyped
<1>11. FixedStand' BY <1>1, <1>4, <1>6 DEF FixedStand
<1>12. OthersHaveNone' BY <1>1, <1>5, <1>7 DEF OthersHaveNone
<1>13. \A t \in Q : segments'[t] = <<>> BY <1>3, <1>7
<1>14. WholeTasks' BY <1>4, <1>13 DEF WholeTasks
<1>15. Apart'
  <2>1. \A t \in Q : ToSet(segments'[t]) = {} BY <1>13, Untouched
  <2> QED BY <1>4, <2>1 DEF Apart
<1>16. work'.pc # "placing" BY <1>5
<1> QED BY <1>1, <1>5, <1>10, <1>11, <1>12, <1>14, <1>15, <1>16 DEF AllocInv, AllocBooks

LEMMA StepInputs ==
  ASSUME AllocationStep
  PROVE  UNCHANGED <<spec, queue, walls, dayStart>>
<1>1. CASE Begin BY <1>1 DEF Begin
<1>2. CASE OutOfDay BY <1>2 DEF OutOfDay, Unplaced
<1>3. CASE PlaceSessions BY <1>3 DEF PlaceSessions
<1>4. CASE NoPlaceLeft BY <1>4 DEF NoPlaceLeft, Unplaced
<1>5. CASE SplitAtBlock BY <1>5 DEF SplitAtBlock, Split
<1>6. CASE FillGap BY <1>6 DEF FillGap
<1>7. CASE SkipToWindow BY <1>7 DEF SkipToWindow, GoTo
<1>8. CASE NotEnough BY <1>8 DEF NotEnough, Unplaced
<1>9. CASE CapReached BY <1>9 DEF CapReached, Unplaced
<1>10. CASE SkipGap BY <1>10 DEF SkipGap, GoTo
<1>11. CASE ForceSplit BY <1>11 DEF ForceSplit, Split
<1> QED BY <1>1, <1>2, <1>3, <1>4, <1>5, <1>6, <1>7, <1>8, <1>9, <1>10, <1>11 DEF AllocationStep

LEMMA RestIs == Rest.pc = "rest" /\ Rest.pending = {} /\ \A F : Rest \in WorkOf(F)
<1>1. <<>> \in Seq(DayIntervals) OBVIOUS
<1> QED BY <1>1 DEF Rest, WorkOf

\* The allocator rests, its last result still there.
LEMMA RestKeeps ==
  ASSUME AllocInv, work' = Rest, UNCHANGED <<spec, queue, walls, dayStart, segments>>
  PROVE  AllocInv'
<1>1. AllocTyped /\ FixedStand /\ OthersHaveNone /\ WholeTasks /\ Apart BY DEF AllocInv, AllocBooks
<1>2. UNCHANGED <<spec, queue, walls, dayStart>> /\ segments' = segments OBVIOUS
<1>3. work' \in WorkOf(FlexOf) /\ work'.pc # "placing" /\ work'.pending = {} BY RestIs
<1>4. AllocTyped' BY <1>1, <1>2, <1>3, StillTyped DEF AllocTyped
<1>5. FixedStand' /\ WholeTasks' /\ Apart' BY <1>1, <1>2, SameSegments
<1>6. OthersHaveNone' BY <1>1, <1>2, <1>3 DEF OthersHaveNone
<1> QED BY <1>3, <1>4, <1>5, <1>6 DEF AllocInv, AllocBooks

LEMMA AllocVarsStay ==
  ASSUME AllocInv, UNCHANGED allocVars
  PROVE  AllocInv'
<1>1. /\ spec' = spec /\ queue' = queue /\ walls' = walls /\ dayStart' = dayStart
      /\ segments' = segments /\ work' = work
  BY DEF allocVars
<1>2. AllocTyped /\ FixedStand /\ OthersHaveNone /\ WholeTasks /\ Apart BY DEF AllocInv, AllocBooks
<1>3. UNCHANGED <<spec, queue, walls, dayStart>> BY <1>1
<1>4. AllocTyped'
  <2>1. work \in WorkOf(FlexOf) BY <1>2, WorkIs
  <2> QED BY <1>1, <1>2, <1>3, <2>1, StillTyped DEF AllocTyped, WorkTyped, Primary
<1>5. FixedStand' /\ WholeTasks' /\ Apart' /\ \A t : TakenBy(t)' = TakenBy(t)
  BY <1>1, <1>2, <1>3, SameSegments
<1>6. OthersHaveNone' BY <1>1, <1>2 DEF OthersHaveNone
<1>7. work.pc = "placing" => Partly'
  <2> SUFFICES ASSUME work.pc = "placing" PROVE Partly' OBVIOUS
  <2>1. Partly BY DEF AllocInv, AllocBooks
  <2>2. Primary' = Primary BY <1>1 DEF Primary
  <2>3. TakenBy(Primary)' = TakenBy(Primary) BY <1>5, <2>2
  <2> QED BY <1>1, <2>1, <2>2, <2>3, Zenon DEF Partly
<1> QED BY <1>1, <1>4, <1>5, <1>6, <1>7 DEF AllocInv, AllocBooks

-----------------------------------------------------------------------------
(* The operations of a day: DayPlanning *)

\* The operations of a day: where tasks stand, and what each operation has asked
\* of the allocator.

\* The validation adds the minutes of a row as those of a set of intervals.
IterOf(S) == CHOOSE g : g = [s \in SUBSET S |->
               IF s = {} THEN 0 ELSE Length(CHOOSE x \in s : TRUE) + g[s \ {CHOOSE x \in s : TRUE}]]

\* The minutes of a set of sessions, as a sum over it.
LEMMA LengthsAreSums ==
  ASSUME NEW S, NEW f, f = [i \in S |-> Length(i)]
  PROVE  MapThenSumSet(Length, S) = Sum(f, S)
<1>1. MapThenSumSet(Length, S) = IterOf(S)[S]
  BY Zenon DEF IterOf, MapThenSumSet, MapThenFoldSet
<1>2. \A s \in SUBSET S : \A g : Body(f, g, s)
        = IF s = {} THEN 0 ELSE Length(CHOOSE x \in s : TRUE) + g[s \ {CHOOSE x \in s : TRUE}]
  <2> TAKE s \in SUBSET S
  <2> TAKE g
  <2>1. CASE s = {} BY <2>1 DEF Body
  <2>2. CASE s # {}
    <3>1. PICK c : c = (CHOOSE x \in s : TRUE) OBVIOUS
    <3>2. c \in S BY <2>2, <3>1
    <3>3. f[c] = Length(c) BY <3>2
    <3> QED BY <2>2, <3>1, <3>3 DEF Body
  <2> QED BY <2>1, <2>2
<1>3. \A g : [s \in SUBSET S |-> Body(f, g, s)] = [s \in SUBSET S |->
         IF s = {} THEN 0 ELSE Length(CHOOSE x \in s : TRUE) + g[s \ {CHOOSE x \in s : TRUE}]]
  BY <1>2, Zenon
<1>4. Iter(f, S) = IterOf(S) BY <1>3, Zenon DEF Iter, IterOf
<1> QED BY <1>1, <1>4, SumIsIter

\* The minutes of a row, whether counted as a set or as a sequence.
LEMMA RowMinutes ==
  ASSUME NEW c, InRow(c)
  PROVE  MapThenSumSet(Length, ToSet(c)) = TotalOf(c)
<1>1. /\ TotalOf(c) \in Int /\ c \in Seq(DayIntervals) /\ Len(c) \in {0, 1, 2, 3} /\ DOMAIN c = 1 .. Len(c)
      /\ \A k \in 1 .. Len(c) : /\ c[k] \in DayIntervals /\ c[k][1] \in Nat /\ c[k][2] \in Nat
                                /\ Length(c[k]) \in Int
  BY TotalTyped
<1>2. PICK S : S = ToSet(c) OBVIOUS
<1>3. PICK f : f = [i \in S |-> Length(i)] OBVIOUS
<1>4. MapThenSumSet(Length, S) = Sum(f, S) BY <1>3, LengthsAreSums
<1>5. \A k \in 1 .. Len(c) : /\ c[k] \in S /\ f[c[k]] = Length(c[k]) /\ f[c[k]] \in Int
                             /\ c[k][1] \in Nat /\ c[k][2] \in Nat /\ c[k][1] < c[k][2]
  <2> TAKE k \in 1 .. Len(c)
  <2>1. c[k] \in S BY <1>1, <1>2 DEF ToSet
  <2>2. f[c[k]] = Length(c[k]) BY <1>3, <2>1
  <2>3. c[k][1] < c[k][2] BY <1>1, DayIntervalTyped
  <2> QED BY <1>1, <2>1, <2>2, <2>3
<1>6. S = {c[k] : k \in 1 .. Len(c)} BY <1>1, <1>2 DEF ToSet
<1>7. \A x \in S : f[x] \in Int BY <1>5, <1>6
<1>8. CASE Len(c) = 0
  <2>1. S = {} BY <1>6, <1>8
  <2>2. Sum(f, S) = 0 BY <2>1, SumEmpty, Zenon
  <2> QED BY <1>2, <1>4, <1>8, <2>2 DEF TotalOf
<1>9. CASE Len(c) = 1
  <2>1. 1 \in 1 .. Len(c) BY <1>9
  <2>2. S = {c[1]} BY <1>6, <1>9
  <2>3. IsFiniteSet(S) /\ c[1] \in S BY <2>2, FS_Singleton
  <2>4. Sum(f, S) = f[c[1]] + Sum(f, S \ {c[1]}) BY <1>7, <2>3, SumRemove
  <2>5. S \ {c[1]} = {} BY <2>2
  <2>6. Sum(f, S \ {c[1]}) = 0 BY <2>5, SumEmpty, Zenon
  <2>7. TotalOf(c) = Length(c[1]) BY <1>9 DEF TotalOf
  <2> QED BY <1>2, <1>4, <1>5, <2>1, <2>4, <2>6, <2>7
<1>10. CASE Len(c) = 2
  <2>1. 1 \in 1 .. Len(c) /\ 2 \in 1 .. Len(c) BY <1>10
  <2>2. S = {c[1], c[2]} BY <1>6, <1>10
  <2>3. c[1] # c[2]
    <3>1. c[1][2] <= c[2][1] BY <1>10 DEF InRow
    <3> QED BY <1>5, <2>1, <3>1
  <2>4. S \ {c[2]} = {c[1]} /\ {c[1]} \ {c[1]} = {} BY <2>2, <2>3
  <2>5. IsFiniteSet({c[1]}) /\ IsFiniteSet(S)
    <3>1. IsFiniteSet({c[1]}) BY FS_Singleton
    <3>2. S = {c[1]} \cup {c[2]} BY <2>2
    <3> QED BY <3>1, <3>2, FS_AddElement
  <2>6. Sum(f, S) = f[c[2]] + Sum(f, S \ {c[2]}) BY <1>7, <2>2, <2>5, SumRemove
  <2>7. Sum(f, {c[1]}) = f[c[1]] + Sum(f, {c[1]} \ {c[1]}) BY <1>7, <2>2, <2>5, SumRemove
  <2>8. Sum(f, {c[1]} \ {c[1]}) = 0 BY <2>4, SumEmpty, Zenon
  <2>9. Sum(f, S \ {c[2]}) = Sum(f, {c[1]}) BY <2>4, Zenon
  <2>10. TotalOf(c) = Length(c[1]) + Length(c[2]) BY <1>10 DEF TotalOf
  <2>11. PICK a \in Int, b \in Int : a = Length(c[1]) /\ b = Length(c[2]) BY <1>1, <2>1
  <2>12. Sum(f, S) = b + (a + 0) BY <1>5, <2>1, <2>6, <2>7, <2>8, <2>9, <2>11
  <2> QED BY <1>2, <1>4, <2>10, <2>11, <2>12
<1>11. CASE Len(c) = 3
  <2>1. 1 \in 1 .. Len(c) /\ 2 \in 1 .. Len(c) /\ 3 \in 1 .. Len(c) BY <1>11
  <2>2. S = {c[1], c[2], c[3]} BY <1>6, <1>11
  <2>3. c[1] # c[2] /\ c[2] # c[3] /\ c[1] # c[3]
    <3>1. c[1][2] <= c[2][1] /\ c[2][2] <= c[3][1] BY <1>11 DEF InRow
    <3>2. /\ c[1][1] \in Nat /\ c[1][2] \in Nat /\ c[2][1] \in Nat /\ c[2][2] \in Nat /\ c[3][1] \in Nat
          /\ c[1][1] < c[1][2] /\ c[2][1] < c[2][2]
      BY <1>5, <2>1
    <3>3. c[1][1] < c[2][1] /\ c[2][1] < c[3][1] /\ c[1][1] < c[3][1] BY <3>1, <3>2
    <3> QED BY <3>2, <3>3
  <2>4. S \ {c[3]} = {c[1], c[2]} /\ {c[1], c[2]} \ {c[2]} = {c[1]} /\ {c[1]} \ {c[1]} = {} BY <2>2, <2>3
  <2>5. IsFiniteSet({c[1]}) /\ IsFiniteSet({c[1], c[2]}) /\ IsFiniteSet(S)
    <3>1. IsFiniteSet({c[1]}) BY FS_Singleton
    <3>2. {c[1], c[2]} = {c[1]} \cup {c[2]} /\ S = {c[1], c[2]} \cup {c[3]} BY <2>2
    <3>3. IsFiniteSet({c[1], c[2]}) BY <3>1, <3>2, FS_AddElement
    <3> QED BY <3>1, <3>2, <3>3, FS_AddElement
  <2>6. Sum(f, S) = f[c[3]] + Sum(f, S \ {c[3]}) BY <1>7, <2>2, <2>5, SumRemove
  <2>7. Sum(f, {c[1], c[2]}) = f[c[2]] + Sum(f, {c[1], c[2]} \ {c[2]}) BY <1>7, <2>2, <2>5, SumRemove
  <2>8. Sum(f, {c[1]}) = f[c[1]] + Sum(f, {c[1]} \ {c[1]}) BY <1>7, <2>2, <2>5, SumRemove
  <2>9. Sum(f, {c[1]} \ {c[1]}) = 0 BY <2>4, SumEmpty, Zenon
  <2>10. Sum(f, S \ {c[3]}) = Sum(f, {c[1], c[2]}) /\ Sum(f, {c[1], c[2]} \ {c[2]}) = Sum(f, {c[1]})
    BY <2>4, Zenon
  <2>11. TotalOf(c) = Length(c[1]) + Length(c[2]) + Length(c[3]) BY <1>11 DEF TotalOf
  <2>12. PICK a \in Int, b \in Int, d \in Int : a = Length(c[1]) /\ b = Length(c[2]) /\ d = Length(c[3])
    BY <1>1, <2>1
  <2>13. Sum(f, S) = d + (b + (a + 0)) BY <1>5, <2>1, <2>6, <2>7, <2>8, <2>9, <2>10, <2>12
  <2> QED BY <1>2, <1>4, <2>11, <2>12, <2>13
<1> QED BY <1>1, <1>8, <1>9, <1>10, <1>11

\* A task that stands where its row says, and where a Flexible one may be.
Still(t) == task[t].fixed # <<>>
Clear(i, T) == \A k \in T : ~Meet(i, k)
WellPlaced(t, c) ==
  /\ InRow(c) /\ (c # <<>> => TotalOf(c) = task[t].minutes)
  /\ \A i \in ToSet(c) : /\ Earliest <= i[1] /\ (Length(i) >= MinSegment \/ task[t].minutes < MinSegment)
                         /\ Clear(i, calendar)

DayTyped ==
  /\ task \in [Ids -> Task] /\ calendar \subseteq DayIntervals
  /\ status \in [Ids -> {"absent", "pending", "started", "ended"}]
  /\ day \in [Ids -> Seq(DayIntervals)] /\ loose \subseteq Ids

RowsPlaced ==
  \A t \in Ids : /\ t \notin Present => day[t] = <<>>
                 /\ t \in Present /\ Still(t) => day[t] = <<task[t].fixed>>
                 /\ t \in Present /\ ~Still(t) => WellPlaced(t, day[t])
OnlyLooseMeet ==
  \A t, u \in Present : t # u /\ ~Still(t) =>
    \A i \in ToSet(day[t]), j \in ToSet(day[u]) : Meet(i, j) => t \in loose \/ u \in loose

\* What the allocator has been asked for.
Planning(Q, W) ==
  /\ DOMAIN queue = Q /\ walls = W /\ Earliest <= dayStart
  /\ \A t \in Q : spec[t].minutes = task[t].minutes /\ spec[t].fixed = task[t].fixed

\* What stays where it is, while tasks are placed again.
Around(T) == calendar \cup SegmentsOf(Present \ T)

AddBooks(t, R) ==
  /\ t \in Ids \ Present /\ R \subseteq Present /\ (\A u \in R : ~Still(u))
  /\ Planning(R \cup {t}, Around(R))
  /\ Still(t) => R = {} /\ Clear(task[t].fixed, Around({}))

MoveBooks(t, R, start) ==
  /\ t \in Present /\ R \subseteq Present \ {t} /\ (\A u \in R \cup {t} : ~Still(u))
  /\ Pinned(t, start) \in DayIntervals /\ Earliest <= start
  /\ Clear(Pinned(t, start), Around(R \cup {t}))
  /\ R # {} => Planning(R, Around(R \cup {t}) \cup {Pinned(t, start)})

OpBooks ==
  \/ op = NoOp
  \/ op = [kind |-> "schedule"] /\ Planning(Present, calendar)
  \/ \E t \in Ids : op = [kind |-> "provisional", task |-> t] /\ ~Still(t) /\ AddBooks(t, {})
  \/ \E t \in Ids, R \in SUBSET Ids : op = [kind |-> "add", task |-> t, replan |-> R] /\ AddBooks(t, R)
  \/ \E t \in Ids, s \in Starts, R \in SUBSET Ids :
       op = [kind |-> "move", task |-> t, start |-> s, replan |-> R] /\ MoveBooks(t, R, s)

DayInv == AllocInv /\ DayTyped /\ RowsPlaced /\ OnlyLooseMeet /\ OpBooks

\* What the allocator returns, in terms of the rows it was asked about.
LEMMA ResultIs ==
  ASSUME AllocInv, Allocated, DayTyped, NEW Q, Q \subseteq Ids, NEW W, Planning(Q, W), calendar \subseteq W
  PROVE  /\ \A t \in Q : /\ segments[t] \in Seq(DayIntervals)
                         /\ Still(t) => segments[t] = <<task[t].fixed>>
                         /\ ~Still(t) => WellPlaced(t, segments[t])
         /\ \A t \in Q : ~Still(t) => \A i \in ToSet(segments[t]) :
              /\ Clear(i, W)
              /\ \A u \in Q \ {t} : \A j \in ToSet(segments[u]) : ~Meet(i, j)
<1>1. AllocTyped /\ FixedStand /\ WholeTasks /\ Apart BY DEF AllocInv, AllocBooks
<1>2. DOMAIN queue = Q /\ walls = W /\ Earliest <= dayStart BY DEF Planning
<1>3. \A t \in Q : spec[t].minutes = task[t].minutes /\ spec[t].fixed = task[t].fixed BY DEF Planning
<1>4. \A t \in Q : Still(t) <=> Fixed(t) BY <1>3 DEF Still, Fixed
<1>5. \A t \in Q : t \in FlexOf <=> ~Still(t) BY <1>2, <1>4 DEF FlexOf
<1>6. \A t \in Q : Still(t) => segments[t] = <<task[t].fixed>> BY <1>1, <1>2, <1>3, <1>4 DEF FixedStand
<1>7. \A t \in Q : segments[t] \in Seq(DayIntervals) BY <1>1 DEF AllocTyped
<1>8. W \subseteq Fixture BY <1>2 DEF Fixture
<1>9. ASSUME NEW t \in Q, ~Still(t), NEW i \in ToSet(segments[t])
      PROVE  /\ Clear(i, W)
             /\ \A u \in Q \ {t} : \A j \in ToSet(segments[u]) : ~Meet(i, j)
  <2>1. t \in FlexOf BY <1>5, <1>9
  <2>2. \A o \in TakenBy(t) : ~Meet(i, o) BY <1>1, <1>9, <2>1 DEF Apart
  <2>3. Clear(i, W) BY <1>8, <2>2 DEF Clear, TakenBy
  <2>4. ASSUME NEW u \in Q \ {t}, NEW j \in ToSet(segments[u]) PROVE j \in TakenBy(t)
    <3>1. CASE Still(u)
      <4>1. j = task[u].fixed BY <1>6, <2>4, <3>1 DEF ToSet
      <4>2. Fixed(u) /\ j = spec[u].fixed /\ u \in DOMAIN queue BY <1>2, <1>3, <1>4, <3>1, <4>1
      <4> QED BY <4>2 DEF TakenBy, Fixture
    <3>2. CASE ~Still(u)
      <4>1. u \in FlexOf \ {t} BY <1>5, <3>2
      <4> QED BY <2>4, <4>1 DEF TakenBy
    <3> QED BY <3>1, <3>2
  <2> QED BY <2>2, <2>3, <2>4
<1>10. ASSUME NEW t \in Q, ~Still(t) PROVE WellPlaced(t, segments[t])
  <2>1. t \in FlexOf BY <1>5, <1>10
  <2>2. segments[t] # <<>> => Placed(t) BY <1>1, <2>1 DEF WholeTasks
  <2>3. CASE segments[t] = <<>>
    <3>1. InRow(segments[t]) /\ ToSet(segments[t]) = {} BY <2>3, Untouched
    <3> QED BY <2>3, <3>1 DEF WellPlaced
  <2>4. CASE segments[t] # <<>>
    <3>1. InRow(segments[t]) /\ TotalOf(segments[t]) = task[t].minutes
      BY <1>3, <2>2, <2>4 DEF Placed
    <3>2. ASSUME NEW i \in ToSet(segments[t])
          PROVE  /\ Earliest <= i[1] /\ (Length(i) >= MinSegment \/ task[t].minutes < MinSegment)
                 /\ Clear(i, calendar)
      <4>1. dayStart <= i[1] /\ (Length(i) >= MinSegment \/ task[t].minutes < MinSegment)
        BY <1>3, <2>2, <2>4 DEF Placed
      <4>2. Clear(i, calendar) BY <1>9, <1>10 DEF Clear
      <4>3. i \in DayIntervals BY <1>7 DEF ToSet
      <4>4. i[1] \in Nat BY <4>3, DayIntervalTyped
      <4>5. dayStart \in Nat /\ Earliest \in Nat
        <5>1. Earliest \in {WorkStart} \cup Starts
          <6>1. {WorkStart} \cup Starts \subseteq Nat BY PlanningAssumption, AllocationAssumption
          <6>2. {WorkStart} \cup Starts # {} OBVIOUS
          <6> QED BY <6>1, <6>2, MinIsLeast DEF Earliest
        <5> QED BY <1>1, <5>1, PlanningAssumption, AllocationAssumption DEF AllocTyped
      <4> QED BY <1>2, <4>1, <4>2, <4>4, <4>5
    <3> QED BY <3>1, <3>2 DEF WellPlaced
  <2> QED BY <2>3, <2>4
<1> QED BY <1>6, <1>7, <1>9, <1>10

\* The rows of Q have new places, the others keep theirs.
Rearranged(Q, p) ==
  /\ Q \subseteq Rows /\ Rows \subseteq Present \cup Q
  /\ DOMAIN p = Ids /\ p = [t \in Ids |-> p[t]] /\ \A t \in Ids \ Q : p[t] = day[t]
  /\ \A t \in Q : /\ p[t] \in Seq(DayIntervals)
                  /\ Still(t) => p[t] = <<task[t].fixed>>
                  /\ ~Still(t) => WellPlaced(t, p[t])
  /\ \A t \in Q : \A u \in Rows \ {t} : ~Still(t) \/ ~Still(u) =>
       \A i \in ToSet(p[t]), j \in ToSet(p[u]) : ~Meet(i, j)

\* What a full replan proposes.
LEMMA DayRuns ==
  ASSUME DayInv, op.kind = "schedule", Allocated
  PROVE  Rearranged(Present, Proposed)
<1>1. Planning(Present, calendar) BY DEF DayInv, OpBooks, NoOp
<1>2. Present \subseteq Ids /\ Rows = Present BY DEF Present, Rows
<1>3. /\ \A t \in Present : /\ segments[t] \in Seq(DayIntervals)
                            /\ Still(t) => segments[t] = <<task[t].fixed>>
                            /\ ~Still(t) => WellPlaced(t, segments[t])
      /\ \A t \in Present : ~Still(t) => \A i \in ToSet(segments[t]) :
           \A u \in Present \ {t} : \A j \in ToSet(segments[u]) : ~Meet(i, j)
  BY <1>1, <1>2, ResultIs DEF DayInv
<1>4. Proposed = [t \in Ids |-> IF t \in Present THEN segments[t] ELSE day[t]] BY DEF Proposed
<1>5. PICK p : p = Proposed OBVIOUS
<1>6. /\ DOMAIN p = Ids /\ p = [t \in Ids |-> p[t]]
      /\ \A t \in Ids \ Present : p[t] = day[t]
      /\ \A t \in Present : p[t] = segments[t]
  BY <1>2, <1>4, <1>5
<1>7. \A t \in Present : \A u \in Present \ {t} : ~Still(t) \/ ~Still(u) =>
        \A i \in ToSet(p[t]), j \in ToSet(p[u]) : ~Meet(i, j)
  <2> SUFFICES ASSUME NEW t \in Present, NEW u \in Present \ {t}, ~Still(t) \/ ~Still(u),
                      NEW i \in ToSet(segments[t]), NEW j \in ToSet(segments[u])
               PROVE  ~Meet(i, j)
    BY <1>6
  <2>1. CASE ~Still(t) BY <1>3, <2>1
  <2>2. CASE ~Still(u)
    <3>1. ~Meet(j, i) BY <1>3, <2>2
    <3> QED BY <3>1, MeetBothWays
  <2> QED BY <2>1, <2>2
<1> QED BY <1>2, <1>3, <1>5, <1>6, <1>7 DEF Rearranged

\* What an addition proposes.
LEMMA AdditionsRun ==
  ASSUME DayInv, NEW n \in Ids, NEW R \in SUBSET Ids,
         op = [kind |-> "add", task |-> n, replan |-> R], AddBooks(n, R), Allocated
  PROVE  Rearranged(R \cup {n}, Proposed)
<1>1. /\ n \in Ids \ Present /\ R \subseteq Present /\ (\A u \in R : ~Still(u))
      /\ Planning(R \cup {n}, Around(R))
      /\ Still(n) => R = {} /\ Clear(task[n].fixed, Around({}))
  BY DEF AddBooks
<1>2. PICK Q : Q = R \cup {n} OBVIOUS
<1>3. op.kind = "add" /\ op.task = n /\ op.replan = R OBVIOUS
<1>4. Rows = Present \cup {n} BY <1>3 DEF Rows
<1>5. Q \subseteq Ids /\ Present \subseteq Ids /\ calendar \subseteq Around(R) BY <1>2 DEF Present, Around
<1>6. /\ \A t \in Q : /\ segments[t] \in Seq(DayIntervals)
                      /\ Still(t) => segments[t] = <<task[t].fixed>>
                      /\ ~Still(t) => WellPlaced(t, segments[t])
      /\ \A t \in Q : ~Still(t) => \A i \in ToSet(segments[t]) :
           /\ Clear(i, Around(R))
           /\ \A u \in Q \ {t} : \A j \in ToSet(segments[u]) : ~Meet(i, j)
  BY <1>1, <1>2, <1>5, ResultIs DEF DayInv
<1>7. Proposed = [t \in Ids |-> IF t \in Q THEN segments[t] ELSE day[t]] BY <1>2, <1>3 DEF Proposed
<1>8. PICK p : p = Proposed OBVIOUS
<1>9. /\ DOMAIN p = Ids /\ p = [t \in Ids |-> p[t]]
      /\ \A t \in Ids \ Q : p[t] = day[t]
      /\ \A t \in Q : p[t] = segments[t]
  BY <1>5, <1>7, <1>8
<1>10. ASSUME NEW t \in Q, NEW u \in Rows \ {t}, ~Still(t) \/ ~Still(u),
              NEW i \in ToSet(p[t]), NEW j \in ToSet(p[u])
       PROVE  ~Meet(i, j)
  <2>1. i \in ToSet(segments[t]) BY <1>9, <1>10
  <2>2. CASE u \in Q
    <3>1. j \in ToSet(segments[u]) BY <1>9, <1>10, <2>2
    <3>2. CASE ~Still(t) BY <1>6, <2>1, <2>2, <3>1, <3>2
    <3>3. CASE ~Still(u)
      <4>1. ~Meet(j, i) BY <1>6, <2>1, <2>2, <3>1, <3>3
      <4> QED BY <4>1, MeetBothWays
    <3> QED BY <1>10, <3>2, <3>3
  <2>3. CASE u \notin Q
    <3>1. u \in Present \ R /\ u \in Ids \ Q BY <1>2, <1>4, <1>5, <2>3
    <3>2. j \in ToSet(day[u]) BY <1>9, <1>10, <3>1
    <3>3. CASE ~Still(t)
      <4>1. j \in Around(R) BY <3>1, <3>2 DEF Around, SegmentsOf
      <4> QED BY <1>6, <2>1, <3>3, <4>1 DEF Clear
    <3>4. CASE Still(t)
      <4>1. t = n BY <1>1, <1>2, <3>4
      <4>2. i = task[n].fixed BY <1>6, <2>1, <3>4, <4>1 DEF ToSet
      <4>3. j \in Around({}) BY <3>1, <3>2 DEF Around, SegmentsOf
      <4> QED BY <1>1, <3>4, <4>1, <4>2, <4>3 DEF Clear
    <3> QED BY <3>3, <3>4
  <2> QED BY <2>2, <2>3
<1>11. Q \subseteq Rows /\ Rows \subseteq Present \cup Q BY <1>1, <1>2, <1>4
<1>12. Rearranged(Q, p) BY <1>6, <1>9, <1>10, <1>11 DEF Rearranged
<1> QED BY <1>2, <1>8, <1>12

\* The place that a move asks for is one where the task may be.
LEMMA PinnedIs ==
  ASSUME DayTyped, NEW n \in Present, NEW R, NEW s \in Nat, MoveBooks(n, R, s)
  PROVE  LET i == Pinned(n, s) IN <<i>> \in Seq(DayIntervals) /\ ToSet(<<i>>) = {i} /\ WellPlaced(n, <<i>>)
<1>1. PICK i \in DayIntervals : i = Pinned(n, s) BY DEF MoveBooks
<1>2. n \in Ids /\ task[n] \in Task BY DEF Present, DayTyped
<1>3. PICK m \in Nat : m = task[n].minutes BY <1>2 DEF Task
<1>4. i = <<s, s + m>> BY <1>1, <1>3 DEF Pinned
<1>5. Length(i) = m /\ i[1] = s BY <1>4 DEF Length
<1>6. <<i>> \in Seq(DayIntervals) /\ ToSet(<<i>>) = {i} /\ Len(<<i>>) = 1 /\ <<i>>[1] = i BY DEF ToSet
<1>7. InRow(<<i>>) BY <1>6 DEF InRow, MaxSegments
<1>8. TotalOf(<<i>>) = m BY <1>5, <1>6 DEF TotalOf
<1>9. Clear(i, calendar) BY <1>1 DEF MoveBooks, Clear, Around
<1>10. Earliest <= s BY DEF MoveBooks
<1>11. Length(i) >= MinSegment \/ m < MinSegment BY <1>5 DEF MinSegment
<1>12. WellPlaced(n, <<i>>) BY <1>3, <1>5, <1>6, <1>7, <1>8, <1>9, <1>10, <1>11 DEF WellPlaced
<1> QED BY <1>1, <1>6, <1>12

\* What a move proposes.
LEMMA MovesRun ==
  ASSUME DayInv, NEW n \in Ids, NEW s \in Starts, NEW R \in SUBSET Ids,
         op = [kind |-> "move", task |-> n, start |-> s, replan |-> R], MoveBooks(n, R, s), Finished
  PROVE  Rearranged(R \cup {n}, Proposed)
<1>1. /\ n \in Present /\ R \subseteq Present \ {n} /\ (\A u \in R \cup {n} : ~Still(u))
      /\ Clear(Pinned(n, s), Around(R \cup {n}))
      /\ R # {} => Planning(R, Around(R \cup {n}) \cup {Pinned(n, s)})
  BY DEF MoveBooks
<1>2. PICK Q : Q = R \cup {n} OBVIOUS
<1>3. op.kind = "move" /\ op.task = n /\ op.replan = R /\ op.start = s OBVIOUS
<1>4. Rows = Present BY <1>3 DEF Rows
<1>5. Q \subseteq Present /\ Present \subseteq Ids BY <1>1, <1>2 DEF Present
<1>6. PICK W : W = Around(R \cup {n}) \cup {Pinned(n, s)} OBVIOUS
<1>7. R # {} =>
      /\ \A t \in R : segments[t] \in Seq(DayIntervals) /\ WellPlaced(t, segments[t])
      /\ \A t \in R : \A i \in ToSet(segments[t]) :
           /\ Clear(i, W)
           /\ \A u \in R \ {t} : \A j \in ToSet(segments[u]) : ~Meet(i, j)
  <2> SUFFICES ASSUME R # {}
               PROVE  /\ \A t \in R : segments[t] \in Seq(DayIntervals) /\ WellPlaced(t, segments[t])
                      /\ \A t \in R : \A i \in ToSet(segments[t]) :
                           /\ Clear(i, W)
                           /\ \A u \in R \ {t} : \A j \in ToSet(segments[u]) : ~Meet(i, j)
    OBVIOUS
  <2>1. Allocated BY <1>3 DEF Finished
  <2>2. Planning(R, W) /\ calendar \subseteq W BY <1>1, <1>6 DEF Around
  <2>3. \A t \in R : ~Still(t) BY <1>1
  <2>4. /\ \A t \in R : /\ segments[t] \in Seq(DayIntervals)
                        /\ Still(t) => segments[t] = <<task[t].fixed>>
                        /\ ~Still(t) => WellPlaced(t, segments[t])
        /\ \A t \in R : ~Still(t) => \A i \in ToSet(segments[t]) :
             /\ Clear(i, W)
             /\ \A u \in R \ {t} : \A j \in ToSet(segments[u]) : ~Meet(i, j)
    BY <2>1, <2>2, ResultIs DEF DayInv
  <2> QED BY <2>3, <2>4
<1>8. PICK h : h = Pinned(n, s) OBVIOUS
<1>9. <<h>> \in Seq(DayIntervals) /\ ToSet(<<h>>) = {h} /\ WellPlaced(n, <<h>>)
  <2>1. s \in Nat BY PlanningAssumption, AllocationAssumption
  <2> QED BY <1>1, <1>8, <2>1, PinnedIs DEF DayInv
<1>10. Proposed = [t \in Ids |-> IF t = n THEN <<h>> ELSE IF t \in R THEN segments[t] ELSE day[t]]
  BY <1>3, <1>8 DEF Proposed
<1>11. PICK p : p = Proposed OBVIOUS
<1>12. /\ DOMAIN p = Ids /\ p = [t \in Ids |-> p[t]]
       /\ \A t \in Ids \ Q : p[t] = day[t]
       /\ \A t \in R : p[t] = segments[t]
       /\ p[n] = <<h>>
  BY <1>1, <1>2, <1>10, <1>11
<1>13. ASSUME NEW t \in Q, NEW u \in Rows \ {t}, NEW i \in ToSet(p[t]), NEW j \in ToSet(p[u])
       PROVE  ~Meet(i, j)
  <2>1. u \notin Q => j \in Around(R \cup {n})
    <3> SUFFICES ASSUME u \notin Q PROVE j \in Around(R \cup {n}) OBVIOUS
    <3>1. u \in Present \ (R \cup {n}) /\ u \in Ids \ Q BY <1>2, <1>4, <1>5
    <3>2. j \in ToSet(day[u]) BY <1>12, <1>13, <3>1
    <3> QED BY <3>1, <3>2 DEF Around, SegmentsOf
  <2>2. CASE t = n
    <3>1. i = h BY <1>9, <1>12, <1>13, <2>2
    <3>2. CASE u \in R
      <4>1. j \in ToSet(segments[u]) BY <1>12, <1>13, <3>2
      <4>2. ~Meet(j, h) BY <1>6, <1>7, <1>8, <3>2, <4>1 DEF Clear
      <4> QED BY <3>1, <4>2, MeetBothWays
    <3>3. CASE u \notin R
      <4>1. u \notin Q BY <1>2, <1>13, <2>2, <3>3
      <4> QED BY <1>1, <1>8, <2>1, <3>1, <4>1 DEF Clear
    <3> QED BY <3>2, <3>3
  <2>3. CASE t # n
    <3>1. t \in R /\ i \in ToSet(segments[t]) BY <1>2, <1>12, <1>13, <2>3
    <3>2. Clear(i, W) BY <1>7, <3>1
    <3>3. CASE u = n
      <4>1. j = h BY <1>9, <1>12, <1>13, <3>3
      <4> QED BY <1>6, <1>8, <3>2, <4>1 DEF Clear
    <3>4. CASE u \in R
      <4>1. j \in ToSet(segments[u]) BY <1>12, <1>13, <3>4
      <4> QED BY <1>7, <1>13, <3>1, <3>4, <4>1
    <3>5. CASE u \notin Q BY <1>6, <2>1, <3>2, <3>5 DEF Clear
    <3> QED BY <1>2, <3>3, <3>4, <3>5
  <2> QED BY <2>2, <2>3
<1>14. \A t \in Q : p[t] \in Seq(DayIntervals) /\ ~Still(t) /\ WellPlaced(t, p[t])
  <2> TAKE t \in Q
  <2>1. ~Still(t) BY <1>1, <1>2
  <2>2. CASE t = n BY <1>9, <1>12, <2>1, <2>2
  <2>3. CASE t # n BY <1>2, <1>7, <1>12, <2>1, <2>3
  <2> QED BY <2>2, <2>3
<1>15. Q \subseteq Rows /\ Rows \subseteq Present \cup Q BY <1>4, <1>5
<1>16. Rearranged(Q, p) BY <1>12, <1>13, <1>14, <1>15 DEF Rearranged
<1> QED BY <1>2, <1>11, <1>16

Ending == op.kind \in {"schedule", "add", "move"} /\ Finished

\* Whatever the operation, it proposes places for the tasks it names and leaves the others.
LEMMA OperationsRun ==
  ASSUME DayInv, Ending
  PROVE  \E Q \in SUBSET Rows : Rearranged(Q, Proposed) /\ (op.kind = "schedule" => Q = Rows)
<1>1. CASE op.kind = "schedule"
  <2>1. Allocated BY <1>1 DEF Ending, Finished
  <2>2. Rearranged(Present, Proposed) /\ Rows = Present BY <1>1, <2>1, DayRuns DEF Rows
  <2> QED BY <2>2
<1>2. CASE op.kind = "add"
  <2>1. Allocated BY <1>2 DEF Ending, Finished
  <2>2. PICK n \in Ids, R \in SUBSET Ids :
          op = [kind |-> "add", task |-> n, replan |-> R] /\ AddBooks(n, R)
    BY <1>2 DEF DayInv, OpBooks, NoOp
  <2>3. Rearranged(R \cup {n}, Proposed) BY <2>1, <2>2, AdditionsRun
  <2>4. R \cup {n} \in SUBSET Rows BY <2>3 DEF Rearranged
  <2> QED BY <1>2, <2>3, <2>4
<1>3. CASE op.kind = "move"
  <2>1. Finished BY DEF Ending
  <2>2. PICK n \in Ids, s \in Starts, R \in SUBSET Ids :
          op = [kind |-> "move", task |-> n, start |-> s, replan |-> R] /\ MoveBooks(n, R, s)
    BY <1>3 DEF DayInv, OpBooks, NoOp
  <2>3. Rearranged(R \cup {n}, Proposed) BY <2>1, <2>2, MovesRun
  <2>4. R \cup {n} \in SUBSET Rows BY <2>3 DEF Rearranged
  <2> QED BY <1>3, <2>3, <2>4
<1> QED BY <1>1, <1>2, <1>3 DEF Ending

\* The schedule that an operation proposes.
SoundRows(p) ==
  \A t \in Ids : /\ p[t] \in Seq(DayIntervals)
                 /\ t \notin Rows => p[t] = <<>>
                 /\ t \in Rows /\ Still(t) => p[t] = <<task[t].fixed>>
                 /\ t \in Rows /\ ~Still(t) => WellPlaced(t, p[t])
MeetsAreOld(p) ==
  \A t, u \in Rows : t # u /\ ~Still(t) => \A i \in ToSet(p[t]), j \in ToSet(p[u]) :
    Meet(i, j) => op.kind # "schedule" /\ loose # {}

\* What an operation proposes is sound, and only what met before may meet.
LEMMA ProposalIs ==
  ASSUME DayInv, Ending
  PROVE  Proposed = [t \in Ids |-> Proposed[t]] /\ SoundRows(Proposed) /\ MeetsAreOld(Proposed)
<1>1. PICK Q \in SUBSET Rows : Rearranged(Q, Proposed) /\ (op.kind = "schedule" => Q = Rows)
  BY OperationsRun
<1>2. PICK p : p = Proposed OBVIOUS
<1>3. /\ Q \subseteq Rows /\ Rows \subseteq Present \cup Q
      /\ DOMAIN p = Ids /\ p = [t \in Ids |-> p[t]] /\ \A t \in Ids \ Q : p[t] = day[t]
      /\ \A t \in Q : /\ p[t] \in Seq(DayIntervals)
                      /\ Still(t) => p[t] = <<task[t].fixed>>
                      /\ ~Still(t) => WellPlaced(t, p[t])
      /\ \A t \in Q : \A u \in Rows \ {t} : ~Still(t) \/ ~Still(u) =>
           \A i \in ToSet(p[t]), j \in ToSet(p[u]) : ~Meet(i, j)
  BY <1>1, <1>2 DEF Rearranged
<1>4. Present \subseteq Rows
  <2>1. Present \subseteq Rows BY DEF Rows
  <2> QED BY <2>1
<1>5. DayTyped /\ RowsPlaced /\ OnlyLooseMeet BY DEF DayInv
<1>6. SoundRows(p)
  <2> SUFFICES ASSUME NEW t \in Ids
               PROVE  /\ p[t] \in Seq(DayIntervals)
                      /\ t \notin Rows => p[t] = <<>>
                      /\ t \in Rows /\ Still(t) => p[t] = <<task[t].fixed>>
                      /\ t \in Rows /\ ~Still(t) => WellPlaced(t, p[t])
    BY DEF SoundRows
  <2>1. CASE t \in Q BY <1>3, <2>1
  <2>2. CASE t \notin Q
    <3>1. p[t] = day[t] BY <1>3, <2>2
    <3>2. t \in Rows <=> t \in Present BY <1>3, <1>4, <2>2
    <3> QED BY <1>5, <3>1, <3>2 DEF DayTyped, RowsPlaced
  <2> QED BY <2>1, <2>2
<1>7. MeetsAreOld(p)
  <2> SUFFICES ASSUME NEW t \in Rows, NEW u \in Rows, t # u, ~Still(t),
                      NEW i \in ToSet(p[t]), NEW j \in ToSet(p[u]), Meet(i, j)
               PROVE  op.kind # "schedule" /\ loose # {}
    BY DEF MeetsAreOld
  <2>1. t \notin Q BY <1>3
  <2>2. u \notin Q
    <3>1. Meet(j, i) BY MeetBothWays
    <3> QED BY <1>3, <3>1
  <2>3. op.kind # "schedule" BY <1>1, <2>1
  <2>4. t \in Present /\ u \in Present /\ t \in Ids /\ u \in Ids BY <1>3, <2>1, <2>2 DEF Present
  <2>5. p[t] = day[t] /\ p[u] = day[u] BY <1>3, <2>1, <2>2, <2>4
  <2>6. t \in loose \/ u \in loose BY <1>5, <2>4, <2>5 DEF OnlyLooseMeet
  <2> QED BY <2>3, <2>6
<1> QED BY <1>2, <1>3, <1>6, <1>7

\* The validation at the persistence boundary accepts what the allocator proposes.
LEMMA ValidProposal ==
  ASSUME DayInv, Ending,
         \A t \in Rows : ~Still(t) /\ task[t].minutes < MinSegment => Proposed[t] = <<>>,
         op.kind = "schedule" \/ loose = {}
  PROVE  Valid(Proposed)
<1>1. PICK p : p = Proposed OBVIOUS
<1>2. SoundRows(p) /\ MeetsAreOld(p) BY <1>1, ProposalIs
<1>3. Rows \subseteq Ids
  <2>1. Present \subseteq Ids BY DEF Present
  <2>2. op.kind = "add" => op.task \in Ids BY DEF DayInv, OpBooks, NoOp
  <2> QED BY <2>1, <2>2 DEF Rows
<1>4. ASSUME NEW t \in Rows
      PROVE  /\ Len(p[t]) <= MaxSegments
             /\ \A i \in ToSet(p[t]) : i[1] < i[2] /\ i[2] <= DayEnd
             /\ IF task[t].fixed # <<>> THEN p[t] = <<task[t].fixed>>
                ELSE /\ \A i \in ToSet(p[t]) : Length(i) >= MinSegment
                     /\ \A n \in 2 .. Len(p[t]) : p[t][n - 1][2] <= p[t][n][1]
                     /\ p[t] # <<>> => MapThenSumSet(Length, ToSet(p[t])) = task[t].minutes
                     /\ \A u \in Rows \ {t} : \A i \in ToSet(p[t]), j \in ToSet(p[u]) : ~Meet(i, j)
  <2>1. /\ p[t] \in Seq(DayIntervals)
        /\ Still(t) => p[t] = <<task[t].fixed>>
        /\ ~Still(t) => WellPlaced(t, p[t])
    BY <1>2, <1>3 DEF SoundRows
  <2>2. \A i \in ToSet(p[t]) : i[1] < i[2] /\ i[2] <= DayEnd
    <3> TAKE i \in ToSet(p[t])
    <3>1. i \in DayIntervals BY <2>1 DEF ToSet
    <3> QED BY <3>1, DayIntervalTyped
  <2>3. CASE Still(t)
    <3>1. p[t] = <<task[t].fixed>> BY <2>1, <2>3
    <3>2. Len(p[t]) <= MaxSegments BY <3>1 DEF MaxSegments
    <3> QED BY <2>2, <2>3, <3>1, <3>2 DEF Still
  <2>4. CASE ~Still(t)
    <3>1. WellPlaced(t, p[t]) BY <2>1, <2>4
    <3>2. InRow(p[t]) /\ (p[t] # <<>> => TotalOf(p[t]) = task[t].minutes) BY <3>1 DEF WellPlaced
    <3>3. Len(p[t]) <= MaxSegments BY <3>2 DEF InRow
    <3>4. \A i \in ToSet(p[t]) : Length(i) >= MinSegment
      <4> SUFFICES ASSUME NEW i \in ToSet(p[t]) PROVE Length(i) >= MinSegment OBVIOUS
      <4>1. p[t] # <<>> BY DEF ToSet
      <4>2. ~ (task[t].minutes < MinSegment) BY <1>1, <2>4, <4>1
      <4> QED BY <3>1, <4>2 DEF WellPlaced
    <3>5. \A n \in 2 .. Len(p[t]) : p[t][n - 1][2] <= p[t][n][1]
      <4> SUFFICES ASSUME NEW n \in 2 .. Len(p[t]) PROVE p[t][n - 1][2] <= p[t][n][1] OBVIOUS
      <4>1. PICK c : c = p[t] OBVIOUS
      <4>2. Len(c) \in {0, 1, 2, 3} BY <3>2, <4>1, TotalTyped
      <4>3. n = 2 \/ n = 3
        <5>1. \A l \in {0, 1, 2, 3} : \A k \in 2 .. l : k = 2 \/ k = 3 OBVIOUS
        <5>2. n \in 2 .. Len(c) BY <4>1
        <5> QED BY <4>2, <5>1, <5>2
      <4>4. CASE n = 2
        <5>1. Len(c) >= 2 /\ n - 1 = 1 BY <4>1, <4>2, <4>4
        <5> QED BY <3>2, <4>1, <4>4, <5>1 DEF InRow
      <4>5. CASE n = 3
        <5>1. Len(c) >= 3 /\ n - 1 = 2 BY <4>1, <4>2, <4>5
        <5> QED BY <3>2, <4>1, <4>5, <5>1 DEF InRow
      <4> QED BY <4>3, <4>4, <4>5
    <3>6. p[t] # <<>> => MapThenSumSet(Length, ToSet(p[t])) = task[t].minutes
      <4>1. PICK c : c = p[t] OBVIOUS
      <4>2. MapThenSumSet(Length, ToSet(c)) = TotalOf(c) BY <3>2, <4>1, RowMinutes
      <4> QED BY <3>2, <4>1, <4>2
    <3>7. \A u \in Rows \ {t} : \A i \in ToSet(p[t]), j \in ToSet(p[u]) : ~Meet(i, j)
      BY <1>2, <2>4 DEF MeetsAreOld
    <3> QED BY <2>2, <2>4, <3>3, <3>4, <3>5, <3>6, <3>7 DEF Still
  <2> QED BY <2>3, <2>4
<1>5. Valid(p) BY <1>4, Zenon DEF Valid
<1> QED BY <1>1, <1>5, Zenon

\* Validating a day that is sound changes nothing.
LEMMA ValidationIdles == ASSUME DayInv PROVE ValidationIsIdle
<1> SUFFICES ASSUME Ending,
                    ~ (\E t \in Rows : task[t].fixed = <<>> /\ task[t].minutes < MinSegment /\ Proposed[t] # <<>>),
                    ~ (op.kind # "schedule" /\ loose # {})
             PROVE  Valid(Proposed)
  BY DEF ValidationIsIdle, Ending
<1>1. \A t \in Rows : ~Still(t) /\ task[t].minutes < MinSegment => Proposed[t] = <<>> BY DEF Still
<1> QED BY <1>1, ValidProposal

\* Times of the day.
LEMMA EarliestIs ==
  /\ Earliest \in Nat /\ WorkStart \in Nat /\ Earliest <= WorkStart
  /\ \A s \in Starts : s \in Nat /\ Earliest <= s
<1>1. PICK T : T = {WorkStart} \cup Starts OBVIOUS
<1>2. T \subseteq Nat /\ T # {} BY <1>1, PlanningAssumption, AllocationAssumption
<1>3. Min(T) \in T /\ \A k \in T : Min(T) <= k BY <1>2, MinIsLeast
<1>4. Earliest = Min(T) BY <1>1 DEF Earliest
<1> QED BY <1>1, <1>2, <1>3, <1>4

LEMMA SegmentsTyped ==
  ASSUME DayTyped, NEW T, T \subseteq Ids
  PROVE  SegmentsOf(T) \subseteq DayIntervals
<1>1. ASSUME NEW t \in T PROVE ToSet(day[t]) \subseteq DayIntervals
  <2>1. day[t] \in Seq(DayIntervals) BY DEF DayTyped
  <2> QED BY <2>1 DEF ToSet
<1> QED BY <1>1 DEF SegmentsOf

LEMMA AroundTyped == ASSUME DayTyped, NEW T PROVE Around(T) \subseteq DayIntervals
<1>1. PICK S : S = Present \ T OBVIOUS
<1>2. S \subseteq Ids BY <1>1 DEF Present
<1>3. SegmentsOf(S) \subseteq DayIntervals BY <1>2, SegmentsTyped
<1> QED BY <1>1, <1>3 DEF Around, DayTyped

LEMMA BoundaryIs == ASSUME DayTyped PROVE Boundary \in Nat /\ WorkStart <= Boundary
<1>1. PICK S : S = {t \in Present : status[t] \in {"started", "ended"}} OBVIOUS
<1>2. S \subseteq Ids BY <1>1 DEF Present
<1>3. SegmentsOf(S) \subseteq DayIntervals BY <1>2, SegmentsTyped
<1>4. PICK T : T = {WorkStart} \cup {i[2] : i \in SegmentsOf(S)} OBVIOUS
<1>5. DayEnd \in Nat /\ WorkStart \in Nat /\ WorkStart <= DayEnd BY PlanningAssumption, AllocationAssumption
<1>6. T \subseteq Nat /\ T # {} /\ \A k \in T : k <= DayEnd
  <2>1. \A i \in SegmentsOf(S) : i[2] \in Nat /\ i[2] <= DayEnd BY <1>3, DayIntervalTyped
  <2> QED BY <1>4, <1>5, <2>1
<1>7. Max(T) \in T /\ \A k \in T : k <= Max(T) BY <1>5, <1>6, MaxIsGreatest
<1>8. Boundary = Max(T) BY <1>1, <1>4, Zenon DEF Boundary
<1> QED BY <1>4, <1>6, <1>7, <1>8

\* A task whose limits are dropped keeps its minutes and its fixed place.
LEMMA UnconstrainedIs ==
  ASSUME DayTyped
  PROVE  /\ Unconstrained \in [Ids -> Task]
         /\ \A t \in Ids : Unconstrained[t].minutes = task[t].minutes /\ Unconstrained[t].fixed = task[t].fixed
<1>1. ASSUME NEW t \in Ids
      PROVE  /\ [task[t] EXCEPT !.earliest = 0, !.deadline = Never] \in Task
             /\ [task[t] EXCEPT !.earliest = 0, !.deadline = Never].minutes = task[t].minutes
             /\ [task[t] EXCEPT !.earliest = 0, !.deadline = Never].fixed = task[t].fixed
  <2>1. task[t] \in Task /\ Never \in Nat /\ 0 \in Nat BY AllocationAssumption DEF DayTyped
  <2>2. PICK r \in Task : r = task[t] BY <2>1
  <2>3. [r EXCEPT !.earliest = 0, !.deadline = Never] \in Task
    <3>1. PICK q : q = [r EXCEPT !.earliest = 0, !.deadline = Never] OBVIOUS
    <3> QED BY <2>1, <3>1 DEF Task
  <2>4. /\ [r EXCEPT !.earliest = 0, !.deadline = Never].minutes = r.minutes
        /\ [r EXCEPT !.earliest = 0, !.deadline = Never].fixed = r.fixed
    BY DEF Task
  <2> QED BY <2>2, <2>3, <2>4
<1> QED BY <1>1 DEF Unconstrained

\* The places of tasks in each of the orders.
LEMMA OrderedTyped == ASSUME NEW T, T \subseteq Ids PROVE Ordered(T) \in [T -> Nat]
<1>1. Ordered(T) = [t \in T |-> Cardinality({u \in T \ {t} : u < t})] BY Zenon DEF Ordered, InOrder
<1>2. ASSUME NEW t \in T PROVE Cardinality({u \in T \ {t} : u < t}) \in Nat
  <2>1. {u \in T \ {t} : u < t} \subseteq Ids OBVIOUS
  <2>2. IsFiniteSet({u \in T \ {t} : u < t}) BY <2>1, AllocationAssumption, FS_Subset
  <2> QED BY <2>2, FS_CardinalityType
<1> QED BY <1>1, <1>2

PlacesBefore(T, n) == [t \in T |-> Cardinality({u \in T \ {t} : Before(u, t, n)})]

LEMMA BeforeTyped == ASSUME NEW T, T \subseteq Ids, NEW n PROVE PlacesBefore(T, n) \in [T -> Nat]
<1>1. ASSUME NEW t \in T PROVE Cardinality({u \in T \ {t} : Before(u, t, n)}) \in Nat
  <2>1. {u \in T \ {t} : Before(u, t, n)} \subseteq Ids OBVIOUS
  <2>2. IsFiniteSet({u \in T \ {t} : Before(u, t, n)}) BY <2>1, AllocationAssumption, FS_Subset
  <2> QED BY <2>2, FS_CardinalityType
<1> QED BY <1>1 DEF PlacesBefore

PlacesSooner(T) == [t \in T |-> Cardinality({u \in T \ {t} : Sooner(u, t)})]

LEMMA SoonerTyped == ASSUME NEW T, T \subseteq Ids PROVE PlacesSooner(T) \in [T -> Nat]
<1>1. ASSUME NEW t \in T PROVE Cardinality({u \in T \ {t} : Sooner(u, t)}) \in Nat
  <2>1. {u \in T \ {t} : Sooner(u, t)} \subseteq Ids OBVIOUS
  <2>2. IsFiniteSet({u \in T \ {t} : Sooner(u, t)}) BY <2>1, AllocationAssumption, FS_Subset
  <2> QED BY <2>2, FS_CardinalityType
<1> QED BY <1>1 DEF PlacesSooner

\* What the day's invariant says while the rows stay as they are.
LEMMA SameRows ==
  ASSUME DayInv, UNCHANGED <<task, calendar, status, day, loose>>
  PROVE  /\ DayTyped' /\ RowsPlaced' /\ OnlyLooseMeet'
         /\ Present' = Present /\ Earliest' = Earliest
         /\ \A T : Around(T)' = Around(T)
         /\ \A t : Still(t)' = Still(t) /\ \A s : Pinned(t, s)' = Pinned(t, s)
<1>1. task' = task /\ calendar' = calendar /\ status' = status /\ day' = day /\ loose' = loose OBVIOUS
<1>2. Present' = Present BY <1>1, Zenon DEF Present
<1>3. \A t : Still(t)' = Still(t) BY <1>1, Zenon DEF Still
<1>4. \A T : SegmentsOf(T)' = SegmentsOf(T) BY <1>1, Zenon DEF SegmentsOf
<1>5. \A T : Around(T)' = Around(T) BY <1>1, <1>2, <1>4, Zenon DEF Around
<1>6. \A t, s : Pinned(t, s)' = Pinned(t, s) BY <1>1, Zenon DEF Pinned
<1>7. \A t, c : WellPlaced(t, c)' = WellPlaced(t, c) BY <1>1, Zenon DEF WellPlaced, Clear
<1>8. DayTyped /\ RowsPlaced /\ OnlyLooseMeet BY DEF DayInv
<1>9. DayTyped' BY <1>1, <1>8 DEF DayTyped
<1>10. RowsPlaced'
  <2>1. \A t : WellPlaced(t, day[t])' = WellPlaced(t, day[t]) BY <1>1, <1>7, Zenon DEF WellPlaced, Clear
  <2> QED BY <1>1, <1>2, <1>3, <1>8, <2>1, Zenon DEF RowsPlaced
<1>11. OnlyLooseMeet'
  <2>1. day' = day /\ loose' = loose OBVIOUS
  <2>2. OnlyLooseMeet' = OnlyLooseMeet BY <1>2, <1>3, <2>1, Zenon DEF OnlyLooseMeet
  <2> QED BY <1>8, <2>2
<1>12. Earliest' = Earliest BY Zenon DEF Earliest
<1> QED BY <1>2, <1>3, <1>5, <1>6, <1>9, <1>10, <1>11, <1>12

\* The allocator begins, asked about the rows of Q.
LEMMA AllocationBegins ==
  ASSUME DayTyped, task' = task, NEW view \in [Ids -> Task],
         \A t \in Ids : view[t].minutes = task[t].minutes /\ view[t].fixed = task[t].fixed,
         NEW Q, Q \subseteq Ids, NEW places \in [Q -> Nat], NEW W, W \subseteq DayIntervals,
         NEW from \in Nat, Earliest <= from, Allocate(view, places, W, from)
  PROVE  /\ AllocInv' /\ DOMAIN queue' = Q /\ walls' = W /\ Earliest' <= dayStart'
         /\ \A t \in Q : spec'[t].minutes = task'[t].minutes /\ spec'[t].fixed = task'[t].fixed
         /\ work'.pc = "next"
<1>1. /\ AllocInv' /\ work'.pc = "next"
      /\ spec' = view /\ DOMAIN queue' = Q /\ walls' = W /\ dayStart' = from
  BY AllocateKeeps
<1>2. Earliest' = Earliest BY Zenon DEF Earliest
<1> QED BY <1>1, <1>2

\* A full replan begins.
LEMMA ScheduleDayKeeps ==
  ASSUME DayInv, ScheduleDay
  PROVE  DayInv' /\ work'.pc = "next"
<1>1. UNCHANGED <<task, calendar, status, day, loose>> /\ op' = [kind |-> "schedule"]
  BY DEF ScheduleDay, Begins
<1>2. /\ DayTyped' /\ RowsPlaced' /\ OnlyLooseMeet'
      /\ Present' = Present /\ Earliest' = Earliest
  BY <1>1, SameRows
<1>3. PICK Q : Q = Present OBVIOUS
<1>4. PICK W : W = calendar OBVIOUS
<1>5. PICK view : view = task OBVIOUS
<1>6. PICK places : places = Ordered(Q) OBVIOUS
<1>7. PICK from : from = WorkStart OBVIOUS
<1>8. DayTyped BY DEF DayInv
<1>9. Q \subseteq Ids /\ W \subseteq DayIntervals /\ view \in [Ids -> Task] BY <1>3, <1>4, <1>5, <1>8 DEF Present, DayTyped
<1>10. places \in [Q -> Nat] BY <1>6, <1>9, OrderedTyped
<1>11. from \in Nat /\ Earliest <= from BY <1>7, EarliestIs
<1>12. Allocate(view, places, W, from) BY <1>3, <1>4, <1>5, <1>6, <1>7 DEF ScheduleDay
<1>13. /\ AllocInv' /\ DOMAIN queue' = Q /\ walls' = W /\ Earliest' <= dayStart' /\ work'.pc = "next"
       /\ \A t \in Q : spec'[t].minutes = task'[t].minutes /\ spec'[t].fixed = task'[t].fixed
  <2>1. \A t \in Ids : view[t].minutes = task[t].minutes /\ view[t].fixed = task[t].fixed BY <1>5
  <2> QED BY <1>1, <1>8, <1>9, <1>10, <1>11, <1>12, <2>1, AllocationBegins
<1>14. Planning(Present, calendar)' BY <1>1, <1>2, <1>3, <1>4, <1>13 DEF Planning
<1>15. OpBooks' BY <1>1, <1>14 DEF OpBooks
<1> QED BY <1>2, <1>13, <1>15 DEF DayInv

\* The allocator has been asked about an addition.
LEMMA AdditionAsked ==
  ASSUME DayInv, UNCHANGED <<task, calendar, status, day, loose>>,
         NEW n \in Ids \ Present, NEW R, R \subseteq Present, \A u \in R : ~Still(u),
         NEW W, W = Around(R), DOMAIN queue' = R \cup {n}, walls' = W, Earliest' <= dayStart',
         \A t \in R \cup {n} : spec'[t].minutes = task'[t].minutes /\ spec'[t].fixed = task'[t].fixed,
         Still(n) => R = {} /\ Clear(task[n].fixed, Around({}))
  PROVE  AddBooks(n, R)'
<1>1. /\ Present' = Present /\ \A T : Around(T)' = Around(T)
      /\ \A t : Still(t)' = Still(t)
  BY SameRows
<1>2. Planning(R \cup {n}, Around(R))' BY <1>1 DEF Planning
<1>3. Clear(task[n].fixed, Around({}))' = Clear(task[n].fixed, Around({}))
  <2>1. task' = task /\ Around({})' = Around({}) BY <1>1
  <2> QED BY <2>1, Zenon DEF Clear
<1>4. (\A u \in R : ~Still(u))' BY <1>1
<1> QED BY <1>1, <1>2, <1>3, <1>4 DEF AddBooks

\* A Fixed row is asked for where nothing stands.
LEMMA AddFixedKeeps ==
  ASSUME DayInv, NEW n \in Ids, AddFixed(n)
  PROVE  DayInv' /\ work'.pc = "next"
<1>1. /\ UNCHANGED <<task, calendar, status, day, loose>>
      /\ op' = [kind |-> "add", task |-> n, replan |-> {}] /\ n \notin Present
  BY DEF AddFixed, Begins
<1>2. DayTyped' /\ RowsPlaced' /\ OnlyLooseMeet' BY <1>1, SameRows
<1>3. PICK Q : Q = {n} OBVIOUS
<1>4. PICK W : W = Around({}) OBVIOUS
<1>5. PICK view : view = task OBVIOUS
<1>6. PICK places : places = Ordered(Q) OBVIOUS
<1>7. PICK from : from = WorkStart OBVIOUS
<1>8. DayTyped BY DEF DayInv
<1>9. Q \subseteq Ids /\ W \subseteq DayIntervals /\ view \in [Ids -> Task]
  BY <1>3, <1>4, <1>5, <1>8, AroundTyped DEF DayTyped
<1>10. places \in [Q -> Nat] BY <1>6, <1>9, OrderedTyped
<1>11. from \in Nat /\ Earliest <= from BY <1>7, EarliestIs
<1>12. Present \ {} = Present OBVIOUS
<1>13. W = calendar \cup SegmentsOf(Present) BY <1>4, <1>12 DEF Around
<1>14. Allocate(view, places, W, from) BY <1>3, <1>13, <1>5, <1>6, <1>7 DEF AddFixed
<1>15. /\ AllocInv' /\ DOMAIN queue' = Q /\ walls' = W /\ Earliest' <= dayStart' /\ work'.pc = "next"
       /\ \A t \in Q : spec'[t].minutes = task'[t].minutes /\ spec'[t].fixed = task'[t].fixed
  <2>1. \A t \in Ids : view[t].minutes = task[t].minutes /\ view[t].fixed = task[t].fixed BY <1>5
  <2> QED BY <1>1, <1>8, <1>9, <1>10, <1>11, <1>14, <2>1, AllocationBegins
<1>16. AddBooks(n, {})'
  <2>1. Clear(task[n].fixed, Around({})) BY <1>4, <1>13 DEF AddFixed, Clear
  <2>2. {} \cup {n} = Q BY <1>3
  <2>3. PICK R : R = {} OBVIOUS
  <2>4. R \subseteq Present /\ (\A u \in R : ~Still(u)) /\ R \cup {n} = Q /\ W = Around(R) BY <1>3, <1>4, <2>3
  <2>5. AddBooks(n, R)' BY <1>1, <1>15, <2>1, <2>3, <2>4, AdditionAsked
  <2> QED BY <2>3, <2>5
<1>17. OpBooks'
  <2>1. {} \in SUBSET Ids OBVIOUS
  <2> QED BY <1>1, <1>16, <2>1 DEF OpBooks
<1> QED BY <1>2, <1>15, <1>17 DEF DayInv

\* Adding a Flexible task begins, provisional row first.
LEMMA AddFlexibleKeeps ==
  ASSUME DayInv, NEW n \in Ids, AddFlexible(n)
  PROVE  DayInv' /\ work'.pc = "next"
<1>1. /\ UNCHANGED <<task, calendar, status, day, loose>>
      /\ op' = [kind |-> "provisional", task |-> n] /\ n \notin Present /\ ~Still(n)
  BY DEF AddFlexible, Begins, Still
<1>2. DayTyped' /\ RowsPlaced' /\ OnlyLooseMeet' /\ Still(n)' = Still(n) BY <1>1, SameRows
<1>3. PICK Q : Q = {n} OBVIOUS
<1>4. PICK W : W = Around({}) OBVIOUS
<1>5. PICK view : view = Unconstrained OBVIOUS
<1>6. PICK places : places = Ordered(Q) OBVIOUS
<1>7. PICK from : from = Boundary OBVIOUS
<1>8. DayTyped BY DEF DayInv
<1>9. Q \subseteq Ids /\ W \subseteq DayIntervals BY <1>3, <1>4, <1>8, AroundTyped
<1>10. places \in [Q -> Nat] BY <1>6, <1>9, OrderedTyped
<1>11. from \in Nat /\ Earliest <= from
  <2>1. Boundary \in Nat /\ WorkStart <= Boundary BY <1>8, BoundaryIs
  <2>2. Earliest \in Nat /\ WorkStart \in Nat /\ Earliest <= WorkStart BY EarliestIs
  <2> QED BY <1>7, <2>1, <2>2
<1>12. Present \ {} = Present OBVIOUS
<1>13. W = calendar \cup SegmentsOf(Present) BY <1>4, <1>12 DEF Around
<1>14. Allocate(view, places, W, from) BY <1>3, <1>13, <1>5, <1>6, <1>7 DEF AddFlexible
<1>15. /\ AllocInv' /\ DOMAIN queue' = Q /\ walls' = W /\ Earliest' <= dayStart' /\ work'.pc = "next"
       /\ \A t \in Q : spec'[t].minutes = task'[t].minutes /\ spec'[t].fixed = task'[t].fixed
  <2>1. /\ view \in [Ids -> Task]
        /\ \A t \in Ids : view[t].minutes = task[t].minutes /\ view[t].fixed = task[t].fixed
    BY <1>5, <1>8, UnconstrainedIs
  <2> QED BY <1>1, <1>8, <1>9, <1>10, <1>11, <1>14, <2>1, AllocationBegins
<1>16. AddBooks(n, {})'
  <2>1. PICK R : R = {} OBVIOUS
  <2>2. R \subseteq Present /\ (\A u \in R : ~Still(u)) /\ R \cup {n} = Q /\ W = Around(R) BY <1>3, <1>4, <2>1
  <2>3. AddBooks(n, R)' BY <1>1, <1>15, <2>2, AdditionAsked
  <2> QED BY <2>1, <2>3
<1>17. OpBooks' BY <1>1, <1>2, <1>16 DEF OpBooks
<1> QED BY <1>2, <1>15, <1>17 DEF DayInv

\* The rows that compete are Flexible.
LEMMA CompetingAre ==
  ASSUME NEW n
  PROVE  Competing(n) \subseteq Present /\ \A u \in Competing(n) : ~Still(u)
<1>1. Competing(n) \subseteq Eligible BY DEF Competing
<1> QED BY <1>1 DEF Eligible, Still

\* The provisional pass over, the tasks the new one competes with are replanned.
LEMMA ReplanKeeps ==
  ASSUME DayInv, Replan
  PROVE  DayInv' /\ (work' = work \/ work'.pc = "next")
<1>1. op.kind = "provisional" /\ UNCHANGED <<task, calendar, status, day, loose>> BY DEF Replan
<1>2. PICK n \in Ids : op = [kind |-> "provisional", task |-> n] /\ ~Still(n) /\ AddBooks(n, {})
  BY <1>1 DEF DayInv, OpBooks, NoOp
<1>3. DayTyped' /\ RowsPlaced' /\ OnlyLooseMeet' BY <1>1, SameRows
<1>4. PICK R : R = Competing(n) OBVIOUS
<1>5. R \subseteq Present /\ (\A u \in R : ~Still(u)) /\ R \in SUBSET Ids
  <2>1. Present \subseteq Ids BY DEF Present
  <2> QED BY <1>4, <2>1, CompetingAre
<1>6. n \in Ids \ Present BY <1>2 DEF AddBooks
<1>7. op.task = n BY <1>2
<1>8. /\ op' = [kind |-> "add", task |-> n, replan |-> R]
      /\ IF R = {} THEN UNCHANGED allocVars
         ELSE Allocate(Unconstrained, PlacesBefore(R \cup {n}, n),
                       calendar \cup SegmentsOf(Present \ R), Boundary)
  BY <1>4, <1>7, Zenon DEF Replan, InOrder, PlacesBefore
<1>9. DayTyped /\ AllocInv BY DEF DayInv
<1>10. CASE R = {}
  <2>1. UNCHANGED allocVars BY <1>8, <1>10
  <2>2. AllocInv' BY <1>9, <2>1, AllocVarsStay
  <2>3. spec' = spec /\ queue' = queue /\ walls' = walls /\ dayStart' = dayStart /\ work' = work
    BY <2>1 DEF allocVars
  <2>4. Planning({} \cup {n}, Around({})) BY <1>2 DEF AddBooks
  <2>5. PICK W : W = Around(R) OBVIOUS
  <2>6. /\ DOMAIN queue' = R \cup {n} /\ walls' = W /\ Earliest' <= dayStart'
        /\ \A t \in R \cup {n} : spec'[t].minutes = task'[t].minutes /\ spec'[t].fixed = task'[t].fixed
    <3>1. Earliest' = Earliest BY Zenon DEF Earliest
    <3> QED BY <1>1, <1>10, <2>3, <2>4, <2>5, <3>1 DEF Planning
  <2>7. AddBooks(n, R)' BY <1>1, <1>2, <1>5, <1>6, <2>5, <2>6, AdditionAsked
  <2>8. OpBooks' BY <1>5, <1>8, <2>7 DEF OpBooks
  <2> QED BY <1>3, <2>2, <2>3, <2>8 DEF DayInv
<1>11. CASE R # {}
  <2>1. PICK Q : Q = R \cup {n} OBVIOUS
  <2>2. PICK W : W = Around(R) OBVIOUS
  <2>3. PICK view : view = Unconstrained OBVIOUS
  <2>4. PICK places : places = PlacesBefore(Q, n) OBVIOUS
  <2>5. PICK from : from = Boundary OBVIOUS
  <2>6. Q \subseteq Ids /\ W \subseteq DayIntervals BY <1>5, <1>9, <2>1, <2>2, AroundTyped
  <2>7. places \in [Q -> Nat] BY <2>4, <2>6, BeforeTyped, Zenon
  <2>8. from \in Nat /\ Earliest <= from
    <3>1. Boundary \in Nat /\ WorkStart <= Boundary BY <1>9, BoundaryIs
    <3>2. Earliest \in Nat /\ WorkStart \in Nat /\ Earliest <= WorkStart BY EarliestIs
    <3> QED BY <2>5, <3>1, <3>2
  <2>9. Allocate(view, places, W, from)
    <3>1. W = calendar \cup SegmentsOf(Present \ R) BY <2>2 DEF Around
    <3>2. Allocate(Unconstrained, PlacesBefore(R \cup {n}, n),
                   calendar \cup SegmentsOf(Present \ R), Boundary)
      BY <1>8, <1>11, Zenon
    <3> QED BY <2>1, <2>3, <2>4, <2>5, <3>1, <3>2, Zenon
  <2>10. /\ AllocInv' /\ DOMAIN queue' = Q /\ walls' = W /\ Earliest' <= dayStart' /\ work'.pc = "next"
         /\ \A t \in Q : spec'[t].minutes = task'[t].minutes /\ spec'[t].fixed = task'[t].fixed
    <3>1. /\ view \in [Ids -> Task]
          /\ \A t \in Ids : view[t].minutes = task[t].minutes /\ view[t].fixed = task[t].fixed
      BY <1>9, <2>3, UnconstrainedIs
    <3> QED BY <1>1, <1>9, <2>6, <2>7, <2>8, <2>9, <3>1, AllocationBegins
  <2>11. AddBooks(n, R)' BY <1>1, <1>2, <1>5, <1>6, <2>1, <2>2, <2>10, AdditionAsked
  <2>12. OpBooks' BY <1>5, <1>8, <2>11 DEF OpBooks
  <2> QED BY <1>3, <2>10, <2>12 DEF DayInv
<1> QED BY <1>10, <1>11

\* A move asks for a place inside the day, beside everything that stays.
LEMMA MoveAsks ==
  ASSUME DayInv, NEW n \in Ids, NEW s \in Starts, Move(n, s)
  PROVE  /\ n \in Present /\ Repairs(n) \subseteq Present \ {n} /\ (\A u \in Repairs(n) \cup {n} : ~Still(u))
         /\ Pinned(n, s) \in DayIntervals /\ Earliest <= s
         /\ Clear(Pinned(n, s), Around(Repairs(n) \cup {n}))
<1>1. /\ n \in Present /\ ~Protected(n)
      /\ Pinned(n, s)[2] <= Least(DayEnd, task[n].deadline)
      /\ \A i \in calendar \cup SegmentsOf({u \in Present \ {n} : Protected(u)}) : ~Meet(Pinned(n, s), i)
  BY DEF Move
<1>2. Repairs(n) \subseteq Present \ {n} /\ (\A u \in Repairs(n) \cup {n} : ~Still(u))
  BY <1>1 DEF Repairs, Protected, Still
<1>3. Pinned(n, s) \in DayIntervals
  <2>1. task[n] \in Task /\ s \in Nat /\ DayEnd \in Nat BY EarliestIs, AllocationAssumption DEF DayInv, DayTyped
  <2>2. PICK m \in Nat, d \in Nat : m = task[n].minutes /\ d = task[n].deadline /\ m # 0 BY <2>1 DEF Task
  <2>3. Pinned(n, s) = <<s, s + m>> /\ s + m \in Nat /\ s < s + m BY <2>1, <2>2 DEF Pinned
  <2>4. Least(DayEnd, d) <= DayEnd /\ Least(DayEnd, d) \in Nat BY <2>1, <2>2 DEF Least
  <2>5. s + m <= DayEnd
    <3>1. Pinned(n, s)[2] = s + m BY <2>3
    <3>2. s + m <= Least(DayEnd, d) BY <1>1, <2>2, <3>1
    <3> QED BY <2>1, <2>3, <2>4, <3>2
  <2> QED BY <2>1, <2>3, <2>5, IsDayInterval
<1>4. Clear(Pinned(n, s), Around(Repairs(n) \cup {n}))
  <2> SUFFICES ASSUME NEW k \in Around(Repairs(n) \cup {n}) PROVE ~Meet(Pinned(n, s), k) BY DEF Clear
  <2>1. CASE k \in calendar BY <1>1, <2>1
  <2>2. CASE k \notin calendar
    <3>1. PICK u \in Present \ (Repairs(n) \cup {n}) : k \in ToSet(day[u])
      BY <2>2 DEF Around, SegmentsOf
    <3>2. Scheduled(u) BY <3>1 DEF Scheduled, ToSet
    <3>3. u \in {v \in Present \ {n} : Protected(v)} BY <3>1, <3>2 DEF Repairs
    <3>4. k \in SegmentsOf({v \in Present \ {n} : Protected(v)}) BY <3>1, <3>3 DEF SegmentsOf
    <3> QED BY <1>1, <3>4
  <2> QED BY <2>1, <2>2
<1>5. Earliest <= s BY EarliestIs
<1> QED BY <1>1, <1>2, <1>3, <1>4, <1>5

\* The repair begins no earlier than the move, or the tasks it repairs.
LEMMA RepairsBegin ==
  ASSUME DayInv, NEW n \in Present, NEW s \in Starts, NEW R, R \subseteq Present,
         \A u \in R \cup {n} : ~Still(u), NEW from, from = Min({s} \cup {i[1] : i \in SegmentsOf(R \cup {n})})
  PROVE  from \in Nat /\ Earliest <= from
<1>1. PICK T : T = {s} \cup {i[1] : i \in SegmentsOf(R \cup {n})} OBVIOUS
<1>2. ASSUME NEW i \in SegmentsOf(R \cup {n}) PROVE i[1] \in Nat /\ Earliest <= i[1]
  <2>1. PICK u \in R \cup {n} : i \in ToSet(day[u]) BY <1>2 DEF SegmentsOf
  <2>2. u \in Present /\ u \in Ids /\ ~Still(u) BY <2>1 DEF Present
  <2>3. day[u] \in Seq(DayIntervals) /\ WellPlaced(u, day[u]) BY <2>2 DEF DayInv, DayTyped, RowsPlaced
  <2>4. i \in DayIntervals BY <2>1, <2>3 DEF ToSet
  <2> QED BY <2>1, <2>3, <2>4, DayIntervalTyped DEF WellPlaced
<1>3. s \in Nat /\ Earliest <= s BY EarliestIs
<1>4. T \subseteq Nat /\ T # {} /\ \A k \in T : Earliest <= k BY <1>1, <1>2, <1>3
<1>5. Min(T) \in T BY <1>4, MinIsLeast
<1> QED BY <1>1, <1>4, <1>5

\* A manual move begins.
LEMMA MoveKeeps ==
  ASSUME DayInv, NEW n \in Ids, NEW s \in Starts, Move(n, s)
  PROVE  DayInv' /\ (work' = work \/ work'.pc = "next")
<1>1. PICK R : R = Repairs(n) OBVIOUS
<1>2. /\ UNCHANGED <<task, calendar, status, day, loose>>
      /\ op' = [kind |-> "move", task |-> n, start |-> s, replan |-> R]
  BY <1>1 DEF Move, Begins
<1>3. /\ DayTyped' /\ RowsPlaced' /\ OnlyLooseMeet' /\ Present' = Present /\ Earliest' = Earliest
      /\ \A T : Around(T)' = Around(T)
      /\ \A t : Still(t)' = Still(t) /\ \A x : Pinned(t, x)' = Pinned(t, x)
  BY <1>2, SameRows
<1>4. PICK h : h = Pinned(n, s) OBVIOUS
<1>5. /\ n \in Present /\ R \subseteq Present \ {n} /\ (\A u \in R \cup {n} : ~Still(u))
      /\ h \in DayIntervals /\ Earliest <= s /\ Clear(h, Around(R \cup {n}))
  BY <1>1, <1>4, MoveAsks
<1>6. R \in SUBSET Ids BY <1>5 DEF Present
<1>7. DayTyped /\ AllocInv BY DEF DayInv
<1>8. IF R = {} THEN UNCHANGED allocVars
      ELSE Allocate(task, PlacesSooner(R), calendar \cup {h} \cup SegmentsOf(Present \ (R \cup {n})),
                    Min({s} \cup {i[1] : i \in SegmentsOf(R \cup {n})}))
  BY <1>1, <1>4, Zenon DEF Move, InOrder, PlacesSooner
<1>9. /\ AllocInv' /\ (work' = work \/ work'.pc = "next")
      /\ R # {} => Planning(R, Around(R \cup {n}) \cup {Pinned(n, s)})'
  <2>1. CASE R = {}
    <3>1. UNCHANGED allocVars BY <1>8, <2>1
    <3>2. work' = work BY <3>1 DEF allocVars
    <3> QED BY <1>7, <2>1, <3>1, <3>2, AllocVarsStay
  <2>2. CASE R # {}
    <3>1. PICK W : W = Around(R \cup {n}) \cup {h} OBVIOUS
    <3>2. PICK view : view = task OBVIOUS
    <3>3. PICK places : places = PlacesSooner(R) OBVIOUS
    <3>4. PICK from : from = Min({s} \cup {i[1] : i \in SegmentsOf(R \cup {n})}) OBVIOUS
    <3>5. R \subseteq Ids /\ W \subseteq DayIntervals BY <1>5, <1>6, <1>7, <3>1, AroundTyped
    <3>6. places \in [R -> Nat] BY <3>3, <3>5, SoonerTyped
    <3>7. from \in Nat /\ Earliest <= from
      <4>1. R \subseteq Present BY <1>5
      <4> QED BY <1>5, <3>4, <4>1, RepairsBegin
    <3>8. Allocate(view, places, W, from)
      <4>1. W = calendar \cup {h} \cup SegmentsOf(Present \ (R \cup {n})) BY <3>1 DEF Around
      <4> QED BY <1>8, <2>2, <3>2, <3>3, <3>4, <4>1, Zenon
    <3>9. /\ AllocInv' /\ DOMAIN queue' = R /\ walls' = W /\ Earliest' <= dayStart' /\ work'.pc = "next"
          /\ \A t \in R : spec'[t].minutes = task'[t].minutes /\ spec'[t].fixed = task'[t].fixed
      <4>1. view \in [Ids -> Task] BY <1>7, <3>2 DEF DayTyped
      <4>2. \A t \in Ids : view[t].minutes = task[t].minutes /\ view[t].fixed = task[t].fixed BY <3>2
      <4> QED BY <1>2, <1>7, <3>5, <3>6, <3>7, <3>8, <4>1, <4>2, AllocationBegins
    <3>10. Planning(R, Around(R \cup {n}) \cup {Pinned(n, s)})'
      BY <1>3, <1>4, <3>1, <3>9 DEF Planning
    <3> QED BY <3>9, <3>10
  <2> QED BY <2>1, <2>2
<1>10. MoveBooks(n, R, s)'
  <2>1. Clear(Pinned(n, s), Around(R \cup {n}))'
    <3>1. Pinned(n, s)' = h /\ Around(R \cup {n})' = Around(R \cup {n}) BY <1>3, <1>4
    <3>2. Clear(Pinned(n, s), Around(R \cup {n}))' <=> \A k \in Around(R \cup {n})' : ~Meet(Pinned(n, s)', k)
      BY Zenon DEF Clear, Meet
    <3> QED BY <1>5, <3>1, <3>2 DEF Clear
  <2>2. (Pinned(n, s) \in DayIntervals)' BY <1>3, <1>4, <1>5
  <2>3. n \in Present' /\ R \subseteq Present' \ {n} BY <1>3, <1>5
  <2>4. (\A u \in R \cup {n} : ~Still(u))' BY <1>3, <1>5
  <2>5. Earliest' <= s BY <1>3, <1>5
  <2> QED BY <1>9, <2>1, <2>2, <2>3, <2>4, <2>5, Zenon DEF MoveBooks
<1>11. OpBooks' BY <1>2, <1>6, <1>10 DEF OpBooks
<1> QED BY <1>3, <1>9, <1>11 DEF DayInv

\* Rows that are created with a time, and progress.
LEMMA InsertFixedKeeps ==
  ASSUME DayInv, NEW n \in Ids, InsertFixed(n)
  PROVE  DayInv' /\ work' = work
<1>1. /\ op = NoOp /\ op' = op /\ n \notin Present /\ Still(n) /\ task' = task /\ calendar' = calendar
      /\ status' = [status EXCEPT ![n] = "pending"] /\ day' = [day EXCEPT ![n] = <<task[n].fixed>>]
      /\ loose' = loose \cup {n} /\ UNCHANGED allocVars
  BY DEF InsertFixed, Idle, Still
<1>2. DayTyped /\ AllocInv /\ RowsPlaced /\ OnlyLooseMeet BY DEF DayInv
<1>3. PICK f \in DayIntervals : f = task[n].fixed
  <2>1. task[n] \in Task BY <1>2 DEF DayTyped
  <2> QED BY <1>1, <2>1 DEF Task, Still
<1>4. <<f>> \in Seq(DayIntervals) OBVIOUS
<1>5. /\ day' \in [Ids -> Seq(DayIntervals)] /\ day'[n] = <<f>> /\ \A t \in Ids \ {n} : day'[t] = day[t]
      /\ status' \in [Ids -> {"absent", "pending", "started", "ended"}]
      /\ status'[n] = "pending" /\ \A t \in Ids \ {n} : status'[t] = status[t]
  BY <1>1, <1>2, <1>3, <1>4 DEF DayTyped
<1>6. Present' = Present \cup {n} BY <1>5 DEF Present
<1>7. \A t : Still(t)' = Still(t) BY <1>1, Zenon DEF Still
<1>8. \A t, c : WellPlaced(t, c)' = WellPlaced(t, c) BY <1>1, Zenon DEF WellPlaced, Clear, Earliest
<1>9. DayTyped' BY <1>1, <1>2, <1>5 DEF DayTyped
<1>10. RowsPlaced'
  <2>1. ASSUME NEW t \in Ids
        PROVE  /\ t \notin Present' => day'[t] = <<>>
               /\ t \in Present' /\ Still(t) => day'[t] = <<task'[t].fixed>>
               /\ t \in Present' /\ ~Still(t) => WellPlaced(t, day'[t])
    <3>1. CASE t = n BY <1>1, <1>3, <1>5, <1>6, <3>1
    <3>2. CASE t # n BY <1>1, <1>2, <1>5, <1>6, <3>2 DEF RowsPlaced
    <3> QED BY <3>1, <3>2
  <2>2. \A t \in Ids : WellPlaced(t, day[t])' <=> WellPlaced(t, day'[t])
    BY <1>1, Zenon DEF WellPlaced, Clear, Earliest
  <2> QED BY <1>7, <2>1, <2>2, Zenon DEF RowsPlaced
<1>11. OnlyLooseMeet'
  <2>1. ASSUME NEW t \in Present', NEW u \in Present', t # u, ~Still(t),
               NEW i \in ToSet(day'[t]), NEW j \in ToSet(day'[u]), Meet(i, j)
        PROVE  t \in loose' \/ u \in loose'
    <3>1. CASE t = n \/ u = n BY <1>1, <3>1
    <3>2. CASE t # n /\ u # n
      <4>1. t \in Present /\ u \in Present /\ t \in Ids /\ u \in Ids BY <1>6, <3>2 DEF Present
      <4>2. day'[t] = day[t] /\ day'[u] = day[u] BY <1>5, <3>2, <4>1
      <4> QED BY <1>1, <1>2, <2>1, <4>1, <4>2 DEF OnlyLooseMeet
    <3> QED BY <3>1, <3>2
  <2> QED BY <1>7, <2>1, Zenon DEF OnlyLooseMeet, ToSet, Meet
<1>12. AllocInv' BY <1>1, <1>2, AllocVarsStay
<1>13. OpBooks' BY <1>1 DEF OpBooks, NoOp
<1>14. work' = work BY <1>1 DEF allocVars
<1> QED BY <1>9, <1>10, <1>11, <1>12, <1>13, <1>14 DEF DayInv

\* Starting, ending and deleting a task.
LEMMA ProgressKeeps ==
  ASSUME DayInv, NEW n \in Ids, NEW to \in {"started", "ended"}, Progress(n, to)
  PROVE  DayInv' /\ work' = work
<1>1. /\ op = NoOp /\ op' = op /\ n \in Present
      /\ task' = task /\ calendar' = calendar /\ day' = day /\ loose' = loose
      /\ status' = [status EXCEPT ![n] = to] /\ UNCHANGED allocVars
  BY DEF Progress, Idle
<1>2. DayTyped /\ AllocInv /\ RowsPlaced /\ OnlyLooseMeet BY DEF DayInv
<1>3. /\ status' \in [Ids -> {"absent", "pending", "started", "ended"}]
      /\ status'[n] # "absent" /\ \A t \in Ids \ {n} : status'[t] = status[t]
  BY <1>1, <1>2 DEF DayTyped
<1>4. Present' = Present BY <1>1, <1>3 DEF Present
<1>5. \A t : Still(t)' = Still(t) BY <1>1, Zenon DEF Still
<1>6. \A t : WellPlaced(t, day[t])' = WellPlaced(t, day[t])
  BY <1>1, Zenon DEF WellPlaced, Clear, Earliest
<1>7. DayTyped' BY <1>1, <1>2, <1>3 DEF DayTyped
<1>8. RowsPlaced' BY <1>1, <1>2, <1>4, <1>5, <1>6, Zenon DEF RowsPlaced
<1>9. OnlyLooseMeet'
  <2>1. day' = day /\ loose' = loose BY <1>1
  <2>2. OnlyLooseMeet' = OnlyLooseMeet BY <1>4, <1>5, <2>1, Zenon DEF OnlyLooseMeet
  <2> QED BY <1>2, <2>2
<1>10. AllocInv' BY <1>1, <1>2, AllocVarsStay
<1>11. OpBooks' BY <1>1 DEF OpBooks, NoOp
<1>12. work' = work BY <1>1 DEF allocVars
<1> QED BY <1>7, <1>8, <1>9, <1>10, <1>11, <1>12 DEF DayInv

\* What was asked stays the same while nothing but the result changes.
LEMMA BooksStay ==
  ASSUME DayInv, UNCHANGED <<task, calendar, status, day, loose, op>>,
         UNCHANGED <<spec, queue, walls, dayStart>>
  PROVE  OpBooks'
<1>1. op' = op /\ task' = task /\ spec' = spec /\ queue' = queue /\ walls' = walls /\ dayStart' = dayStart
  OBVIOUS
<1>2. /\ Present' = Present /\ Earliest' = Earliest
      /\ \A T : Around(T)' = Around(T)
      /\ \A t : Still(t)' = Still(t) /\ \A s : Pinned(t, s)' = Pinned(t, s)
  BY SameRows
<1>3. calendar' = calendar OBVIOUS
<1>4. Planning(Present, calendar)' = Planning(Present, calendar) BY <1>1, <1>2, <1>3, Zenon DEF Planning
<1>5. \A t, R : AddBooks(t, R)' = AddBooks(t, R)
  <2> TAKE t, R
  <2>1. Planning(R \cup {t}, Around(R))' = Planning(R \cup {t}, Around(R)) BY <1>1, <1>2, Zenon DEF Planning
  <2>2. Clear(task[t].fixed, Around({}))' = Clear(task[t].fixed, Around({})) BY <1>1, <1>2, Zenon DEF Clear
  <2> QED BY <1>2, <2>1, <2>2, Zenon DEF AddBooks
<1>6. \A t, R, s : MoveBooks(t, R, s)' = MoveBooks(t, R, s)
  <2> TAKE t, R, s
  <2>1. Planning(R, Around(R \cup {t}) \cup {Pinned(t, s)})' = Planning(R, Around(R \cup {t}) \cup {Pinned(t, s)})
    BY <1>1, <1>2, Zenon DEF Planning
  <2>2. Clear(Pinned(t, s), Around(R \cup {t}))' = Clear(Pinned(t, s), Around(R \cup {t}))
    BY <1>2, Zenon DEF Clear
  <2> QED BY <1>2, <2>1, <2>2, Zenon DEF MoveBooks
<1>7. OpBooks BY DEF DayInv
<1> QED BY <1>1, <1>2, <1>4, <1>5, <1>6, <1>7, Zenon DEF OpBooks, NoOp

\* The allocator's steps, while an operation waits for it.
LEMMA AllocatingKeeps ==
  ASSUME DayInv, Allocating
  PROVE  /\ DayInv'
         /\ work.pc = "placing" /\ work'.pc = "placing" => Advance
<1>1. AllocationStep /\ UNCHANGED <<task, calendar, status, day, loose, op>> BY DEF Allocating, dayVars
<1>2. AllocInv' /\ (work.pc = "placing" /\ work'.pc = "placing" => Advance)
  BY <1>1, StepKeeps DEF DayInv
<1>3. UNCHANGED <<spec, queue, walls, dayStart>> BY <1>1, StepInputs
<1>4. OpBooks' BY <1>1, <1>3, BooksStay
<1>5. DayTyped' /\ RowsPlaced' /\ OnlyLooseMeet' BY <1>1, SameRows
<1> QED BY <1>2, <1>4, <1>5 DEF DayInv

LEMMA EndsIs ==
  ASSUME DayInv, Ends
  PROVE  AllocInv' /\ OpBooks' /\ work'.pc = "rest" /\ task' = task /\ calendar' = calendar
<1>1. /\ op' = NoOp /\ work' = Rest /\ UNCHANGED <<spec, queue, walls, dayStart, segments>>
      /\ task' = task /\ calendar' = calendar
  BY DEF Ends
<1>2. AllocInv' BY <1>1, RestKeeps DEF DayInv
<1>3. OpBooks' BY <1>1 DEF OpBooks, NoOp
<1> QED BY <1>1, <1>2, <1>3, RestIs

\* An operation that is refused leaves the day as it was.
LEMMA RefuseKeeps ==
  ASSUME DayInv, Refuse
  PROVE  DayInv' /\ work'.pc = "rest"
<1>1. Ends /\ UNCHANGED <<day, status, loose>> BY DEF Refuse
<1>2. AllocInv' /\ OpBooks' /\ work'.pc = "rest" /\ task' = task /\ calendar' = calendar BY <1>1, EndsIs
<1>3. DayTyped' /\ RowsPlaced' /\ OnlyLooseMeet' BY <1>1, <1>2, SameRows
<1> QED BY <1>2, <1>3 DEF DayInv

\* An operation commits what was proposed, and nothing else moved since.
LEMMA CommitKeeps ==
  ASSUME DayInv, Commit
  PROVE  DayInv' /\ work'.pc = "rest"
<1>1. /\ Ending /\ Valid(Proposed) /\ Ends /\ loose' = {} /\ day' = Proposed
      /\ status' = [t \in Ids |-> IF t \in Rows /\ status[t] = "absent" THEN "pending" ELSE status[t]]
  BY DEF Commit, Ending, Acceptable
<1>2. AllocInv' /\ OpBooks' /\ work'.pc = "rest" /\ task' = task /\ calendar' = calendar BY <1>1, EndsIs
<1>3. PICK p : p = Proposed OBVIOUS
<1>4. p = [t \in Ids |-> p[t]] /\ SoundRows(p) /\ MeetsAreOld(p) /\ Valid(p) BY <1>1, <1>3, ProposalIs
<1>5. DayTyped BY DEF DayInv
<1>6. Present \subseteq Rows /\ Rows \subseteq Ids
  <2>1. Present \subseteq Ids BY DEF Present
  <2>2. op.kind = "add" => op.task \in Ids BY DEF DayInv, OpBooks, NoOp
  <2> QED BY <2>1, <2>2 DEF Rows
<1>7. Present' = Rows
  <2>1. \A t \in Ids : status[t] \in {"absent", "pending", "started", "ended"} BY <1>5 DEF DayTyped
  <2>2. \A t \in Ids : status'[t] # "absent" <=> t \in Rows BY <1>1, <1>6 DEF Present
  <2>3. Present' = {t \in Ids : status'[t] # "absent"} BY DEF Present
  <2> QED BY <1>6, <2>2, <2>3
<1>8. \A t : Still(t)' = Still(t) BY <1>2, Zenon DEF Still
<1>9. DayTyped'
  <2>1. day' \in [Ids -> Seq(DayIntervals)] BY <1>1, <1>3, <1>4 DEF SoundRows
  <2>2. status' \in [Ids -> {"absent", "pending", "started", "ended"}] BY <1>1, <1>5 DEF DayTyped
  <2> QED BY <1>1, <1>2, <1>5, <2>1, <2>2 DEF DayTyped
<1>10. RowsPlaced'
  <2>1. \A t \in Ids : WellPlaced(t, day[t])' <=> WellPlaced(t, p[t])
    BY <1>1, <1>2, <1>3, Zenon DEF WellPlaced, Clear, Earliest
  <2>2. \A t \in Ids : /\ t \notin Rows => p[t] = <<>>
                       /\ t \in Rows /\ Still(t) => p[t] = <<task[t].fixed>>
                       /\ t \in Rows /\ ~Still(t) => WellPlaced(t, p[t])
    BY <1>4 DEF SoundRows
  <2>3. day' = p BY <1>1, <1>3
  <2> QED BY <1>2, <1>7, <1>8, <2>1, <2>2, <2>3, Zenon DEF RowsPlaced
<1>11. OnlyLooseMeet'
  <2>1. \A t \in Rows : ~Still(t) => \A u \in Rows \ {t} : \A i \in ToSet(p[t]), j \in ToSet(p[u]) : ~Meet(i, j)
    BY <1>4 DEF Valid, Still
  <2>2. day' = p BY <1>1, <1>3
  <2>3. ASSUME NEW t \in Present', NEW u \in Present', t # u, ~Still(t),
               NEW i \in ToSet(day'[t]), NEW j \in ToSet(day'[u])
        PROVE  ~Meet(i, j)
    <3>1. t \in Rows /\ u \in Rows \ {t} BY <1>7, <2>3
    <3> QED BY <2>1, <2>2, <2>3, <3>1
  <2> QED BY <1>8, <2>3, Zenon DEF OnlyLooseMeet, ToSet, Meet
<1> QED BY <1>2, <1>9, <1>10, <1>11 DEF DayInv

\* Before the first operation.
LEMMA DayInit ==
  ASSUME PlanningInit
  PROVE  DayInv
<1>1. /\ queue = <<>> /\ walls = {} /\ dayStart = 0 /\ segments = [t \in Ids |-> <<>>] /\ work = Rest
      /\ spec = task /\ op = NoOp /\ loose = {} /\ calendar \in Calendars /\ task \in [Ids -> Catalogue]
      /\ day = [t \in Ids |-> IF status[t] = "pending" /\ task[t].fixed # <<>> THEN <<task[t].fixed>> ELSE <<>>]
  BY DEF PlanningInit, AllocationInit
<1>2. task \in [Ids -> Task] /\ calendar \subseteq DayIntervals BY <1>1, PlanningAssumption
<1>3. PICK n \in Ids : status = [t \in Ids |-> IF t <= n THEN "pending" ELSE "absent"]
  BY DEF PlanningInit
<1>4. /\ status \in [Ids -> {"absent", "pending", "started", "ended"}]
      /\ \A t \in Ids : t \in Present <=> status[t] = "pending"
  BY <1>3 DEF Present
<1>5. ASSUME NEW t \in Ids, Still(t)
      PROVE  task[t].fixed \in DayIntervals /\ <<task[t].fixed>> \in Seq(DayIntervals)
  <2>1. task[t] \in Task BY <1>2
  <2>2. PICK f \in DayIntervals : f = task[t].fixed BY <1>5, <2>1 DEF Task, Still
  <2>3. <<f>> \in Seq(DayIntervals) OBVIOUS
  <2> QED BY <2>2, <2>3
<1>6. PICK none : none = <<>> /\ none \in Seq(DayIntervals)
  <2>1. <<>> \in Seq(DayIntervals) OBVIOUS
  <2> QED BY <2>1
<1>7. ASSUME NEW t \in Ids
      PROVE  /\ day[t] \in Seq(DayIntervals)
             /\ t \notin Present => day[t] = <<>>
             /\ t \in Present /\ Still(t) => day[t] = <<task[t].fixed>>
             /\ ~Still(t) => day[t] = <<>>
  <2>1. CASE t \in Present /\ Still(t)
    <3>1. day[t] = <<task[t].fixed>> BY <1>1, <1>4, <2>1 DEF Still
    <3> QED BY <1>5, <2>1, <3>1
  <2>2. CASE ~ (t \in Present /\ Still(t))
    <3>1. day[t] = <<>> BY <1>1, <1>4, <2>2 DEF Still
    <3> QED BY <1>6, <2>2, <3>1
  <2> QED BY <2>1, <2>2
<1>8. DayTyped
  <2>1. DOMAIN day = Ids /\ day = [t \in Ids |-> day[t]] BY <1>1
  <2>2. day \in [Ids -> Seq(DayIntervals)] BY <1>7, <2>1
  <2> QED BY <1>1, <1>2, <1>4, <2>2 DEF DayTyped
<1>9. RowsPlaced
  <2>1. \A t \in Ids : ~Still(t) => WellPlaced(t, day[t])
    <3> SUFFICES ASSUME NEW t \in Ids, ~Still(t) PROVE WellPlaced(t, day[t]) OBVIOUS
    <3>1. PICK c : c = day[t] OBVIOUS
    <3>2. c = <<>> BY <1>7, <3>1
    <3>3. InRow(c) /\ ToSet(c) = {} BY <3>2, Untouched
    <3> QED BY <3>1, <3>2, <3>3 DEF WellPlaced
  <2> QED BY <1>7, <2>1 DEF RowsPlaced
<1>10. OnlyLooseMeet
  <2>1. \A t \in Ids : ~Still(t) => ToSet(day[t]) = {} BY <1>7, Untouched
  <2>2. Present \subseteq Ids BY DEF Present
  <2> QED BY <2>1, <2>2 DEF OnlyLooseMeet
<1>11. AllocInv
  <2>1. DOMAIN queue = {} /\ queue \in [DOMAIN queue -> Nat] BY <1>1
  <2>2. FlexOf = {} BY <2>1 DEF FlexOf
  <2>3. segments \in [Ids -> Seq(DayIntervals)] /\ \A t \in Ids : segments[t] = <<>> BY <1>1, <1>6
  <2>4. work \in WorkOf(FlexOf) /\ work.pc # "placing" BY <1>1, RestIs
  <2>5. WorkTyped BY <2>4 DEF WorkTyped, WorkOf
  <2>6. AllocTyped BY <1>1, <1>2, <2>1, <2>3, <2>5 DEF AllocTyped
  <2>7. FixedStand /\ OthersHaveNone /\ WholeTasks /\ Apart
    BY <2>1, <2>2, <2>3 DEF FixedStand, OthersHaveNone, WholeTasks, Apart
  <2> QED BY <2>4, <2>6, <2>7 DEF AllocInv, AllocBooks
<1> QED BY <1>1, <1>8, <1>9, <1>10, <1>11 DEF DayInv, OpBooks

\* A stuttering step.
LEMMA NothingHappens ==
  ASSUME DayInv, UNCHANGED planVars
  PROVE  DayInv' /\ work' = work
<1>1. UNCHANGED allocVars /\ UNCHANGED <<task, calendar, status, day, loose, op>>
  BY DEF planVars, dayVars
<1>2. UNCHANGED <<spec, queue, walls, dayStart>> /\ work' = work BY <1>1 DEF allocVars
<1>3. AllocInv' BY <1>1, AllocVarsStay DEF DayInv
<1>4. OpBooks' BY <1>1, <1>2, BooksStay
<1>5. DayTyped' /\ RowsPlaced' /\ OnlyLooseMeet' BY <1>1, SameRows
<1> QED BY <1>2, <1>3, <1>4, <1>5 DEF DayInv

\* Every operation keeps the day's invariant, and only the allocator's passes change
\* how far the task under way is.
LEMMA DayKeeps ==
  ASSUME DayInv, [PlanningNext]_planVars
  PROVE  /\ DayInv'
         /\ work.pc = "placing" /\ work'.pc = "placing" => Advance \/ work' = work
<1>1. CASE ScheduleDay BY <1>1, ScheduleDayKeeps
<1>2. CASE \E t \in Ids : AddFixed(t) \/ AddFlexible(t) \/ InsertFixed(t)
  BY <1>2, AddFixedKeeps, AddFlexibleKeeps, InsertFixedKeeps
<1>3. CASE \E t \in Ids, s \in Starts : Move(t, s) BY <1>3, MoveKeeps
<1>4. CASE \E t \in Ids, to \in {"started", "ended"} : Progress(t, to) BY <1>4, ProgressKeeps
<1>5. CASE Allocating BY <1>5, AllocatingKeeps
<1>6. CASE Replan BY <1>6, ReplanKeeps
<1>7. CASE Commit BY <1>7, CommitKeeps
<1>8. CASE Refuse BY <1>8, RefuseKeeps
<1>9. CASE UNCHANGED planVars BY <1>9, NothingHappens
<1> QED BY <1>1, <1>2, <1>3, <1>4, <1>5, <1>6, <1>7, <1>8, <1>9 DEF PlanningNext

\* Only two tasks that stand where their rows say may meet without a Fixed row
\* created since, and of these the user is told, unless both are breaks.
LEMMA DaySound == ASSUME DayInv PROVE DayIsSound
<1>1. DayTyped /\ RowsPlaced /\ OnlyLooseMeet BY DEF DayInv
<1>2. Present \subseteq Ids BY DEF Present
<1>3. ASSUME NEW t \in Present, task[t].fixed = <<>>, NEW i \in ToSet(day[t])
      PROVE  /\ Earliest <= i[1] /\ i[2] <= DayEnd
             /\ \A c \in calendar : ~Meet(i, c)
  <2>1. ~Still(t) /\ t \in Ids BY <1>2, <1>3 DEF Still
  <2>2. WellPlaced(t, day[t]) /\ day[t] \in Seq(DayIntervals) BY <1>1, <2>1 DEF RowsPlaced, DayTyped
  <2>3. Earliest <= i[1] /\ Clear(i, calendar) BY <1>3, <2>2 DEF WellPlaced
  <2>4. i \in DayIntervals BY <1>3, <2>2 DEF ToSet
  <2> QED BY <2>3, <2>4, DayIntervalTyped DEF Clear
<1>4. ASSUME NEW t \in Present, NEW u \in Present \ {t}, NEW i \in ToSet(day[t]), NEW j \in ToSet(day[u]),
             Meet(i, j), {t, u} \cap loose = {}, ~ (task[t].isBreak /\ task[u].isBreak)
      PROVE  {t, u} \in Clashes
  <2>1. t \notin loose /\ u \notin loose BY <1>4
  <2>2. Still(t) BY <1>1, <1>4, <2>1 DEF OnlyLooseMeet
  <2>3. Still(u)
    <3>1. Meet(j, i) BY <1>4, MeetBothWays
    <3> QED BY <1>1, <1>4, <2>1, <3>1 DEF OnlyLooseMeet
  <2>4. day[t] = <<task[t].fixed>> /\ day[u] = <<task[u].fixed>> BY <1>1, <1>2, <2>2, <2>3 DEF RowsPlaced
  <2>5. i = task[t].fixed /\ j = task[u].fixed BY <1>4, <2>4 DEF ToSet
  <2>6. PICK q : q = <<t, u>> OBVIOUS
  <2>7. q \in Present \X Present /\ q[1] = t /\ q[2] = u BY <2>6
  <2>8. q \in {p \in Present \X Present :
           /\ p[1] # p[2] /\ task[p[1]].fixed # <<>> /\ task[p[2]].fixed # <<>>
           /\ ~(task[p[1]].isBreak /\ task[p[2]].isBreak)
           /\ Meet(task[p[1]].fixed, task[p[2]].fixed)}
    BY <1>4, <2>2, <2>3, <2>5, <2>7 DEF Still
  <2>9. {q[1], q[2]} = {t, u} BY <2>7
  <2> QED BY <2>8, <2>9 DEF Clashes
<1>5. ValidationIsIdle BY ValidationIdles
<1>6. \A t \in Present :
        /\ task[t].fixed = <<>> =>
             \A i \in ToSet(day[t]) : /\ Earliest <= i[1] /\ i[2] <= DayEnd
                                     /\ \A c \in calendar : ~Meet(i, c)
        /\ \A u \in Present \ {t} : \A i \in ToSet(day[t]), j \in ToSet(day[u]) :
             Meet(i, j) => \/ {t, u} \cap loose # {} \/ {t, u} \in Clashes
                           \/ task[t].isBreak /\ task[u].isBreak
  BY <1>3, <1>4
<1> QED BY <1>5, <1>6, Zenon DEF DayIsSound

\* Whatever tasks are added, moved, started, ended, deleted and replanned, and
\* wherever an operation is refused or its replan fails: a Flexible task stands
\* inside the planning day and off the calendar's events, two tasks share time
\* only when both are breaks, when the user was told of it, or when a Fixed row
\* came after them, and validating what stands changes nothing.
THEOREM DayStaysSound == PlanningSpec => []DayIsSound
<1>1. PlanningInit => DayInv BY DayInit
<1>2. DayInv /\ [PlanningNext]_planVars => DayInv' BY DayKeeps
<1>3. DayInv => DayIsSound BY DaySound
<1> QED BY <1>1, <1>2, <1>3, PTL DEF PlanningSpec

\* However long the queue and however full the day: every step of a pass leaves
\* less of the task to place, a later cursor or fewer tasks waiting (the loops
\* of allocate_flexible_tasks and _schedule_task end).
THEOREM OperationsEnd == PlanningSpec => PassesAdvance
<1>1. PlanningInit => DayInv BY DayInit
<1>2. DayInv /\ [PlanningNext]_planVars => DayInv' BY DayKeeps
<1>3. DayInv /\ [PlanningNext]_planVars
        => [work.pc = "placing" /\ work'.pc = "placing" =>
              \/ work'.remaining < work.remaining \/ work'.cursor > work.cursor
              \/ Cardinality(work'.pending) < Cardinality(work.pending)]_work
  BY DayKeeps DEF Advance
<1> QED BY <1>1, <1>2, <1>3, PTL DEF PlanningSpec, PassesAdvance
=============================================================================
