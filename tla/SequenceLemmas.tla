---- MODULE SequenceLemmas ----
(***************************************************************************)
(* What the proofs of several modules need of numbers and lists: the least *)
(* element of a set, induction and recursion along a list, and lists that  *)
(* grow at their end.  Induction is stated on sets: a property is the set  *)
(* of the numbers that have it.                                            *)
(***************************************************************************)
EXTENDS Integers, Sequences, FiniteSets, SequenceTheorems, FiniteSetTheorems, TLAPS

\* Of some naturals one is the least: the intervals 1..x are ordered as the x
\* are, and the finite sets are well-founded.
LEMMA Least ==
  ASSUME NEW T, T \subseteq Nat, T # {}
  PROVE  \E x \in T : \A y \in T : x <= y
<1> DEFINE R == StrictSubsetOrdering(Nat)
           U == {1..x : x \in T}
<1>1. IsWellFoundedOn(R, FiniteSubsetsOf(Nat))
  BY FS_StrictSubsetOrderingWellFounded
<1>2. \A x \in T : 1..x \in FiniteSubsetsOf(Nat)
  BY FS_Interval DEF FiniteSubsetsOf
<1>3. U \subseteq FiniteSubsetsOf(Nat) /\ U # {}
  BY <1>2
<1>4. \E u \in U : \A v \in U : ~(<<v, u>> \in R)
  <2> HIDE DEF R, U
  <2> QED BY <1>1, <1>3, WFMin
<1>5. PICK x \in T : \A y \in T : <<1..y, 1..x>> \notin R
  BY <1>4
<1>6. ASSUME NEW y \in T, y < x PROVE FALSE
  <2>1. 1..y \subseteq 1..x /\ 1..y # 1..x /\ 1..y \subseteq Nat /\ 1..x \subseteq Nat
    <3>1. x \in 1..x /\ x \notin 1..y
      BY <1>6
    <3> QED BY <1>6, <3>1
  <2>2. <<1..y, 1..x>> \in R
    BY <2>1 DEF StrictSubsetOrdering
  <2> QED BY <1>5, <2>2
<1> QED BY <1>6

\* A set of naturals that are all at most n has a greatest.
LEMMA Greatest ==
  ASSUME NEW T, T \subseteq Nat, T # {}, NEW n \in Nat, \A y \in T : y <= n
  PROVE  \E x \in T : \A y \in T : y <= x
<1> DEFINE U == {n - y : y \in T}
<1>1. U \subseteq Nat /\ U # {}
  <2>1. \A y \in T : y \in Nat /\ n - y \in Nat
    OBVIOUS
  <2> QED BY <2>1
<1>2. PICK u \in U : \A v \in U : u <= v
  <2> HIDE DEF U
  <2> QED BY <1>1, Least
<1>3. PICK x \in T : u = n - x
  OBVIOUS
<1>4. \A y \in T : n - x <= n - y
  BY <1>2, <1>3
<1> QED BY <1>4

LEMMA NatInduct ==
  ASSUME NEW S, 0 \in S, \A n \in Nat : n \in S => n + 1 \in S
  PROVE  Nat \subseteq S
<1>1. SUFFICES ASSUME Nat \ S # {} PROVE FALSE
  OBVIOUS
<1>2. PICK x \in Nat \ S : \A y \in Nat \ S : x <= y
  BY <1>1, Least
<1>3. x # 0 /\ x - 1 \in Nat /\ x - 1 \in S
  BY <1>2
<1>4. (x - 1) + 1 \in S
  BY <1>3
<1> QED BY <1>2, <1>4
----------------------------------------------------------------------------
(* Recursion along a list of n elements, with values in V: step[i][v] is   *)
(* what the i-th element makes of the value v before it.                   *)

Recurs(f, n, base, step) ==
  f = [i \in 0..n |-> IF i = 0 THEN base ELSE step[i][f[i - 1]]]

Values(V, n, base, step) ==
  {f \in [0..n -> V] : f[0] = base /\ \A i \in 1..n : f[i] = step[i][f[i - 1]]}

\* The equation has a solution, which is what a recursive function denotes.
LEMMA RecursionExists ==
  ASSUME NEW V, NEW n \in Nat, NEW base \in V, NEW step \in [1..n -> [V -> V]]
  PROVE  \E f \in [0..n -> V] : Recurs(f, n, base, step)
<1> DEFINE S == {m \in Nat : m <= n => Values(V, m, base, step) # {}}
<1>1. 0 \in S
  <2>1. [i \in 0..0 |-> base] \in Values(V, 0, base, step)
    BY DEF Values
  <2> QED BY <2>1
<1>2. ASSUME NEW m \in Nat, m \in S PROVE m + 1 \in S
  <2> SUFFICES ASSUME m + 1 <= n PROVE Values(V, m + 1, base, step) # {}
    OBVIOUS
  <2>1. PICK f \in Values(V, m, base, step) : TRUE
    BY <1>2
  <2> DEFINE g == [i \in 0..(m + 1) |-> IF i <= m THEN f[i] ELSE step[m + 1][f[m]]]
  <2>2. /\ m + 1 \in 1..n /\ f[m] \in V /\ \A i \in 0..m : f[i] \in V
        /\ f[0] = base /\ \A i \in 1..m : f[i] = step[i][f[i - 1]]
    BY <2>1 DEF Values
  <2>3. step[m + 1][f[m]] \in V
    BY <2>2
  <2>4. g \in [0..(m + 1) -> V]
    BY <2>2, <2>3
  <2>5. g[0] = base
    BY <2>2
  <2>6. \A i \in 1..(m + 1) : g[i] = step[i][g[i - 1]]
    <3> TAKE i \in 1..(m + 1)
    <3>1. CASE i <= m
      BY <2>2, <3>1
    <3>2. CASE i = m + 1
      BY <3>2
    <3> QED BY <3>1, <3>2
  <2>7. g \in Values(V, m + 1, base, step)
    <3> HIDE DEF g
    <3> QED BY <2>4, <2>5, <2>6 DEF Values
  <2> QED BY <2>7
<1>3. n \in S
  <2> HIDE DEF S
  <2> QED BY <1>1, <1>2, NatInduct
<1>4. PICK f \in Values(V, n, base, step) : TRUE
  BY <1>3
<1>5. f \in [0..n -> V] /\ f = [i \in 0..n |-> IF i = 0 THEN base ELSE step[i][f[i - 1]]]
  BY <1>4 DEF Values
<1> QED BY <1>5 DEF Recurs

\* Along a list and along its first m elements the values are the same.
LEMMA RecursionAgrees ==
  ASSUME NEW n \in Nat, NEW m \in 0..n, NEW base, NEW step, NEW more, NEW f, NEW g,
         Recurs(f, m, base, step), Recurs(g, n, base, more),
         \A i \in 1..m : step[i] = more[i]
  PROVE  \A i \in 0..m : f[i] = g[i]
<1> DEFINE S == {i \in Nat : i <= m => f[i] = g[i]}
<1>1. 0 \in S
  BY DEF Recurs
<1>2. ASSUME NEW i \in Nat, i \in S PROVE i + 1 \in S
  <2> SUFFICES ASSUME i + 1 <= m PROVE f[i + 1] = g[i + 1]
    OBVIOUS
  <2>1. f[i] = g[i] /\ i + 1 \in 1..m /\ (i + 1) - 1 = i
    BY <1>2
  <2>2. f[i + 1] = step[i + 1][f[i]] /\ g[i + 1] = more[i + 1][g[i]]
    BY <2>1 DEF Recurs
  <2> QED BY <2>1, <2>2
<1>3. Nat \subseteq S
  <2> HIDE DEF S
  <2> QED BY <1>1, <1>2, NatInduct
<1> QED BY <1>3
====
