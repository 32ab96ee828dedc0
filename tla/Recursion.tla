------------------------------- MODULE Recursion -------------------------------
(***************************************************************************)
(* Functions over an interval that are defined by recursion, as the loops  *)
(* of the modules are. Induction is over a set of numbers, so that it has  *)
(* no operator for a parameter.                                            *)
(***************************************************************************)
EXTENDS Integers, WellFoundedInduction, TLAPS

\* A set that has 0, and with each number the next one, has all of them.
LEMMA SetInduction ==
  ASSUME NEW S, 0 \in S, \A n \in Nat : n \in S => n + 1 \in S
  PROVE  Nat \subseteq S
<1> DEFINE R == OpToRel(<, Nat)
           T == Nat \ S
<1>1. IsWellFoundedOn(R, Nat)
  BY NatLessThanWellFounded
<1>2. SUFFICES ASSUME T # {} PROVE FALSE
  OBVIOUS
<1>3. \E x \in T : \A y \in T : ~ (<<y, x>> \in R)
  <2>1. T \subseteq Nat
    OBVIOUS
  <2> HIDE DEF T, R
  <2> QED
    BY <1>1, <1>2, <2>1, WFMin
<1>4. \A x, y \in Nat : y < x => <<y, x>> \in R
  BY DEF OpToRel
<1> HIDE DEF R
<1>5. PICK x \in T : \A y \in T : ~ (<<y, x>> \in R)
  BY <1>3
<1>6. x \in Nat /\ x # 0
  OBVIOUS
<1>7. x - 1 \in Nat /\ x - 1 < x /\ (x - 1) + 1 = x
  BY <1>6
<1>8. x - 1 \in S
  BY <1>4, <1>5, <1>6, <1>7
<1> QED
  BY <1>5, <1>7, <1>8

\* A set of numbers has a least one.
LEMMA LeastNumber ==
  ASSUME NEW T, T \subseteq Nat, T # {}
  PROVE  \E x \in T : \A y \in T : x <= y
<1> DEFINE S == {n \in Nat : \A m \in 0..n : m \notin T}
<1> SUFFICES ASSUME ~ \E x \in T : \A y \in T : x <= y PROVE FALSE
  OBVIOUS
<1>1. 0 \in S
  OBVIOUS
<1>2. ASSUME NEW n \in Nat, n \in S PROVE n + 1 \in S
  <2>1. ASSUME n + 1 \in T PROVE FALSE
    <3>1. PICK y \in T : ~ (n + 1 <= y)
      BY <2>1
    <3>2. y \in 0..n
      BY <3>1
    <3> QED
      BY <1>2, <3>2
  <2>2. \A m \in 0..n+1 : m \in 0..n \/ m = n + 1
    OBVIOUS
  <2> QED
    BY <1>2, <2>1, <2>2
<1> HIDE DEF S
<1>3. Nat \subseteq S
  BY <1>1, <1>2, SetInduction
<1>4. PICK x \in T : TRUE
  OBVIOUS
<1>5. x \in S /\ x \in 0..x
  BY <1>3, <1>4
<1> QED
  BY <1>4, <1>5 DEF S

\* The same over an interval.
LEMMA IntervalInduction ==
  ASSUME NEW K \in Nat, NEW S, 0 \in S, \A n \in 1..K : n - 1 \in S => n \in S
  PROVE  0..K \subseteq S
<1> DEFINE T == {n \in Nat : n <= K => n \in S}
<1>1. 0 \in T
  OBVIOUS
<1>2. \A n \in Nat : n \in T => n + 1 \in T
  <2> SUFFICES ASSUME NEW n \in Nat, n <= K => n \in S, n + 1 <= K PROVE n + 1 \in S
    OBVIOUS
  <2>1. n + 1 \in 1..K /\ (n + 1) - 1 = n /\ n \in S
    OBVIOUS
  <2> QED
    BY <2>1
<1> HIDE DEF T
<1>3. Nat \subseteq T
  BY <1>1, <1>2, SetInduction
<1> QED
  BY <1>3 DEF T

\* Function g takes K steps from s: step number n by function F[n].
Stepping(g, K, S, s, F) ==
  g \in [0..K -> S] /\ g[0] = s /\ \A n \in 1..K : g[n] = F[n][g[n-1]]

LEMMA StepsExist ==
  ASSUME NEW K \in Nat, NEW S, NEW s \in S, NEW F \in [1..K -> [S -> S]]
  PROVE  \E g : Stepping(g, K, S, s, F)
<1> DEFINE T == {m \in 0..K : \E g : Stepping(g, m, S, s, F)}
<1>1. 0 \in T
  <2> DEFINE h == [n \in 0..0 |-> s]
  <2>1. h \in [0..0 -> S] /\ h[0] = s
    OBVIOUS
  <2> HIDE DEF h
  <2>2. Stepping(h, 0, S, s, F)
    BY <2>1 DEF Stepping
  <2> QED
    BY <2>2
<1>2. ASSUME NEW m \in 1..K, m - 1 \in T PROVE m \in T
  <2>1. PICK g : Stepping(g, m - 1, S, s, F)
    BY <1>2
  <2> DEFINE h == [n \in 0..m |-> IF n = m THEN F[m][g[m-1]] ELSE g[n]]
  <2>2. g \in [0..m-1 -> S] /\ g[0] = s /\ \A n \in 1..m-1 : g[n] = F[n][g[n-1]]
    BY <2>1 DEF Stepping
  <2>3. F[m][g[m-1]] \in S
    BY <2>2
  <2>4. h \in [0..m -> S] /\ h[0] = s
    BY <2>2, <2>3
  <2>5. ASSUME NEW n \in 1..m PROVE h[n] = F[n][h[n-1]]
    <3>1. CASE n = m
      BY <3>1
    <3>2. CASE n \in 1..m-1
      <4>1. h[n] = g[n] /\ h[n-1] = g[n-1]
        BY <3>2
      <4> QED
        BY <3>2, <4>1, <2>2
    <3> QED
      BY <3>1, <3>2
  <2> HIDE DEF h
  <2>6. Stepping(h, m, S, s, F)
    BY <2>4, <2>5 DEF Stepping
  <2> QED
    BY <2>6
<1> HIDE DEF T
<1>3. 0..K \subseteq T
  BY <1>1, <1>2, IntervalInduction
<1>4. K \in T
  BY <1>3
<1> QED
  BY <1>4 DEF T

\* What each step of a function keeps holds of all its values. P is the set of those that have it.
LEMMA StepsStay ==
  ASSUME NEW K \in Nat, NEW P, NEW f, f[0] \in P, \A n \in 1..K : f[n-1] \in P => f[n] \in P
  PROVE  \A n \in 0..K : f[n] \in P
<1> DEFINE T == {n \in 0..K : f[n] \in P}
<1>1. 0 \in T /\ \A n \in 1..K : n - 1 \in T => n \in T
  OBVIOUS
<1> HIDE DEF T
<1>2. 0..K \subseteq T
  BY <1>1, IntervalInduction
<1> QED
  BY <1>2 DEF T
=============================================================================
