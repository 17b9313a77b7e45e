--------------------------- MODULE InductionLemmas --------------------------
(***************************************************************************)
(* Induction over sets of naturals, and the existence of functions defined *)
(* by recursion over an interval.  A property is given as the set of the   *)
(* naturals that have it, and a step as a function.                        *)
(***************************************************************************)
EXTENDS SequenceTheorems, WellFoundedInduction, TLAPS

\* A set of naturals that holds a and, with n, n + 1 up to m, holds all of a..m.
LEMMA UpTo ==
    ASSUME NEW a \in Nat, NEW m \in Nat, NEW P,
           a \in P, \A n \in a..(m - 1) : n \in P => n + 1 \in P
    PROVE  a..m \subseteq P
<1> DEFINE Q == (a..m) \ P
<1> SUFFICES ASSUME Q # {}
             PROVE  FALSE
  OBVIOUS
<1>1. Q \subseteq Nat
  OBVIOUS
<1>2. PICK n \in Q : \A j \in Q : ~(<<j, n>> \in OpToRel(<, Nat))
  BY <1>1, NatLessThanWellFounded, WFMin
<1>3. n \in a..m /\ n \notin P /\ n # a
  BY <1>2
<1>4. n - 1 \in a..(m - 1) /\ n = (n - 1) + 1
  BY <1>3
<1>5. n - 1 \in P
  <2>1. n \in Nat /\ n - 1 \in Nat /\ n - 1 < n /\ n - 1 \in a..m
    BY <1>3
  <2>2. <<n - 1, n>> \in OpToRel(<, Nat)
    BY <2>1, Zenon DEF OpToRel
  <2> QED BY <2>1, <2>2, <1>2
<1> QED BY <1>3, <1>4, <1>5

\* A set of naturals that holds n as soon as it holds all smaller ones holds all.
LEMMA AllSmaller ==
    ASSUME NEW P, \A n \in Nat : (\A m \in 0..(n - 1) : m \in P) => n \in P
    PROVE  Nat \subseteq P
<1> DEFINE Q == Nat \ P
<1> SUFFICES ASSUME Q # {}
             PROVE  FALSE
  OBVIOUS
<1>1. Q \subseteq Nat
  OBVIOUS
<1>2. PICK n \in Q : \A j \in Q : ~(<<j, n>> \in OpToRel(<, Nat))
  BY <1>1, NatLessThanWellFounded, WFMin
<1>3. ASSUME NEW m \in 0..(n - 1)
      PROVE  m \in P
  <2>1. n \in Nat /\ m \in Nat /\ m < n
    BY <1>3
  <2>2. <<m, n>> \in OpToRel(<, Nat)
    BY <2>1, Zenon DEF OpToRel
  <2> QED BY <2>1, <2>2, <1>2
<1> QED BY <1>2, <1>3

\* f repeats the step n times from a.
Repeats(f, n, X, a, step) ==
    f \in [0..n -> X] /\ f[0] = a /\ \A i \in 1..n : f[i] = step[<<f[i - 1], i>>]

\* A step that stays in X can be repeated from any element of X.
LEMMA RunExists ==
    ASSUME NEW n \in Nat, NEW X, NEW a \in X, NEW step,
           \A x \in X : \A i \in 1..n : step[<<x, i>>] \in X
    PROVE  \E f : Repeats(f, n, X, a, step)
<1> DEFINE IsRun(f, m) == Repeats(f, m, X, a, step)
           P == {m \in 0..n : \E f : IsRun(f, m)}
<1>1. 0 \in P
  <2>1. IsRun([i \in 0..0 |-> a], 0)
    BY DEF Repeats
  <2> HIDE DEF IsRun
  <2> QED BY <2>1
<1>2. ASSUME NEW m \in 0..(n - 1), m \in P
      PROVE  m + 1 \in P
  <2>1. PICK f : IsRun(f, m)
    BY <1>2
  <2> DEFINE g == [i \in 0..(m + 1) |-> IF i <= m THEN f[i] ELSE step[<<f[m], m + 1>>]]
  <2>2. f[m] \in X /\ step[<<f[m], m + 1>>] \in X
    <3>1. m \in 0..m /\ m + 1 \in 1..n
      OBVIOUS
    <3> QED BY <2>1, <3>1 DEF Repeats
  <2>3. g \in [0..(m + 1) -> X] /\ g[0] = a
    BY <2>1, <2>2 DEF Repeats
  <2>4. ASSUME NEW i \in 1..(m + 1)
        PROVE  g[i] = step[<<g[i - 1], i>>]
    <3>1. CASE i <= m
      <4>1. i \in 1..m /\ g[i] = f[i] /\ g[i - 1] = f[i - 1]
        BY <3>1
      <4> QED BY <4>1, <2>1 DEF Repeats
    <3>2. CASE ~(i <= m)
      <4>1. i = m + 1 /\ g[i - 1] = f[m] /\ g[i] = step[<<f[m], m + 1>>]
        BY <3>2
      <4> QED BY <4>1
    <3> QED BY <3>1, <3>2
  <2>5. IsRun(g, m + 1) /\ m + 1 \in 0..n
    <3> HIDE DEF g
    <3> QED BY <2>3, <2>4 DEF Repeats
  <2> HIDE DEF IsRun
  <2> QED BY <2>5
<1> HIDE DEF P
<1>3. n \in P
  <2>1. 0..n \subseteq P
    BY <1>1, <1>2, UpTo
  <2> QED BY <2>1
<1> QED BY <1>3 DEF P

\* What a step never leaves, a run never leaves.
LEMMA RunStays ==
    ASSUME NEW n \in Nat, NEW X, NEW f, f[0] \in X,
           \A i \in 1..n : f[i - 1] \in X => f[i] \in X
    PROVE  \A i \in 0..n : f[i] \in X
<1> DEFINE P == {i \in 0..n : f[i] \in X}
<1>1. 0 \in P
  OBVIOUS
<1>2. ASSUME NEW i \in 0..(n - 1), i \in P
      PROVE  i + 1 \in P
  <2>1. i + 1 \in 1..n /\ i + 1 \in 0..n /\ (i + 1) - 1 = i
    OBVIOUS
  <2>2. f[i] \in X
    BY <1>2
  <2> QED BY <2>1, <2>2
<1> HIDE DEF P
<1>3. 0..n \subseteq P
  BY <1>1, <1>2, UpTo
<1> QED BY <1>3 DEF P

\* A set of naturals that is not empty has a least element.
LEMMA LeastExists ==
    ASSUME NEW P, P \subseteq Nat, P # {}
    PROVE  \E n \in P : \A m \in P : n <= m
<1>1. PICK n \in P : \A m \in P : ~(<<m, n>> \in OpToRel(<, Nat))
  BY NatLessThanWellFounded, WFMin
<1>2. ASSUME NEW m \in P
      PROVE  n <= m
  <2>1. CASE m < n
    <3>1. <<m, n>> \in OpToRel(<, Nat)
      BY <2>1, Zenon DEF OpToRel
    <3> QED BY <1>1, <3>1
  <2>2. CASE ~(m < n)
    <3>1. m \in Nat /\ n \in Nat
      OBVIOUS
    <3> QED BY <2>2, <3>1
  <2> QED BY <2>1, <2>2
<1> QED BY <1>2

\* A non-empty set of numbers with a bound has a greatest element.
LEMMA GreatestExists ==
    ASSUME NEW n \in Nat, NEW P, P \subseteq 0..n, P # {}
    PROVE  \E g \in P : \A m \in P : g >= m
<1> DEFINE Q == {k \in 0..n : n - k \in P}
<1>1. Q \subseteq Nat /\ Q # {}
  <2>1. PICK p \in P : TRUE
    OBVIOUS
  <2>2. n - p \in 0..n /\ n - (n - p) = p
    BY <2>1
  <2>3. n - p \in Q
    BY <2>1, <2>2
  <2>4. \A k \in 0..n : k \in Nat
    OBVIOUS
  <2>5. Q \subseteq 0..n
    OBVIOUS
  <2> HIDE DEF Q
  <2> QED BY <2>3, <2>4, <2>5
<1>2. \A m \in P : m \in 0..n /\ n - m \in Q
  <2> SUFFICES ASSUME NEW m \in P
               PROVE  m \in 0..n /\ n - m \in Q
    OBVIOUS
  <2>1. m \in 0..n
    OBVIOUS
  <2>2. n - m \in 0..n /\ n - (n - m) = m
    BY <2>1
  <2> QED BY <2>1, <2>2
<1>3. \A k \in Q : k \in 0..n /\ n - k \in P
  OBVIOUS
<1> HIDE DEF Q
<1>4. PICK k \in Q : \A l \in Q : k <= l
  BY <1>1, LeastExists
<1>5. k \in 0..n /\ n - k \in P
  BY <1>3
<1>6. ASSUME NEW m \in P
      PROVE  n - k >= m
  <2>1. m \in 0..n /\ k <= n - m
    BY <1>2, <1>4
  <2> QED BY <2>1, <1>5
<1> QED BY <1>5, <1>6
=============================================================================
