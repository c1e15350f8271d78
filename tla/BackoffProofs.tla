---------------------------- MODULE BackoffProofs ----------------------------
(* The backoff never overflows, whatever the interval and the attempts.     *)
EXTENDS Backoff, WellFoundedInduction, TLAPS

\* What the loop keeps: before it returns, d has been doubled from below the
\* cap, or is the interval itself.
LoopInv == TypeOK /\ DelayBounded

\* A duration of the half range is what it is.
LEMMA WrapId ==
  ASSUME NEW x \in 0..(Limit - 1)
  PROVE  Wrap(x) = x
<1>1. x + Limit \in Nat /\ x + Limit < 2 * Limit
  BY BackoffAssumption
<1>2. (x + Limit) % (2 * Limit) = x + Limit
  BY <1>1, BackoffAssumption, SMT
<1> QED
  BY <1>2, BackoffAssumption DEF Wrap

LEMMA LoopInvInit == Init => LoopInv
  BY BackoffAssumption DEF Init, LoopInv, TypeOK, DelayBounded

LEMMA LoopInvNext == LoopInv /\ [Next]_vars => LoopInv'
<1> SUFFICES ASSUME LoopInv, [Next]_vars PROVE LoopInv'
  OBVIOUS
<1> USE BackoffAssumption
<1>1. CASE Iterate
  <2>1. CASE d >= MaxBackoff
    BY <1>1, <2>1 DEF Iterate, LoopInv, TypeOK, DelayBounded
  <2>2. CASE d < MaxBackoff
    <3>1. 2 * d \in 0..(Limit - 1)
      BY <2>2 DEF LoopInv, TypeOK, DelayBounded
    <3>2. Wrap(2 * d) = 2 * d
      BY <3>1, WrapId
    <3> QED
      BY <1>1, <2>2, <3>1, <3>2 DEF Iterate, LoopInv, TypeOK, DelayBounded
  <2> QED
    BY <2>1, <2>2 DEF LoopInv, TypeOK
<1>2. CASE Return
  BY <1>2 DEF Return, LoopInv, TypeOK, DelayBounded
<1>3. CASE UNCHANGED vars
  BY <1>3 DEF vars, LoopInv, TypeOK, DelayBounded
<1> QED
  BY <1>1, <1>2, <1>3 DEF Next

\* Every value of the loop is a duration: nothing wraps out of the width.
THEOREM BackoffTypes == Spec => []TypeOK
<1>1. LoopInv => TypeOK
  BY DEF LoopInv
<1> QED
  BY <1>1, LoopInvInit, LoopInvNext, PTL DEF Spec

\* For every interval, attempt and cap the delay that backoff computes is
\* positive and at most the cap: the doubling in the loop never wraps.
THEOREM DelayNeverOverflows == Spec => []DelayBounded
<1>1. LoopInv => DelayBounded
  BY DEF LoopInv
<1> QED
  BY <1>1, LoopInvInit, LoopInvNext, PTL DEF Spec

-----------------------------------------------------------------------------
(* The exact delay.  Induction over the numbers comes from the library's     *)
(* WFMin, which speaks of sets and so can be cited: the least number of the  *)
(* set of counterexamples.                                                   *)

\* Membership in the library's relation is the order of the numbers.
LEMMA LessPairs ==
  \A x, y \in Nat : <<x, y>> \in OpToRel(<, Nat) <=> x < y
BY Zenon DEF OpToRel

\* A set of numbers that is not empty has a least one.
LEMMA LeastNumber ==
  ASSUME NEW T \in SUBSET Nat, T # {}
  PROVE  \E m \in T : \A y \in T : m <= y
<1>1. PICK m \in T : \A y \in T : ~ (<<y, m>> \in OpToRel(<, Nat))
  BY NatLessThanWellFounded, WFMin
<1>2. \A y \in T : ~ (y < m)
  BY <1>1, LessPairs
<1> QED
  BY <1>2

\* Induction over the numbers, for a property given as the set of its numbers.
LEMMA Induction ==
  ASSUME NEW T \in SUBSET Nat, 0 \in T, \A n \in T : n + 1 \in T
  PROVE  T = Nat
<1> SUFFICES ASSUME Nat \ T # {} PROVE FALSE
  OBVIOUS
<1>1. PICK m \in Nat \ T : \A y \in Nat \ T : m <= y
  BY LeastNumber
<1>2. m # 0
  BY <1>1
<1>3. m - 1 \in Nat /\ m - 1 < m
  BY <1>2
<1>4. m - 1 \in T
  BY <1>1, <1>3
<1>5. (m - 1) + 1 \in T
  BY <1>4
<1> QED
  BY <1>1, <1>5

\* The powers up to n as a table: what the recursion of Pow2 says so far.
Powers(n) ==
  {g \in [0..n -> Nat] : g[0] = 1 /\ \A k \in 1..n : g[k] = 2 * g[k - 1]}

LEMMA PowersExist == \A n \in Nat : Powers(n) # {}
<1> DEFINE T == {n \in Nat : Powers(n) # {}}
<1>1. 0 \in T
  <2>1. [k \in 0..0 |-> 1] \in Powers(0)
    BY DEF Powers
  <2> QED
    BY <2>1
<1>2. ASSUME NEW n \in T PROVE n + 1 \in T
  <2>1. PICK g \in Powers(n) : TRUE
    OBVIOUS
  <2>2. n \in Nat /\ g \in [0..n -> Nat] /\ g[0] = 1
        /\ \A k \in 1..n : g[k] = 2 * g[k - 1]
    BY <2>1 DEF Powers
  <2> DEFINE h == [k \in 0..(n + 1) |-> IF k = n + 1 THEN 2 * g[n] ELSE g[k]]
  <2>3. h \in [0..(n + 1) -> Nat]
    BY <2>2
  <2>4. h[0] = 1
    BY <2>2
  <2>5. ASSUME NEW k \in 1..(n + 1) PROVE h[k] = 2 * h[k - 1]
    BY <2>2
  <2>6. h \in Powers(n + 1)
    BY <2>2, <2>3, <2>4, <2>5 DEF Powers
  <2> QED
    BY <2>2, <2>6
<1> HIDE DEF T
<1>3. T \in SUBSET Nat
  BY DEF T
<1>4. T = Nat
  BY <1>1, <1>2, <1>3, Induction
<1> QED
  BY <1>4 DEF T

LEMMA PowersAgree ==
  ASSUME NEW n \in Nat, NEW m \in 0..n, NEW g \in Powers(n), NEW h \in Powers(m),
         NEW j \in 0..m
  PROVE  g[j] = h[j]
<1> DEFINE T == {k \in 0..m : g[k] # h[k]}
<1> SUFFICES ASSUME T # {} PROVE FALSE
  OBVIOUS
<1>1. T \in SUBSET Nat
  OBVIOUS
<1>2. PICK k \in T : \A y \in T : k <= y
  BY <1>1, LeastNumber
<1>3. k # 0
  BY <1>2 DEF Powers
<1>4. k \in 1..m /\ k - 1 \in 0..m /\ k \in 1..n
  BY <1>3
<1>5. ~ (k <= k - 1)
  BY <1>4
<1>6. g[k - 1] = h[k - 1]
  BY <1>2, <1>4, <1>5
<1>7. g[k] = 2 * g[k - 1] /\ h[k] = 2 * h[k - 1]
  BY <1>4 DEF Powers
<1> QED
  BY <1>2, <1>6, <1>7

\* Pow2 is what its recursion says, for every number.
LEMMA Pow2Recursion ==
  /\ Pow2 \in [Nat -> Nat]
  /\ Pow2[0] = 1
  /\ \A n \in Nat : Pow2[n + 1] = 2 * Pow2[n]
<1> DEFINE table(n) == CHOOSE g \in Powers(n) : TRUE
           F == [n \in Nat |-> table(n)[n]]
<1>1. ASSUME NEW n \in Nat PROVE table(n) \in Powers(n)
  BY PowersExist
<1> HIDE DEF table
<1>2. F \in [Nat -> Nat]
  BY <1>1 DEF Powers
<1>3. F[0] = 1
  BY <1>1 DEF Powers
<1>4. ASSUME NEW n \in Nat PROVE F[n + 1] = 2 * F[n]
  <2>1. n + 1 \in Nat /\ n \in 0..(n + 1) /\ n \in 0..n /\ n + 1 \in 1..(n + 1)
    OBVIOUS
  <2>2. table(n + 1)[n] = table(n)[n]
    BY <1>1, <2>1, PowersAgree
  <2>3. table(n + 1)[n + 1] = 2 * table(n + 1)[n]
    BY <1>1, <2>1 DEF Powers
  <2> QED
    BY <2>1, <2>2, <2>3
<1>5. ASSUME NEW n \in Nat
      PROVE  F[n] = IF n = 0 THEN 1 ELSE 2 * F[n - 1]
  <2>1. CASE n = 0
    BY <2>1, <1>3
  <2>2. CASE n # 0
    <3>1. n - 1 \in Nat /\ (n - 1) + 1 = n
      BY <2>2
    <3> HIDE DEF F
    <3>2. F[(n - 1) + 1] = 2 * F[n - 1]
      BY <1>4, <3>1
    <3> QED
      BY <2>2, <3>1, <3>2
  <2> QED
    BY <2>1, <2>2
<1> HIDE DEF F
<1>6. F = [n \in Nat |-> IF n = 0 THEN 1 ELSE 2 * F[n - 1]]
  BY <1>2, <1>5
<1>7. Pow2 = [n \in Nat |-> IF n = 0 THEN 1 ELSE 2 * Pow2[n - 1]]
  BY <1>6, Zenon DEF Pow2
<1>8. Pow2[0] = 1
  BY <1>7
<1>9. ASSUME NEW n \in Nat PROVE Pow2[n + 1] = 2 * Pow2[n]
  <2>1. n + 1 \in Nat /\ n + 1 # 0 /\ (n + 1) - 1 = n
    OBVIOUS
  <2> QED
    BY <1>7, <2>1
<1> DEFINE T == {n \in Nat : Pow2[n] \in Nat}
<1>10. 0 \in T
  BY <1>8
<1>11. ASSUME NEW n \in T PROVE n + 1 \in T
  BY <1>9
<1>12. T \in SUBSET Nat
  OBVIOUS
<1> HIDE DEF T
<1>13. T = Nat
  BY <1>10, <1>11, <1>12, Induction
<1>14. \A n \in Nat : Pow2[n] \in Nat
  BY <1>13 DEF T
<1>15. Pow2 \in [Nat -> Nat]
  BY <1>7, <1>14
<1> QED
  BY <1>8, <1>9, <1>15

\* The powers do not fall.
LEMMA Pow2Monotone ==
  ASSUME NEW a \in Nat, NEW b \in Nat, a <= b
  PROVE  Pow2[a] <= Pow2[b]
<1> DEFINE T == {n \in Nat : Pow2[a] <= Pow2[a + n]}
<1>1. T \in SUBSET Nat
  OBVIOUS
<1>2. 0 \in T
  BY Pow2Recursion
<1>3. ASSUME NEW n \in T PROVE n + 1 \in T
  <2>1. a + n \in Nat /\ (a + n) + 1 = a + (n + 1)
    BY <1>1
  <2>2. Pow2[a + (n + 1)] = 2 * Pow2[a + n]
    BY <2>1, Pow2Recursion
  <2>3. Pow2[a] \in Nat /\ Pow2[a + n] \in Nat
    BY <2>1, Pow2Recursion
  <2> QED
    BY <2>2, <2>3
<1> HIDE DEF T
<1>4. T = Nat
  BY <1>1, <1>2, <1>3, Induction
<1>5. b - a \in T /\ a + (b - a) = b
  BY <1>4
<1> QED
  BY <1>5 DEF T

LEMMA TimesMonotone ==
  ASSUME NEW x \in Nat, NEW y \in Nat, NEW z \in Nat, x <= y
  PROVE  z * x <= z * y
BY SMT

\* What the loop knows of the power: so far d is the exact product.
ExactInv ==
  /\ pc = "loop" => d = interval * Pow2[i]
  /\ Exact

LEMMA ExactInit == Init => ExactInv
<1> SUFFICES ASSUME Init PROVE ExactInv
  OBVIOUS
<1>1. interval * Pow2[0] = interval
  BY Pow2Recursion, BackoffAssumption DEF Init
<1> QED
  BY <1>1 DEF Init, ExactInv, Exact

LEMMA ExactNext == LoopInv /\ ExactInv /\ [Next]_vars => ExactInv'
<1> SUFFICES ASSUME LoopInv, ExactInv, [Next]_vars PROVE ExactInv'
  OBVIOUS
<1>t. /\ interval \in Nat /\ attempts \in Nat /\ i \in Nat /\ i <= attempts
      /\ d \in Int /\ MaxBackoff \in Nat
  BY BackoffAssumption DEF LoopInv, TypeOK
<1>p. Pow2[i] \in Nat /\ Pow2[attempts] \in Nat
  BY <1>t, Pow2Recursion
<1> DEFINE total == interval * Pow2[attempts]
<1>m. interval * Pow2[i] <= total
  BY <1>t, <1>p, Pow2Monotone, TimesMonotone
<1>n. total \in Nat
  BY <1>t, <1>p
<1>1. CASE Iterate
  <2>1. pc = "loop" /\ d = interval * Pow2[i]
    BY <1>1 DEF Iterate, ExactInv
  <2>2. interval' = interval /\ attempts' = attempts
    BY <1>1 DEF Iterate
  <2>3. CASE d >= MaxBackoff
    <3>1. d' = MaxBackoff /\ pc' = "return"
      BY <1>1, <2>3 DEF Iterate
    <3> HIDE DEF total
    <3>2. ~ (total < MaxBackoff)
      BY <1>t, <1>m, <1>n, <2>1, <2>3
    <3> QED
      BY <2>2, <3>1, <3>2 DEF ExactInv, Exact, total
  <2>4. CASE ~ (d >= MaxBackoff)
    <3>1. d' = Wrap(2 * d) /\ pc' = "loop" /\ i' = i + 1
      BY <1>1, <2>4 DEF Iterate
    <3>2. 2 * d \in 0..(Limit - 1)
      BY <2>1, <2>4, BackoffAssumption DEF LoopInv, TypeOK, DelayBounded
    <3>3. d' = 2 * d
      BY <3>1, <3>2, WrapId
    <3>4. Pow2[i + 1] = 2 * Pow2[i]
      BY <1>t, Pow2Recursion
    <3>5. 2 * (interval * Pow2[i]) = interval * (2 * Pow2[i])
      BY <1>t, <1>p
    <3> QED
      BY <2>1, <2>2, <3>1, <3>3, <3>4, <3>5 DEF ExactInv, Exact
  <2> QED
    BY <2>3, <2>4
<1>2. CASE Return
  <2>1. d = total
    BY <1>2 DEF Return, ExactInv
  <2>2. /\ interval' = interval /\ attempts' = attempts /\ pc' = "return"
        /\ d' = IF d < MaxBackoff THEN d ELSE MaxBackoff
    BY <1>2 DEF Return
  <2> QED
    BY <2>1, <2>2 DEF ExactInv, Exact
<1>3. CASE UNCHANGED vars
  BY <1>3 DEF vars, ExactInv, Exact
<1> QED
  BY <1>1, <1>2, <1>3 DEF Next

\* For every interval, cap, width and number of attempts backoff returns the
\* interval times two to the attempts, capped: the loop's early exit never
\* shortens a delay, and the doubling never loses a bit of it.
THEOREM DelayExact == Spec => []Exact
<1>1. Init => LoopInv /\ ExactInv
  BY LoopInvInit, ExactInit
<1>2. (LoopInv /\ ExactInv) /\ [Next]_vars => (LoopInv /\ ExactInv)'
  BY LoopInvNext, ExactNext
<1>3. LoopInv /\ ExactInv => Exact
  BY DEF ExactInv
<1> QED
  BY <1>1, <1>2, <1>3, PTL DEF Spec
=============================================================================
