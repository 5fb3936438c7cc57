---------------------------- MODULE NumberLemmas ----------------------------
(***************************************************************************)
(* Facts about greatest and least numbers, about numbering, recursion,     *)
(* products and quotients, for the proofs about Pages, Rooted and Panel.   *)
(***************************************************************************)
EXTENDS Integers, FiniteSets, FiniteSetsExt, FiniteSetTheorems, TLAPS

\* The number of a set's greatest element exists, where the set is finite: by
\* well-founded descent, a least set without one would lose an element.
LEMMA MaxIsGreatest ==
  ASSUME NEW S \in SUBSET Int, IsFiniteSet(S), S # {}
  PROVE  Max(S) \in S /\ \A x \in S : Max(S) >= x
<1> DEFINE HasMax(T) == \E m \in T : \A x \in T : m >= x
           Bad       == {T \in FiniteSubsetsOf(Int) : T # {} /\ ~HasMax(T)}
<1>1. Bad = {}
  <2>1. SUFFICES ASSUME Bad # {} PROVE FALSE
    OBVIOUS
  <2>2. PICK T \in Bad : \A U \in Bad : ~(<<U, T>> \in StrictSubsetOrdering(Int))
    <3>1. IsWellFoundedOn(StrictSubsetOrdering(Int), FiniteSubsetsOf(Int))
      BY FS_StrictSubsetOrderingWellFounded
    <3>2. Bad \subseteq FiniteSubsetsOf(Int)
      OBVIOUS
    <3> QED  BY ONLY <2>1, <3>1, <3>2, WFMin
  <2>3. T \subseteq Int /\ IsFiniteSet(T) /\ T # {} /\ ~HasMax(T)
    BY DEF FiniteSubsetsOf
  <2>4. PICK x \in T : TRUE
    BY <2>3
  <2> DEFINE U == T \ {x}
  <2>5. IsFiniteSet(U)
    BY <2>3, FS_RemoveElement
  <2>6. U \subseteq Int /\ U \subseteq T /\ U # T
    BY <2>3, <2>4
  <2>7. <<U, T>> \in StrictSubsetOrdering(Int)
    BY <2>3, <2>6 DEF StrictSubsetOrdering
  <2>8. U \notin Bad
    BY <2>2, <2>7
  <2>9. U = {} \/ HasMax(U)
    BY <2>5, <2>6, <2>8 DEF FiniteSubsetsOf
  <2>10. CASE U = {}
    <3>1. T = {x}
      BY <2>4, <2>10
    <3> QED  BY <2>3, <2>4, <3>1
  <2>11. CASE HasMax(U)
    <3>1. PICK m \in U : \A y \in U : m >= y
      BY <2>11
    <3>2. m \in Int /\ x \in Int
      BY <2>3, <2>4, <2>6
    <3>3. CASE m >= x
      BY <2>3, <2>4, <3>1, <3>2, <3>3
    <3>4. CASE ~(m >= x)
      <4>1. \A y \in T : x >= y
        BY <2>3, <3>1, <3>2, <3>4
      <4> QED  BY <2>3, <2>4, <4>1
    <3> QED  BY <3>3, <3>4
  <2> QED  BY <2>9, <2>10, <2>11
<1>2. S \in FiniteSubsetsOf(Int)
  BY DEF FiniteSubsetsOf
<1>3. HasMax(S)
  BY <1>1, <1>2
<1> QED  BY <1>3 DEF Max

\* A set of naturals has a least element, finite or not.
LEMMA MinIsLeast ==
  ASSUME NEW S \in SUBSET Nat, S # {}
  PROVE  Min(S) \in S /\ \A x \in S : Min(S) =< x
<1>1. PICK n \in S : TRUE
  OBVIOUS
<1> DEFINE Low == S \intersect 0 .. n
           Neg == {-x : x \in Low}
           neg == [x \in Low |-> -x]
<1>2. IsFiniteSet(Low)
  <2>1. IsFiniteSet(0 .. n)
    BY FS_Interval
  <2>2. Low \in SUBSET (0 .. n)
    OBVIOUS
  <2> QED  BY ONLY <2>1, <2>2, FS_Subset
<1>3. neg \in Surjection(Low, Neg)
  BY DEF Surjection
<1>4. IsFiniteSet(Neg)
  BY ONLY <1>2, <1>3, FS_Surjection
<1>5. Neg \in SUBSET Int /\ Neg # {}
  BY <1>1
<1>6. PICK m \in Low : -m = Max(Neg) /\ \A x \in Neg : -m >= x
  <2>1. Max(Neg) \in Neg /\ \A x \in Neg : Max(Neg) >= x
    BY ONLY <1>4, <1>5, MaxIsGreatest
  <2> QED  BY <2>1
<1>7. \A x \in S : m =< x
  <2>1. TAKE x \in S
  <2>2. CASE x \in Low
    <3>1. -x \in Neg /\ x \in Int /\ m \in Int
      BY <2>2
    <3>2. -m >= -x
      BY <1>6, <3>1
    <3> QED  BY <3>1, <3>2
  <2>3. CASE x \notin Low
    BY <2>3
  <2> QED  BY <2>2, <2>3
<1> QED  BY <1>6, <1>7 DEF Min

\* Where as many numbers are in use as there are records, no two records have the
\* same number.
LEMMA NumbersAreDistinct ==
  ASSUME NEW S, IsFiniteSet(S), Cardinality({x.n : x \in S}) = Cardinality(S),
         NEW x \in S, NEW y \in S, x.n = y.n
  PROVE  x = y
<1> DEFINE T == {z.n : z \in S}
           f == [z \in S |-> z.n]
<1>1. f \in Surjection(S, T)
  BY DEF Surjection
<1>2. f \in Injection(S, T)
  BY <1>1, FS_SurjSameCardinalityImpliesInj
<1>3. f[x] = f[y]
  OBVIOUS
<1> QED  BY <1>2, <1>3 DEF Injection, IsInjective

-----------------------------------------------------------------------------
(* Recursion and induction up to a number.                                 *)

\* What holds of 0 and is handed from each number to the next one holds up to n.
LEMMA Climb ==
  ASSUME NEW n \in Nat, NEW S, 0 \in S, \A i \in 0 .. n - 1 : i \in S => i + 1 \in S
  PROVE  0 .. n \subseteq S
<1> DEFINE Bad == (0 .. n) \ S
<1> SUFFICES ASSUME Bad # {} PROVE FALSE
  OBVIOUS
<1>1. Bad \in SUBSET Nat
  OBVIOUS
<1> HIDE DEF Bad
<1>2. Min(Bad) \in Bad /\ \A x \in Bad : Min(Bad) =< x
  BY <1>1, MinIsLeast
<1>3. PICK m \in Bad : \A x \in Bad : m =< x
  BY <1>2
<1>4. m \in 0 .. n /\ m \notin S /\ m - 1 \in 0 .. n - 1 /\ m - 1 \notin Bad
  BY <1>1, <1>3 DEF Bad
<1>5. m - 1 \in S
  BY <1>4 DEF Bad
<1>6. (m - 1) + 1 \in S
  BY <1>4, <1>5
<1> QED  BY <1>4, <1>6

\* A sequence of values, each made of the one before.
IsStep(step, n, V) == step \in [1 .. n -> [V -> V]]

Follows(f, n, V, base, step) ==
  f \in [0 .. n -> V] /\ f[0] = base /\ \A i \in 1 .. n : f[i] = step[i][f[i - 1]]

LEMMA RecursionExists ==
  ASSUME NEW V, NEW n \in Nat, NEW base \in V, NEW step, IsStep(step, n, V)
  PROVE  \E f : Follows(f, n, V, base, step)
<1> DEFINE Rec(f, m) == Follows(f, m, V, base, step)
           S == {m \in 0 .. n : \E f : Rec(f, m)}
<1>1. 0 \in S
  <2>1. Rec([i \in 0 .. 0 |-> base], 0)
    BY DEF Follows
  <2> HIDE DEF Rec
  <2> QED  BY <2>1
<1>2. ASSUME NEW m \in 0 .. n - 1, m \in S PROVE m + 1 \in S
  <2>1. PICK f : Rec(f, m)
    BY <1>2
  <2> DEFINE g == [i \in 0 .. m + 1 |-> IF i = m + 1 THEN step[m + 1][f[m]] ELSE f[i]]
  <2>2. m + 1 \in 1 .. n /\ m \in 0 .. m
    OBVIOUS
  <2>3. f[m] \in V /\ step[m + 1] \in [V -> V]
    BY <2>1, <2>2 DEF Follows, IsStep
  <2>4. g \in [0 .. m + 1 -> V]
    BY <2>1, <2>3 DEF Follows
  <2>5. g[0] = base
    BY <2>1 DEF Follows
  <2>6. ASSUME NEW i \in 1 .. m + 1 PROVE g[i] = step[i][g[i - 1]]
    <3>1. CASE i = m + 1
      BY <2>2, <3>1
    <3>2. CASE i # m + 1
      <4>1. i \in 1 .. m /\ i - 1 \in 0 .. m
        BY <3>2
      <4>2. g[i] = f[i] /\ g[i - 1] = f[i - 1]
        BY <4>1
      <4> QED  BY <2>1, <4>1, <4>2 DEF Follows
    <3> QED  BY <3>1, <3>2
  <2>7. Rec(g, m + 1)
    BY <2>4, <2>5, <2>6 DEF Follows
  <2> HIDE DEF Rec
  <2> QED  BY <2>2, <2>7
<1> HIDE DEF S
<1>3. 0 .. n \subseteq S
  BY <1>1, <1>2, Climb
<1>4. n \in S
  BY <1>3
<1> QED  BY <1>4 DEF S

-----------------------------------------------------------------------------
(* Products and quotients.                                                *)

\* A product's order is that of its factors.
LEMMA FactorsCompare ==
  ASSUME NEW m \in Nat \ {0}, NEW a \in Int, NEW b \in Int, m * a < m * b + m
  PROVE  a =< b
<1> SUFFICES ASSUME a >= b + 1 PROVE FALSE
  OBVIOUS
<1> DEFINE c == a - (b + 1)
<1>1. c \in Nat /\ a = b + 1 + c
  OBVIOUS
<1>2. m * c >= 0
  <2>1. \A x, y \in Nat : x * y \in Nat
    OBVIOUS
  <2> HIDE DEF c
  <2>2. m * c \in Nat
    BY ONLY <1>1, <2>1, m \in Nat \ {0}
  <2> QED  BY ONLY <2>2
<1> HIDE DEF c
<1>3. m * a = m * b + m + m * c
  BY <1>1
<1>4. m * a \in Int /\ m * b \in Int /\ m * c \in Int
  BY <1>1
<1> QED  BY <1>2, <1>3, <1>4

\* A quotient is the number of times that the divisor fits.
LEMMA QuotientIsBetween ==
  ASSUME NEW m \in Nat \ {0}, NEW x \in Nat
  PROVE  /\ x \div m \in Nat
         /\ m * (x \div m) =< x /\ x < m * (x \div m) + m
OBVIOUS

\* Another divisor's worth, or more, raises the quotient.
LEMMA QuotientsGrow ==
  ASSUME NEW m \in Nat \ {0}, NEW x \in Nat, NEW n \in Nat, m =< n
  PROVE  x \div m + 1 =< (x + n) \div m
<1> DEFINE q == x \div m
           r == (x + n) \div m
<1>1. q \in Nat /\ m * q =< x
  BY QuotientIsBetween
<1>2. x + n \in Nat
  OBVIOUS
<1>3. r \in Nat /\ x + n < m * r + m
  BY <1>2, QuotientIsBetween
<1> HIDE DEF q, r
<1>4. m * (q + 1) = m * q + m /\ m * q \in Int /\ m * r \in Int
  BY <1>1, <1>3
<1>5. m * (q + 1) < m * r + m
  BY <1>1, <1>3, <1>4
<1>6. q + 1 =< r
  BY <1>1, <1>3, <1>5, FactorsCompare
<1> QED  BY <1>6 DEF q, r

LEMMA QuotientIsBounded ==
  ASSUME NEW m \in Nat \ {0}, NEW x \in Nat, NEW n \in Nat, x =< m * n
  PROVE  x \div m =< n
<1>1. x \div m \in Nat /\ m * (x \div m) =< x
  BY QuotientIsBetween
<1> DEFINE q == x \div m
<1> HIDE DEF q
<1>2. q \in Nat /\ m * q =< x
  BY <1>1 DEF q
<1>3. m * q \in Int /\ m * n \in Int
  BY <1>2
<1>4. m * q < m * n + m
  BY <1>2, <1>3
<1>5. q =< n
  BY <1>2, <1>4, FactorsCompare
<1> QED  BY <1>5 DEF q

\* An interval has one end.
LEMMA IntervalsEnd ==
  ASSUME NEW a \in Nat, NEW b \in Nat, 1 .. a = 1 .. b
  PROVE  a = b
<1>1. (a = 0 \/ a \in 1 .. a) /\ (b = 0 \/ b \in 1 .. b)
  OBVIOUS
<1>2. (a = 0 \/ a \in 1 .. b) /\ (b = 0 \/ b \in 1 .. a)
  BY <1>1
<1> QED  BY ONLY <1>2, a \in Nat, b \in Nat

LEMMA OneTimeMore == \A b, n \in Nat : b > 0 => (b - 1) * n + n = b * n /\ (b - 1) * n \in Nat /\ b * n \in Nat
OBVIOUS

LEMMA ProductsKeepOrder ==
  ASSUME NEW x \in Nat, NEW y \in Nat, NEW z \in Nat, x =< y
  PROVE  z * x =< z * y
<1> DEFINE d == y - x
<1>1. d \in Nat /\ y = x + d
  OBVIOUS
<1> HIDE DEF d
<1>2. \A a, b \in Nat : a * b \in Nat
  OBVIOUS
<1>3. z * y = z * x + z * d
  BY <1>1
<1>4. z * d \in Nat /\ z * x \in Nat
  BY <1>1, <1>2
<1> QED  BY <1>3, <1>4
=============================================================================
