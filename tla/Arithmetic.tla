------------------------------- MODULE Arithmetic -------------------------------
(***************************************************************************)
(* Facts about numbers, and about the sums of the community modules, that  *)
(* the proofs about the parts rest on.                                     *)
(***************************************************************************)
EXTENDS Integers, WellFoundedInduction, FiniteSetTheorems, TLAPS

-----------------------------------------------------------------------------
(* Numbers.                                                                *)

\* A positive factor keeps the order of two numbers.
LEMMA Products ==
    ASSUME NEW a \in Int, NEW b \in Int, NEW m \in Nat \ {0}
    PROVE  /\ a <= b => a * m <= b * m
           /\ a < b => a * m < b * m
           /\ a * m = b * m => a = b
           /\ a * m <= b * m => a <= b
           /\ a * m < b * m => a < b
OBVIOUS

\* One more and one less of the same length.
LEMMA StepsOf ==
    ASSUME NEW n \in Int, NEW m \in Int
    PROVE  /\ n * m \in Int /\ (n + 1) * m = n * m + m /\ (n - 1) * m = n * m - m
           /\ (n + 1) - 1 = n /\ n \in Nat /\ m \in Nat => n * m \in Nat
OBVIOUS

\* What a division leaves is less than the divisor.
LEMMA Quotient ==
    ASSUME NEW t \in Int, NEW d \in Nat \ {0}
    PROVE  t \div d \in Int /\ (t \div d) * d <= t /\ t < (t \div d + 1) * d
OBVIOUS

\* The quotient is the only number with that property.
LEMMA QuotientIs ==
    ASSUME NEW t \in Int, NEW d \in Nat \ {0}, NEW k \in Int, k * d <= t, t < (k + 1) * d
    PROVE  t \div d = k
OBVIOUS

\* An odd number has a remainder.
LEMMA OddIs == \A k, n \in Int : k = 2 * n + 1 => k % 2 = 1
<1> SUFFICES ASSUME NEW k \in Int, NEW n \in Int, k = 2 * n + 1
             PROVE  k % 2 = 1
  OBVIOUS
<1> DEFINE q == k \div 2
           r == k % 2
<1>1. k = 2 * q + r /\ q \in Int /\ r \in 0..1
  OBVIOUS
<1> HIDE DEF q, r
<1>2. r = 1
  BY <1>1
<1> QED
  BY <1>2 DEF r

\* A coarser division is one of the finer.
LEMMA QuotientTwice ==
    ASSUME NEW t \in Int, NEW m \in Nat \ {0}, NEW n \in Nat \ {0}
    PROVE  t \div (n * m) = (t \div m) \div n
<1> DEFINE q == t \div m
           k == q \div n
<1>1. q \in Int /\ q * m <= t /\ t < (q + 1) * m
  BY Quotient
<1>2. k \in Int /\ k * n <= q /\ q + 1 <= (k + 1) * n
  BY <1>1, Quotient
<1> HIDE DEF q, k
<1>3. (k * n) * m <= t /\ t < ((k + 1) * n) * m
  BY <1>1, <1>2, Products
<1>4. n * m \in Nat \ {0} /\ (k * n) * m = k * (n * m) /\ ((k + 1) * n) * m = (k + 1) * (n * m)
  BY <1>2
<1> DEFINE d == n * m
<1>5. d \in Nat \ {0} /\ k * d <= t /\ t < (k + 1) * d
  BY <1>3, <1>4
<1>6. t \div d = k
  BY <1>2, <1>5, QuotientIs
<1> QED
  BY <1>6 DEF k, q

\* Naturals have a smallest.
LEMMA SmallestExists ==
    ASSUME NEW S \in SUBSET Nat, S # {}
    PROVE  \E m \in S : \A x \in S : m <= x
<1> DEFINE R == {ss \in Nat \X Nat : ss[1] < ss[2]}
<1>1. IsWellFoundedOn(R, Nat)
  BY NatLessThanWellFounded, Zenon DEF OpToRel
<1>2. \A x, y \in Nat : x < y => <<x, y>> \in R
  OBVIOUS
<1> HIDE DEF R
<1>3. PICK m \in S : \A y \in S : ~(<<y, m>> \in R)
  BY <1>1, WFMin
<1>4. \A y \in S : ~(y < m)
  BY <1>2, <1>3
<1> QED
  BY <1>4

\* Integers that are bounded have a largest.
LEMMA LargestExists ==
    ASSUME NEW S \in SUBSET Int, S # {}, NEW n \in Int, \A x \in S : x <= n
    PROVE  \E m \in S : \A x \in S : x <= m
<1> DEFINE T == {n - x : x \in S}
<1>1. T \in SUBSET Nat /\ T # {}
  <2>1. \A x \in S : x \in Int /\ n - x \in Nat
    OBVIOUS
  <2> QED
    BY <2>1
<1>2. PICK t \in T : \A y \in T : t <= y
  BY <1>1, SmallestExists
<1>3. PICK m \in S : t = n - m
  OBVIOUS
<1>4. \A x \in S : n - m <= n - x
  BY <1>2, <1>3
<1> QED
  BY <1>4

\* Numbers that are counted have a bound.
LEMMA BoundedImages ==
    ASSUME NEW n \in Nat, NEW v, \A j \in 1..n : v[j] \in Int
    PROVE  \E b \in Int : \A j \in 1..n : v[j] <= b
<1> DEFINE Fails == {k \in 0..n : ~\E b \in Int : \A j \in 1..k : v[j] <= b}
<1>1. Fails = {}
  <2> SUFFICES ASSUME Fails # {} PROVE FALSE
    OBVIOUS
  <2>1. PICK k \in Fails : \A x \in Fails : k <= x
    <3>1. Fails \in SUBSET Nat
      OBVIOUS
    <3> HIDE DEF Fails
    <3> QED
      BY <3>1, SmallestExists
  <2>2. k \in Nat /\ k <= n /\ ~\E b \in Int : \A j \in 1..k : v[j] <= b
    OBVIOUS
  <2>3. k # 0
    <3>1. \A j \in 1..0 : v[j] <= 0
      OBVIOUS
    <3> QED
      BY <2>2, <3>1
  <2>4. k - 1 \in 0..n /\ k - 1 \notin Fails
    <3>1. k - 1 \in 0..n /\ ~(k <= k - 1)
      BY <2>2, <2>3
    <3> HIDE DEF Fails
    <3> QED
      BY <2>1, <3>1
  <2>5. PICK b \in Int : \A j \in 1..k - 1 : v[j] <= b
    BY <2>4
  <2>6. v[k] \in Int
    BY <2>2, <2>3
  <2>7. PICK t \in Int : b <= t /\ v[k] <= t
    <3> DEFINE y == v[k]
             t == IF b <= y THEN y ELSE b
    <3>1. y \in Int
      BY <2>6
    <3> HIDE DEF y
    <3>2. t \in Int /\ b <= t /\ y <= t
      BY <3>1
    <3> HIDE DEF t
    <3> QED
      BY <3>2 DEF y
  <2>8. \A j \in 1..k : v[j] <= t
    <3> SUFFICES ASSUME NEW j \in 1..k PROVE v[j] <= t
      OBVIOUS
    <3>1. CASE j = k
      BY <2>7, <3>1
    <3>2. CASE j # k
      <4>1. j \in 1..k - 1 /\ j \in 1..n
        BY <2>2, <3>2
      <4>2. v[j] \in Int /\ v[j] <= b
        BY <2>5, <4>1
      <4> QED
        BY <2>7, <4>2
    <3> QED
      BY <3>1, <3>2
  <2> QED
    BY <2>2, <2>8
<1>2. n \in 0..n
  OBVIOUS
<1>3. ~(n \in Fails)
  <2> HIDE DEF Fails
  <2> QED
    BY <1>1
<1> QED
  BY <1>2, <1>3

-----------------------------------------------------------------------------
(* Sums, as MapThenSumSet makes them: an element is picked, the rest follows. *)

Pick(s) == CHOOSE x \in s : TRUE

\* g sums up the values v of the elements of every subset of S.
IsSum(g, v, S) ==
    g = [s \in SUBSET S |-> IF s = {} THEN 0 ELSE v[Pick(s)] + g[s \ {Pick(s)}]]

\* g does so for the subsets of at most n elements.
SumsUpTo(g, v, S, n) ==
    \A s \in SUBSET S : Cardinality(s) <= n =>
        g[s] = IF s = {} THEN 0 ELSE v[Pick(s)] + g[s \ {Pick(s)}]

\* What is picked is of the set.
LEMMA Picked == \A s : s # {} => Pick(s) \in s
BY DEF Pick

\* What is picked leaves one element less.
LEMMA PickedLeaves ==
    ASSUME NEW S, IsFiniteSet(S), NEW s \in SUBSET S, s # {}
    PROVE  /\ s \ {Pick(s)} \in SUBSET S
           /\ Cardinality(s) \in Nat /\ Cardinality(s \ {Pick(s)}) \in Nat
           /\ Cardinality(s \ {Pick(s)}) = Cardinality(s) - 1
<1>1. IsFiniteSet(s) /\ Pick(s) \in s
  BY FS_Subset, Picked
<1>2. Cardinality(s) \in Nat
  BY <1>1, FS_CardinalityType
<1>3. Cardinality(s \ {Pick(s)}) = Cardinality(s) - 1 /\ IsFiniteSet(s \ {Pick(s)})
  BY <1>1, FS_RemoveElement
<1>4. Cardinality(s \ {Pick(s)}) \in Nat
  BY <1>3, FS_CardinalityType
<1> QED
  BY <1>2, <1>3, <1>4

\* There is a sum over any finite set.
LEMMA SumExists ==
    ASSUME NEW S, IsFiniteSet(S), NEW v
    PROVE  \E g : IsSum(g, v, S)
<1> DEFINE Fails == {n \in Nat : ~\E g : SumsUpTo(g, v, S, n)}
<1>1. \A s \in SUBSET S : /\ Cardinality(s) \in Nat /\ Cardinality(s) <= Cardinality(S)
                          /\ Cardinality(s) = 0 <=> s = {}
  BY FS_Subset, FS_CardinalityType, FS_EmptySet
<1>2. Fails = {}
  <2> SUFFICES ASSUME Fails # {} PROVE FALSE
    OBVIOUS
  <2>1. PICK n \in Fails : \A m \in Fails : n <= m
    <3> HIDE DEF Fails
    <3>1. Fails \in SUBSET Nat
      BY DEF Fails
    <3> QED
      BY <3>1, SmallestExists
  <2>2. CASE n = 0
    <3> DEFINE g == [s \in SUBSET S |-> 0]
    <3>1. SumsUpTo(g, v, S, 0)
      <4> SUFFICES ASSUME NEW s \in SUBSET S, Cardinality(s) <= 0
                   PROVE  g[s] = 0 /\ s = {}
        BY DEF SumsUpTo
      <4> QED
        BY <1>1
    <3> QED
      BY <2>2, <3>1
  <2>3. CASE n # 0
    <3>1. n \in Nat /\ n - 1 \in Nat /\ ~(n <= n - 1)
      BY <2>3
    <3>2. PICK g : SumsUpTo(g, v, S, n - 1)
      BY <2>1, <3>1
    <3> DEFINE h == [s \in SUBSET S |->
                       IF Cardinality(s) <= n - 1 THEN g[s] ELSE v[Pick(s)] + g[s \ {Pick(s)}]]
    <3>3. SumsUpTo(h, v, S, n)
      <4> SUFFICES ASSUME NEW s \in SUBSET S, Cardinality(s) <= n
                   PROVE  h[s] = IF s = {} THEN 0 ELSE v[Pick(s)] + h[s \ {Pick(s)}]
        BY DEF SumsUpTo
      <4>1. CASE s = {}
        <5>1. Cardinality(s) <= n - 1
          BY <1>1, <3>1, <4>1
        <5>2. g[s] = 0
          BY <3>2, <4>1, <5>1 DEF SumsUpTo
        <5> QED
          BY <4>1, <5>1, <5>2
      <4>2. CASE s # {}
        <5> DEFINE t == s \ {Pick(s)}
        <5>1. t \in SUBSET S /\ Cardinality(t) = Cardinality(s) - 1 /\ Cardinality(s) \in Nat
          BY <4>2, PickedLeaves
        <5>2. Cardinality(t) <= n - 1
          BY <3>1, <5>1
        <5>3. h[t] = g[t]
          BY <5>1, <5>2
        <5>4. Cardinality(s) <= n - 1 => g[s] = v[Pick(s)] + g[t]
          BY <3>2, <4>2 DEF SumsUpTo
        <5>5. h[s] = v[Pick(s)] + g[t]
          BY <5>4
        <5> QED
          BY <4>2, <5>3, <5>5
      <4> QED
        BY <4>1, <4>2
    <3> QED
      BY <3>1, <3>3
  <2> QED
    BY <2>2, <2>3
<1>3. Cardinality(S) \in Nat
  BY FS_CardinalityType
<1>4. PICK g : SumsUpTo(g, v, S, Cardinality(S))
  BY <1>2, <1>3
<1> DEFINE h == [s \in SUBSET S |-> g[s]]
<1>5. ASSUME NEW s \in SUBSET S
      PROVE  h[s] = IF s = {} THEN 0 ELSE v[Pick(s)] + h[s \ {Pick(s)}]
  BY <1>1, <1>4, <1>5 DEF SumsUpTo
<1> HIDE DEF h
<1>6. h = [s \in SUBSET S |-> h[s]]
  BY DEF h
<1>7. h = [s \in SUBSET S |-> IF s = {} THEN 0 ELSE v[Pick(s)] + h[s \ {Pick(s)}]]
  BY <1>5, <1>6
<1> QED
  BY <1>7 DEF IsSum

\* Sums of integers that exceed others by k exceed theirs by k for each element;
\* sums of greater integers are greater.
LEMMA SumsCompare ==
    ASSUME NEW S, IsFiniteSet(S), NEW v, NEW w, NEW g, NEW h, NEW k \in Int,
           IsSum(g, v, S), IsSum(h, w, S), \A x \in S : v[x] \in Int /\ w[x] \in Int
    PROVE  /\ g[S] \in Int /\ h[S] \in Int
           /\ (\A x \in S : v[x] = w[x] + k) => g[S] = h[S] + k * Cardinality(S)
           /\ (\A x \in S : v[x] <= w[x]) => g[S] <= h[S]
<1> DEFINE Same == \A x \in S : v[x] = w[x] + k
           Less == \A x \in S : v[x] <= w[x]
           Good(s) == /\ g[s] \in Int /\ h[s] \in Int
                      /\ Same => g[s] = h[s] + k * Cardinality(s)
                      /\ Less => g[s] <= h[s]
           Fails == {n \in Nat : \E s \in SUBSET S : Cardinality(s) = n /\ ~Good(s)}
<1>1. \A s \in SUBSET S : Cardinality(s) \in Nat
  BY FS_Subset, FS_CardinalityType
<1>2. ASSUME Fails # {} PROVE FALSE
  <2>1. PICK n \in Fails : \A m \in Fails : n <= m
    <3> HIDE DEF Fails
    <3>1. Fails \in SUBSET Nat
      BY DEF Fails
    <3> QED
      BY <1>2, <3>1, SmallestExists
  <2>2. PICK s \in SUBSET S : Cardinality(s) = n /\ ~Good(s)
    OBVIOUS
  <2>3. s # {}
    <3>1. g[{}] = 0 /\ h[{}] = 0
      BY DEF IsSum
    <3>2. Cardinality({}) = 0 /\ k * 0 = 0
      BY FS_EmptySet
    <3>3. Good({})
      BY <3>1, <3>2
    <3> QED
      BY <2>2, <3>3
  <2> DEFINE x == Pick(s)
             t == s \ {x}
  <2>4. x \in S /\ t \in SUBSET S /\ Cardinality(t) = n - 1 /\ Cardinality(t) \in Nat
    BY <2>2, <2>3, Picked, PickedLeaves
  <2>5. Good(t)
    <3> HIDE DEF Good, t
    <3>1. ~Good(t) => n - 1 \in Fails
      BY <2>4
    <3> HIDE DEF Fails
    <3>2. n \in Nat
      BY DEF Fails
    <3> QED
      BY <2>1, <2>4, <3>1, <3>2
  <2>6. g[s] = v[x] + g[t] /\ h[s] = w[x] + h[t]
    BY <2>3 DEF IsSum
  <2>7. v[x] \in Int /\ w[x] \in Int
    BY <2>4
  <2> HIDE DEF x, t
  <2>8. Same => k * Cardinality(s) = k * Cardinality(t) + k
    BY <2>2, <2>4
  <2>9. Same => g[s] = h[s] + k * Cardinality(s)
    <3>1. Same => v[x] = w[x] + k /\ g[t] = h[t] + k * Cardinality(t)
      BY <2>4, <2>5
    <3>2. k * Cardinality(t) \in Int
      BY <2>4
    <3> HIDE DEF Same
    <3> QED
      BY <2>5, <2>6, <2>7, <2>8, <3>1, <3>2
  <2>10. Less => g[s] <= h[s]
    BY <2>4, <2>5, <2>6, <2>7
  <2> QED
    BY <2>2, <2>5, <2>6, <2>7, <2>9, <2>10
<1>3. Good(S)
  BY <1>1, <1>2
<1> QED
  BY <1>3
-----------------------------------------------------------------------------
(* Images.                                                                 *)

\* A set has as many elements as its image, if no two have the same.
LEMMA ImageSize ==
    ASSUME NEW S, IsFiniteSet(S), NEW f, \A x, y \in S : f[x] = f[y] => x = y
    PROVE  /\ IsFiniteSet({f[x] : x \in S})
           /\ Cardinality({f[x] : x \in S}) = Cardinality(S)
<1> DEFINE T == {f[x] : x \in S}
           g == [x \in S |-> f[x]]
<1>1. g \in [S -> T] /\ (\A t \in T : \E x \in S : g[x] = t) /\ (\A x, y \in S : g[x] = g[y] => x = y)
  OBVIOUS
<1> HIDE DEF g, T
<1>2. g \in Surjection(S, T) /\ g \in Injection(S, T)
  BY <1>1 DEF Surjection, Injection, IsInjective
<1>3. IsFiniteSet(T) /\ Cardinality(T) = Cardinality(S)
  BY <1>2, FS_Surjection
<1> QED
  BY <1>3 DEF T

-----------------------------------------------------------------------------
(* Ranks.                                                                  *)

\* The elements of S that the order R puts before s.
Below(R, S, s) == {u \in S : <<u, s>> \in R}

\* R orders S, strictly.
Ordered(R, S) ==
    /\ \A s \in S : <<s, s>> \notin R
    /\ \A s, u, w \in S : <<s, u>> \in R /\ <<u, w>> \in R => <<s, w>> \in R
    /\ \A s, u \in S : s = u \/ <<s, u>> \in R \/ <<u, s>> \in R

\* Of n elements in an order, each of 0 .. n - 1 is the number that one of them has
\* before it, and who has fewer comes first.
LEMMA Ranking ==
    ASSUME NEW S, IsFiniteSet(S), NEW R, Ordered(R, S)
    PROVE  /\ \A k \in 0..Cardinality(S) - 1 : \E s \in S : Cardinality(Below(R, S, s)) = k
           /\ \A s, u \in S : Cardinality(Below(R, S, s)) < Cardinality(Below(R, S, u)) => <<s, u>> \in R
<1> DEFINE f == [s \in S |-> Cardinality(Below(R, S, s))]
           n == Cardinality(S)
<1>1. n \in Nat
  BY FS_CardinalityType
<1>2. ASSUME NEW s \in S
      PROVE  IsFiniteSet(Below(R, S, s)) /\ f[s] = Cardinality(Below(R, S, s)) /\ f[s] \in 0..n - 1
  <2>1. Below(R, S, s) \in SUBSET S /\ s \notin Below(R, S, s)
    BY DEF Below, Ordered
  <2>2. IsFiniteSet(Below(R, S, s)) /\ Cardinality(Below(R, S, s)) <= n
        /\ (n = Cardinality(Below(R, S, s)) => S = Below(R, S, s))
    BY <2>1, FS_Subset
  <2>3. Cardinality(Below(R, S, s)) \in Nat
    BY <2>2, FS_CardinalityType
  <2> HIDE DEF n
  <2>4. Cardinality(Below(R, S, s)) \in 0..n - 1
    BY <1>1, <2>1, <2>2, <2>3
  <2> QED
    BY <2>2, <2>4
<1>3. ASSUME NEW s \in S, NEW u \in S, <<s, u>> \in R
      PROVE  f[s] < f[u]
  <2>1. Below(R, S, s) \in SUBSET Below(R, S, u)
    BY <1>3, Zenon DEF Below, Ordered
  <2>2. s \in Below(R, S, u) /\ s \notin Below(R, S, s)
    BY <1>3 DEF Below, Ordered
  <2>3. Cardinality(Below(R, S, s)) <= Cardinality(Below(R, S, u))
        /\ (Cardinality(Below(R, S, u)) = Cardinality(Below(R, S, s)) => Below(R, S, u) = Below(R, S, s))
    BY <1>2, <2>1, FS_Subset
  <2>4. f[s] \in Nat /\ f[u] \in Nat
    BY <1>1, <1>2
  <2> QED
    BY <1>2, <2>2, <2>3, <2>4
<1>4. \A s \in S : f[s] \in 0..n - 1
  BY <1>2
<1> HIDE DEF f
<1>5. \A s, u \in S : f[s] = f[u] => s = u
  <2> SUFFICES ASSUME NEW s \in S, NEW u \in S, f[s] = f[u], s # u PROVE FALSE
    OBVIOUS
  <2>1. f[s] < f[u] \/ f[u] < f[s]
    BY <1>3 DEF Ordered
  <2>2. f[s] \in Nat /\ f[u] \in Nat
    BY <1>1, <1>4
  <2> QED
    BY <2>1, <2>2
<1>6. {f[s] : s \in S} = 0..n - 1
  <2> DEFINE T == {f[s] : s \in S}
  <2>1. IsFiniteSet(T) /\ Cardinality(T) = n
    BY <1>5, ImageSize
  <2>2. T \in SUBSET (0..n - 1)
    BY <1>4
  <2>3. 0 \in Int /\ n - 1 \in Int
    BY <1>1
  <2>4. IsFiniteSet(0..n - 1)
        /\ Cardinality(0..n - 1) = IF 0 > n - 1 THEN 0 ELSE (n - 1) - 0 + 1
    BY <2>3, FS_Interval
  <2> HIDE DEF T, n
  <2>5. Cardinality(0..n - 1) = n
    BY <1>1, <2>4
  <2> QED
    BY <2>1, <2>2, <2>4, <2>5, FS_Subset DEF T
<1>7. \A k \in 0..n - 1 : \E s \in S : f[s] = k
  BY <1>6
<1>8. \A s, u \in S : f[s] < f[u] => <<s, u>> \in R
  <2> SUFFICES ASSUME NEW s \in S, NEW u \in S, f[s] < f[u] PROVE <<s, u>> \in R
    OBVIOUS
  <2>1. f[s] \in Nat /\ f[u] \in Nat
    BY <1>1, <1>4
  <2>2. s # u /\ ~(f[u] < f[s])
    BY <2>1
  <2> QED
    BY <1>3, <2>2 DEF Ordered
<1> QED
  BY <1>7, <1>8 DEF f
=============================================================================
