------------------------------- MODULE FoldTheorems -------------------------------
(***************************************************************************)
(* What the proofs need to know about sums over finite sets: the folds of  *)
(* the community modules are recursive functions, and what these compute   *)
(* is proved by induction, which LeastNatural makes available without an   *)
(* operator for a parameter.                                               *)
(***************************************************************************)
EXTENDS FiniteSetsExt, FiniteSetTheorems, TLAPS

\* Every non-empty set of natural numbers has a least one.
LEMMA LeastNatural ==
  ASSUME NEW T, T \subseteq Nat, T # {}
  PROVE  \E n \in T : \A m \in T : n <= m
<1> DEFINE R == OpToRel(<, Nat)
<1>1. IsWellFoundedOn(R, Nat)
  BY NatLessThanWellFounded
<1>2. \A m, n \in Nat : <<m, n>> \in R <=> m < n
  BY DEF OpToRel
<1> HIDE DEF R
<1>3. PICK n \in T : \A m \in T : ~(<<m, n>> \in R)
  BY <1>1, WFMin
<1>4. \A m \in T : ~(m < n)
  BY <1>2, <1>3
<1>5. \A m \in T : n <= m
  BY <1>4
<1> QED BY <1>5

\* Induction, for the numbers of which something holds.
LEMMA Induction ==
  ASSUME NEW T, 0 \in T, \A n \in Nat : n \in T => n + 1 \in T
  PROVE  Nat \subseteq T
<1> SUFFICES ASSUME Nat \ T # {} PROVE FALSE
  OBVIOUS
<1>1. PICK n \in Nat \ T : \A m \in Nat \ T : n <= m
  BY LeastNatural
<1>2. n - 1 \in Nat /\ n - 1 \notin Nat \ T
  BY <1>1
<1>3. n - 1 + 1 \in T
  BY <1>2
<1> QED BY <1>1, <1>3

\* Every non-empty set of numbers that do not exceed n has a greatest one.
LEMMA GreatestNatural ==
  ASSUME NEW n \in Nat, NEW T, T \subseteq 0 .. n, T # {}
  PROVE  \E m \in T : \A k \in T : m >= k
<1> DEFINE U == {k \in Nat : n - k \in T}
<1>1. U # {}
  <2>1. PICK k \in T : TRUE
    OBVIOUS
  <2>2. n - k \in Nat /\ n - (n - k) = k
    BY <2>1
  <2> QED BY <2>1, <2>2
<1>2. PICK k \in U : \A l \in U : k <= l
  BY <1>1, LeastNatural
<1>3. ASSUME NEW l \in T PROVE n - k >= l
  <2>1. n - l \in Nat /\ n - (n - l) = l
    OBVIOUS
  <2> QED BY <1>2, <2>1
<1> QED BY <1>2, <1>3

---------------------------------------------------------------------------------
(* Sums. *)

\* g has the sum of what f gives the members of each part of S.
IsSum(g, f, S) ==
  /\ g \in [SUBSET S -> Int]
  /\ g[{}] = 0
  /\ \A s \in SUBSET S : \A x \in s : g[s] = f[x] + g[s \ {x}]

\* There are such sums.
LEMMA SumsExist ==
  ASSUME NEW S, IsFiniteSet(S), NEW f, \A x \in S : f[x] \in Int
  PROVE  \E g : IsSum(g, f, S)
<1> DEFINE Upto(g, n) ==
      /\ g \in [SUBSET S -> Int]
      /\ g[{}] = 0
      /\ \A s \in SUBSET S : Cardinality(s) <= n => \A x \in s : g[s] = f[x] + g[s \ {x}]
    T == {n \in Nat : \E g : Upto(g, n)}
<1>0. \A s \in SUBSET S : IsFiniteSet(s) /\ Cardinality(s) \in Nat
  BY FS_Subset, FS_CardinalityType
<1>1. 0 \in T
  <2> DEFINE g == [s \in SUBSET S |-> 0]
  <2>1. \A s \in SUBSET S : Cardinality(s) <= 0 => s = {}
    BY <1>0, FS_EmptySet
  <2>2. Upto(g, 0)
    BY <2>1
  <2> HIDE DEF Upto, g
  <2> QED BY <2>2
<1>2. ASSUME NEW n \in Nat, n \in T PROVE n + 1 \in T
  <2>1. PICK g : Upto(g, n)
    BY <1>2
  <2> DEFINE c(s) == CHOOSE x \in s : TRUE
             h == [s \in SUBSET S |->
                     IF Cardinality(s) <= n THEN g[s] ELSE f[c(s)] + g[s \ {c(s)}]]
  <2>2. \A s \in SUBSET S : s # {} => c(s) \in s
    OBVIOUS
  <2>3. \A s \in SUBSET S : \A x \in s :
          /\ s \ {x} \in SUBSET S
          /\ Cardinality(s \ {x}) = Cardinality(s) - 1
    BY <1>0, FS_RemoveElement
  <2>4. \A s \in SUBSET S : s # {} \/ Cardinality(s) = 0
    BY FS_EmptySet
  <2> HIDE DEF c
  <2>5. h \in [SUBSET S -> Int]
    <3> SUFFICES ASSUME NEW s \in SUBSET S
                 PROVE  (IF Cardinality(s) <= n THEN g[s] ELSE f[c(s)] + g[s \ {c(s)}]) \in Int
      OBVIOUS
    <3>1. CASE Cardinality(s) <= n
      BY <2>1, <3>1
    <3>2. CASE ~(Cardinality(s) <= n)
      <4>1. c(s) \in s
        BY <2>2, <2>4, <3>2
      <4>2. f[c(s)] \in Int /\ g[s \ {c(s)}] \in Int
        BY <2>1, <4>1
      <4> QED BY <3>2, <4>2
    <3> QED BY <3>1, <3>2
  <2>6. h[{}] = 0
    BY <2>1, FS_EmptySet
  <2>9. \A s \in SUBSET S :
          h[s] = IF Cardinality(s) <= n THEN g[s] ELSE f[c(s)] + g[s \ {c(s)}]
    OBVIOUS
  <2> HIDE DEF h
  <2>7. ASSUME NEW s \in SUBSET S, Cardinality(s) <= n + 1, NEW x \in s
        PROVE  h[s] = f[x] + h[s \ {x}]
    <3>1. h[s \ {x}] = g[s \ {x}]
      <4>1. Cardinality(s \ {x}) <= n
        BY <1>0, <2>3, <2>7
      <4> QED BY <4>1, <2>3, <2>9
    <3>2. CASE Cardinality(s) <= n
      BY <2>1, <2>7, <2>9, <3>1, <3>2
    <3>3. CASE ~(Cardinality(s) <= n)
      <4>1. c(s) \in s
        BY <2>2
      <4>2. h[s] = f[c(s)] + g[s \ {c(s)}]
        BY <2>9, <3>3
      <4>3. CASE x = c(s)
        BY <3>1, <4>2, <4>3
      <4>4. CASE x # c(s)
        <5>1. Cardinality(s \ {x}) <= n /\ Cardinality(s \ {c(s)}) <= n
          BY <1>0, <2>3, <2>7, <4>1
        <5>2. /\ s \ {x} \in SUBSET S /\ s \ {c(s)} \in SUBSET S
              /\ c(s) \in s \ {x} /\ x \in s \ {c(s)}
          BY <4>1, <4>4
        <5>3. g[s \ {c(s)}] = f[x] + g[(s \ {c(s)}) \ {x}]
          BY <2>1, <5>1, <5>2
        <5>4. g[s \ {x}] = f[c(s)] + g[(s \ {x}) \ {c(s)}]
          BY <2>1, <5>1, <5>2
        <5>5. (s \ {x}) \ {c(s)} = (s \ {c(s)}) \ {x}
          OBVIOUS
        <5>6. /\ f[x] \in Int /\ f[c(s)] \in Int
              /\ g[(s \ {c(s)}) \ {x}] \in Int
          BY <2>1, <4>1
        <5>7. h[s] = f[c(s)] + (f[x] + g[(s \ {c(s)}) \ {x}])
          BY <4>2, <5>3
        <5>8. h[s \ {x}] = f[c(s)] + g[(s \ {c(s)}) \ {x}]
          BY <3>1, <5>4, <5>5
        <5> QED BY <5>6, <5>7, <5>8
      <4> QED BY <4>3, <4>4
    <3> QED BY <3>2, <3>3
  <2>8. Upto(h, n + 1)
    <3>1. \A s \in SUBSET S : Cardinality(s) <= n + 1 => \A x \in s : h[s] = f[x] + h[s \ {x}]
      BY <2>7
    <3> QED BY <2>5, <2>6, <3>1
  <2> HIDE DEF Upto
  <2> QED BY <2>8
<1> HIDE DEF T
<1>3. Nat \subseteq T
  BY <1>1, <1>2, Induction
<1>4. PICK g : Upto(g, Cardinality(S))
  <2>1. Cardinality(S) \in T
    BY <1>0, <1>3
  <2> QED BY <2>1 DEF T
<1>5. \A s \in SUBSET S : Cardinality(s) <= Cardinality(S)
  BY FS_Subset
<1>6. IsSum(g, f, S)
  BY <1>4, <1>5 DEF IsSum
<1> QED BY <1>6

\* h takes one member after the other, in some order and from either side.
TakesInTurn(h, f, S) ==
  /\ h[{}] = 0
  /\ \A s \in SUBSET S :
       s # {} => \E x \in s : h[s] = f[x] + h[s \ {x}] \/ h[s] = h[s \ {x}] + f[x]

\* Whatever the order, it has the sums.
LEMMA SumsAgree ==
  ASSUME NEW S, IsFiniteSet(S), NEW f, \A x \in S : f[x] \in Int, NEW g, IsSum(g, f, S), NEW h, TakesInTurn(h, f, S)
  PROVE  \A s \in SUBSET S : h[s] = g[s]
<1> DEFINE T == {n \in Nat : \A s \in SUBSET S : Cardinality(s) <= n => h[s] = g[s]}
<1>0. \A s \in SUBSET S : IsFiniteSet(s) /\ Cardinality(s) \in Nat
  BY FS_Subset, FS_CardinalityType
<1>1. 0 \in T
  <2>1. \A s \in SUBSET S : Cardinality(s) <= 0 => s = {}
    BY <1>0, FS_EmptySet
  <2> QED BY <2>1 DEF IsSum, TakesInTurn
<1>2. ASSUME NEW n \in Nat, n \in T PROVE n + 1 \in T
  <2> SUFFICES ASSUME NEW s \in SUBSET S, Cardinality(s) <= n + 1 PROVE h[s] = g[s]
    OBVIOUS
  <2>1. CASE s = {}
    BY <2>1 DEF IsSum, TakesInTurn
  <2>2. CASE s # {}
    <3>1. PICK x \in s : h[s] = f[x] + h[s \ {x}] \/ h[s] = h[s \ {x}] + f[x]
      BY <2>2 DEF TakesInTurn
    <3>2. Cardinality(s \ {x}) = Cardinality(s) - 1
      BY <1>0, FS_RemoveElement
    <3>3. Cardinality(s \ {x}) <= n
      BY <1>0, <3>2
    <3>4. h[s \ {x}] = g[s \ {x}]
      BY <1>2, <3>3
    <3>5. g[s] = f[x] + g[s \ {x}] /\ f[x] \in Int /\ g[s \ {x}] \in Int
      BY DEF IsSum
    <3> QED BY <3>1, <3>4, <3>5
  <2> QED BY <2>1, <2>2
<1> HIDE DEF T
<1>3. Nat \subseteq T
  BY <1>1, <1>2, Induction
<1> QED
  <2> SUFFICES ASSUME NEW s \in SUBSET S PROVE h[s] = g[s]
    OBVIOUS
  <2>1. Cardinality(s) \in T
    BY <1>0, <1>3
  <2> QED BY <1>0, <2>1 DEF T

\* The sum of what f gives the members of S.
Sum(f, S) == (CHOOSE g : IsSum(g, f, S))[S]

\* A function that adds the members in any one order gives the sum.
LEMMA SumIs ==
  ASSUME NEW S, IsFiniteSet(S), NEW f, \A x \in S : f[x] \in Int,
         NEW g, IsSum(g, f, S)
  PROVE  Sum(f, S) = g[S]
<1>1. IsSum(CHOOSE h : IsSum(h, f, S), f, S)
  OBVIOUS
<1>2. ASSUME NEW h, IsSum(h, f, S) PROVE h[S] = g[S]
  <2>1. TakesInTurn(h, f, S)
    BY <1>2 DEF IsSum, TakesInTurn
  <2>2. \A s \in SUBSET S : h[s] = g[s]
    BY <2>1, SumsAgree
  <2> QED BY <2>2
<1> QED BY <1>1, <1>2 DEF Sum

\* The sums of the parts of a set.
LEMMA SumsOfParts ==
  ASSUME NEW S, IsFiniteSet(S), NEW f, \A x \in S : f[x] \in Int,
         NEW g, IsSum(g, f, S)
  PROVE  \A s \in SUBSET S : Sum(f, s) = g[s]
<1> SUFFICES ASSUME NEW s \in SUBSET S PROVE Sum(f, s) = g[s]
  OBVIOUS
<1> DEFINE h == [t \in SUBSET s |-> g[t]]
<1>1. IsSum(h, f, s)
  <2>1. h \in [SUBSET s -> Int] /\ h[{}] = 0
    BY DEF IsSum
  <2>2. ASSUME NEW t \in SUBSET s, NEW x \in t PROVE h[t] = f[x] + h[t \ {x}]
    BY DEF IsSum
  <2> HIDE DEF h
  <2> QED BY <2>1, <2>2 DEF IsSum
<1>2. h[s] = g[s]
  OBVIOUS
<1> HIDE DEF h
<1> QED BY <1>1, <1>2, SumIs, FS_Subset

\* Of nothing it is zero, and each member adds what the function gives of it.
LEMMA SumFacts ==
  ASSUME NEW S, IsFiniteSet(S), NEW f, \A x \in S : f[x] \in Int
  PROVE  /\ Sum(f, S) \in Int
         /\ S = {} => Sum(f, S) = 0
         /\ \A x \in S : Sum(f, S) = f[x] + Sum(f, S \ {x})
<1>1. PICK g : IsSum(g, f, S)
  BY SumsExist
<1>2. \A s \in SUBSET S : Sum(f, s) = g[s]
  BY <1>1, SumsOfParts
<1> QED BY <1>1, <1>2 DEF IsSum

\* A sum is of what the function gives, however it is written.
LEMMA SumsOfSame ==
  ASSUME NEW S, NEW f, NEW h, \A x \in S : h[x] = f[x]
  PROVE  Sum(h, S) = Sum(f, S)
<1>1. \A g : IsSum(g, h, S) <=> IsSum(g, f, S)
  BY DEF IsSum
<1> QED BY <1>1 DEF Sum

\* Sums are linear.
LEMMA SumsAreLinear ==
  ASSUME NEW S, IsFiniteSet(S), NEW f, NEW k, NEW h, NEW a \in Int, NEW b \in Int,
         \A x \in S : f[x] \in Int /\ k[x] \in Int /\ h[x] = a * f[x] + b * k[x]
  PROVE  Sum(h, S) = a * Sum(f, S) + b * Sum(k, S)
<1>1. PICK p : IsSum(p, f, S)
  BY SumsExist
<1>2. PICK q : IsSum(q, k, S)
  BY SumsExist
<1> DEFINE r == [s \in SUBSET S |-> a * p[s] + b * q[s]]
<1>3. r \in [SUBSET S -> Int]
  BY <1>1, <1>2 DEF IsSum
<1>4. r[{}] = 0
  BY <1>1, <1>2 DEF IsSum
<1>5. ASSUME NEW s \in SUBSET S, NEW x \in s PROVE r[s] = h[x] + r[s \ {x}]
  <2>1. p[s] = f[x] + p[s \ {x}] /\ q[s] = k[x] + q[s \ {x}]
    BY <1>1, <1>2 DEF IsSum
  <2>2. s \ {x} \in SUBSET S /\ f[x] \in Int /\ k[x] \in Int /\ h[x] = a * f[x] + b * k[x]
    OBVIOUS
  <2>3. p[s \ {x}] \in Int /\ q[s \ {x}] \in Int
    BY <1>1, <1>2, <2>2 DEF IsSum
  <2>4. ASSUME NEW u \in Int, NEW v \in Int, NEW y \in Int, NEW z \in Int
        PROVE  a * (u + v) + b * (y + z) = a * u + b * y + (a * v + b * z)
    OBVIOUS
  <2>5. r[s] = a * p[s] + b * q[s] /\ r[s \ {x}] = a * p[s \ {x}] + b * q[s \ {x}]
    OBVIOUS
  <2> HIDE DEF r
  <2> QED BY <2>1, <2>2, <2>3, <2>4, <2>5
<1> HIDE DEF r
<1>6. IsSum(r, h, S)
  BY <1>3, <1>4, <1>5 DEF IsSum
<1>7. Sum(h, S) = r[S] /\ Sum(f, S) = p[S] /\ Sum(k, S) = q[S]
  BY <1>1, <1>2, <1>6, SumIs
<1>8. r[S] = a * p[S] + b * q[S]
  BY DEF r
<1> QED BY <1>7, <1>8

\* h is made of f and k.
IsCombination(h, a, f, b, k, S) ==
  \A x \in S : f[x] \in Int /\ k[x] \in Int /\ h[x] = a * f[x] + b * k[x]

\* The same, where the context names the numbers otherwise.
LEMMA SumsOfCombinations ==
  ASSUME NEW S, IsFiniteSet(S), NEW f, NEW k, NEW h, NEW a \in Int, NEW b \in Int,
         IsCombination(h, a, f, b, k, S)
  PROVE  Sum(h, S) = a * Sum(f, S) + b * Sum(k, S)
BY SumsAreLinear DEF IsCombination

\* The sums of two functions add up to the sum of both.
LEMMA SumsAdd ==
  ASSUME NEW S, IsFiniteSet(S), NEW f, NEW k, NEW h,
         \A x \in S : f[x] \in Int /\ k[x] \in Int /\ h[x] = f[x] + k[x]
  PROVE  Sum(h, S) = Sum(f, S) + Sum(k, S)
<1>1. PICK a \in Int : a = 1
  OBVIOUS
<1>2. \A x \in S : f[x] \in Int /\ k[x] \in Int /\ h[x] = a * f[x] + a * k[x]
  BY <1>1
<1>3. Sum(h, S) = a * Sum(f, S) + a * Sum(k, S)
  BY <1>2, SumsAreLinear
<1>4. Sum(f, S) \in Int /\ Sum(k, S) \in Int
  BY SumFacts
<1> QED BY <1>1, <1>3, <1>4

\* What is added of a new member, and what changes with an old one.
LEMMA SumOfOneMore ==
  ASSUME NEW S, IsFiniteSet(S), NEW x, x \notin S, NEW f, \A y \in S \cup {x} : f[y] \in Int
  PROVE  Sum(f, S \cup {x}) = f[x] + Sum(f, S)
<1>1. IsFiniteSet(S \cup {x}) /\ (S \cup {x}) \ {x} = S
  BY FS_AddElement
<1> QED BY <1>1, SumFacts

\* Where one number changes, the sum changes by as much.
LEMMA SumOfOneChange ==
  ASSUME NEW S, IsFiniteSet(S), NEW x \in S, NEW f, NEW h,
         \A y \in S : f[y] \in Int /\ h[y] \in Int /\ (y # x => h[y] = f[y])
  PROVE  Sum(h, S) = Sum(f, S) + (h[x] - f[x])
<1>1. Sum(h, S \ {x}) = Sum(f, S \ {x})
  BY SumsOfSame
<1>2. Sum(f, S \ {x}) \in Int
  BY SumFacts, FS_RemoveElement
<1> QED BY <1>1, <1>2, SumFacts

\* A sum is between what the least and the greatest would make of as many.
LEMMA SumBounds ==
  ASSUME NEW S, IsFiniteSet(S), NEW f, NEW lo \in Int, NEW hi \in Int,
         \A x \in S : f[x] \in lo .. hi
  PROVE  Sum(f, S) \in lo * Cardinality(S) .. hi * Cardinality(S)
<1> DEFINE T == {n \in Nat : \A s \in SUBSET S :
                   Cardinality(s) = n => Sum(f, s) \in lo * n .. hi * n}
<1>0. \A s \in SUBSET S : IsFiniteSet(s) /\ Cardinality(s) \in Nat
  BY FS_Subset, FS_CardinalityType
<1>1. 0 \in T
  <2>1. \A s \in SUBSET S : Cardinality(s) = 0 => s = {}
    BY <1>0, FS_EmptySet
  <2>2. Sum(f, {}) = 0
    BY SumFacts, FS_EmptySet
  <2>3. lo * 0 = 0 /\ hi * 0 = 0
    OBVIOUS
  <2>4. ASSUME NEW s \in SUBSET S, Cardinality(s) = 0 PROVE Sum(f, s) \in lo * 0 .. hi * 0
    <3>1. Sum(f, s) = 0
      BY <2>1, <2>2, <2>4
    <3>2. 0 \in lo * 0 .. hi * 0
      BY <2>3
    <3> QED BY <3>1, <3>2
  <2> QED BY <2>4
<1>2. ASSUME NEW n \in Nat, n \in T PROVE n + 1 \in T
  <2> SUFFICES ASSUME NEW s \in SUBSET S, Cardinality(s) = n + 1
               PROVE  Sum(f, s) \in lo * (n + 1) .. hi * (n + 1)
    OBVIOUS
  <2>1. PICK x \in s : TRUE
    BY FS_EmptySet
  <2>2. Cardinality(s \ {x}) = n
    <3>1. Cardinality(s \ {x}) = Cardinality(s) - 1
      BY <1>0, FS_RemoveElement
    <3> QED BY <3>1
  <2>3. Sum(f, s \ {x}) \in lo * n .. hi * n
    BY <1>2, <2>2
  <2>4. Sum(f, s) = f[x] + Sum(f, s \ {x})
    BY <1>0, SumFacts
  <2>5. lo * (n + 1) = lo + lo * n /\ hi * (n + 1) = hi + hi * n
    OBVIOUS
  <2>6. lo * n \in Int /\ hi * n \in Int
    OBVIOUS
  <2>7. ASSUME NEW a \in Int, NEW b \in Int, NEW v \in lo .. hi, NEW w \in a .. b
        PROVE  v + w \in lo + a .. hi + b
    OBVIOUS
  <2>8. f[x] + Sum(f, s \ {x}) \in lo + lo * n .. hi + hi * n
    BY <2>3, <2>6, <2>7
  <2> QED BY <2>4, <2>5, <2>8
<1> HIDE DEF T
<1>3. Cardinality(S) \in T
  BY <1>0, <1>1, <1>2, Induction
<1> QED BY <1>3 DEF T

\* Members that count for as much each.
LEMMA SumOfEquals ==
  ASSUME NEW S, IsFiniteSet(S), NEW f, NEW v \in Int, \A x \in S : f[x] = v
  PROVE  Sum(f, S) = v * Cardinality(S)
<1>1. \A x \in S : f[x] \in v .. v
  OBVIOUS
<1>2. Sum(f, S) \in v * Cardinality(S) .. v * Cardinality(S)
  BY <1>1, SumBounds
<1>3. v * Cardinality(S) \in Int
  BY FS_CardinalityType
<1> QED BY <1>2, <1>3

\* Numbers from zero up to a bound: so is the sum, up to the bound for each.
LEMMA SumIsPositive ==
  ASSUME NEW S, IsFiniteSet(S), NEW f, NEW hi \in Int, \A x \in S : f[x] \in 0 .. hi
  PROVE  Sum(f, S) \in 0 .. hi * Cardinality(S)
<1>1. PICK lo \in Int : lo = 0
  OBVIOUS
<1>2. \A x \in S : f[x] \in lo .. hi
  BY <1>1
<1>3. Sum(f, S) \in lo * Cardinality(S) .. hi * Cardinality(S)
  BY <1>2, SumBounds
<1>4. Cardinality(S) \in Nat
  BY FS_CardinalityType
<1> QED BY <1>1, <1>3, <1>4

\* A sum of ones counts, a sum of zeros is zero.
LEMMA SumOfOnes ==
  ASSUME NEW S, IsFiniteSet(S), NEW f
  PROVE  /\ (\A x \in S : f[x] = 1) => Sum(f, S) = Cardinality(S)
         /\ (\A x \in S : f[x] = 0) => Sum(f, S) = 0
<1>1. ASSUME NEW v \in Int, \A x \in S : f[x] = v
      PROVE  Sum(f, S) = v * Cardinality(S)
  BY <1>1, SumOfEquals
<1>2. Cardinality(S) \in Nat
  BY FS_CardinalityType
<1>3. ASSUME \A x \in S : f[x] = 1 PROVE Sum(f, S) = Cardinality(S)
  <2>1. PICK v \in Int : v = 1
    OBVIOUS
  <2>2. Sum(f, S) = v * Cardinality(S)
    BY <1>1, <1>3, <2>1
  <2> QED BY <1>2, <2>1, <2>2
<1>4. ASSUME \A x \in S : f[x] = 0 PROVE Sum(f, S) = 0
  <2>1. PICK v \in Int : v = 0
    OBVIOUS
  <2>2. Sum(f, S) = v * Cardinality(S)
    BY <1>1, <1>4, <2>1
  <2> QED BY <1>2, <2>1, <2>2
<1> QED BY <1>3, <1>4

\* What takes the members one by one, in whatever order, computes the sum.
LEMMA SumInTurn ==
  ASSUME NEW S, IsFiniteSet(S), NEW f, \A x \in S : f[x] \in Int, NEW h, TakesInTurn(h, f, S)
  PROVE  h[S] = Sum(f, S)
<1>1. PICK g : IsSum(g, f, S)
  BY SumsExist
<1>2. \A s \in SUBSET S : h[s] = g[s]
  BY <1>1, SumsAgree
<1> QED BY <1>1, <1>2, SumIs

\* A fold that adds up, whichever member it chooses next, computes the sum: MapThenFoldSet with
\* the sum so far on the right of what is added.
LEMMA FoldsSum ==
  ASSUME NEW S, IsFiniteSet(S), NEW f, \A x \in S : f[x] \in Int,
         NEW c, \A s \in SUBSET S : s # {} => c[s] \in s
  PROVE  /\ \E h : h = [s \in SUBSET S |-> IF s = {} THEN 0 ELSE f[c[s]] + h[s \ {c[s]}]]
         /\ \A h : h = [s \in SUBSET S |-> IF s = {} THEN 0 ELSE f[c[s]] + h[s \ {c[s]}]]
                     => h[S] = Sum(f, S)
<1>1. PICK g : IsSum(g, f, S)
  BY SumsExist
<1>2. g = [s \in SUBSET S |-> IF s = {} THEN 0 ELSE f[c[s]] + g[s \ {c[s]}]]
  BY <1>1 DEF IsSum
<1>3. ASSUME NEW h, h = [s \in SUBSET S |-> IF s = {} THEN 0 ELSE f[c[s]] + h[s \ {c[s]}]]
      PROVE  h[S] = Sum(f, S)
  <2>1. h[{}] = 0
    BY <1>3
  <2>2. \A s \in SUBSET S : s # {} => \E x \in s : h[s] = f[x] + h[s \ {x}]
    BY <1>3
  <2>3. TakesInTurn(h, f, S)
    BY <2>1, <2>2 DEF TakesInTurn
  <2> QED BY <2>3, SumInTurn
<1> QED BY <1>2, <1>3

\* The same, with the sum so far on the left.
LEMMA FoldsSumLeft ==
  ASSUME NEW S, IsFiniteSet(S), NEW f, \A x \in S : f[x] \in Int,
         NEW c, \A s \in SUBSET S : s # {} => c[s] \in s
  PROVE  /\ \E h : h = [s \in SUBSET S |-> IF s = {} THEN 0 ELSE h[s \ {c[s]}] + f[c[s]]]
         /\ \A h : h = [s \in SUBSET S |-> IF s = {} THEN 0 ELSE h[s \ {c[s]}] + f[c[s]]]
                     => h[S] = Sum(f, S)
<1>1. PICK g : IsSum(g, f, S)
  BY SumsExist
<1>2. g = [s \in SUBSET S |-> IF s = {} THEN 0 ELSE g[s \ {c[s]}] + f[c[s]]]
  <2>1. ASSUME NEW s \in SUBSET S, s # {} PROVE g[s] = g[s \ {c[s]}] + f[c[s]]
    <3>1. g[s] = f[c[s]] + g[s \ {c[s]}] /\ f[c[s]] \in Int /\ g[s \ {c[s]}] \in Int
      BY <1>1, <2>1 DEF IsSum
    <3> QED BY <3>1
  <2> QED BY <1>1, <2>1 DEF IsSum
<1>3. ASSUME NEW h, h = [s \in SUBSET S |-> IF s = {} THEN 0 ELSE h[s \ {c[s]}] + f[c[s]]]
      PROVE  h[S] = Sum(f, S)
  <2>1. h[{}] = 0
    BY <1>3
  <2>2. \A s \in SUBSET S : s # {} => \E x \in s : h[s] = h[s \ {x}] + f[x]
    BY <1>3
  <2>3. TakesInTurn(h, f, S)
    BY <2>1, <2>2 DEF TakesInTurn
  <2> QED BY <2>3, SumInTurn
<1> QED BY <1>2, <1>3

\* The sums of two sets that share nothing.
LEMMA SumOfTwoParts ==
  ASSUME NEW A, NEW B, IsFiniteSet(A), IsFiniteSet(B), A \cap B = {},
         NEW f, \A x \in A \cup B : f[x] \in Int
  PROVE  Sum(f, A \cup B) = Sum(f, A) + Sum(f, B)
<1> DEFINE g == [s \in SUBSET (A \cup B) |-> Sum(f, s \cap A) + Sum(f, s \cap B)]
<1>1. IsFiniteSet(A \cup B)
  BY FS_Union
<1>2. ASSUME NEW s \in SUBSET (A \cup B)
      PROVE  IsFiniteSet(s \cap A) /\ IsFiniteSet(s \cap B)
  BY FS_Intersection
<1>3. ASSUME NEW s \in SUBSET (A \cup B)
      PROVE  /\ Sum(f, s \cap A) \in Int /\ Sum(f, s \cap B) \in Int
             /\ Sum(f, s \cap A) + Sum(f, s \cap B) \in Int
  <2>1. Sum(f, s \cap A) \in Int /\ Sum(f, s \cap B) \in Int
    BY <1>2, SumFacts
  <2> QED BY <2>1
<1>4. g \in [SUBSET (A \cup B) -> Int]
  BY <1>3
<1>5. g[{}] = 0
  <2>1. Sum(f, {}) = 0
    BY SumFacts, FS_EmptySet
  <2>2. {} \cap A = {} /\ {} \cap B = {}
    OBVIOUS
  <2> QED BY <2>1, <2>2
<1>6. ASSUME NEW s \in SUBSET (A \cup B), NEW x \in s PROVE g[s] = f[x] + g[s \ {x}]
  <2>1. /\ g[s] = Sum(f, s \cap A) + Sum(f, s \cap B)
        /\ g[s \ {x}] = Sum(f, (s \ {x}) \cap A) + Sum(f, (s \ {x}) \cap B)
        /\ s \ {x} \in SUBSET (A \cup B)
    OBVIOUS
  <2> HIDE DEF g
  <2>2. Sum(f, (s \ {x}) \cap A) \in Int /\ Sum(f, (s \ {x}) \cap B) \in Int /\ f[x] \in Int
    BY <1>3, <2>1
  <2>5. ASSUME NEW a \in Int, NEW b \in Int, NEW v \in Int PROVE (v + a) + b = v + (a + b) /\ a + (v + b) = v + (a + b)
    OBVIOUS
  <2>3. CASE x \in A
    <3>1. (s \ {x}) \cap A = (s \cap A) \ {x} /\ (s \ {x}) \cap B = s \cap B /\ x \in s \cap A
      BY <2>3
    <3>2. \A y \in s \cap A : f[y] \in Int
      OBVIOUS
    <3>3. Sum(f, s \cap A) = f[x] + Sum(f, (s \cap A) \ {x})
      BY <1>2, <3>1, <3>2, SumFacts
    <3>4. g[s] = (f[x] + Sum(f, (s \ {x}) \cap A)) + Sum(f, (s \ {x}) \cap B)
      BY <2>1, <3>1, <3>3
    <3> QED BY <2>1, <2>2, <2>5, <3>4
  <2>4. CASE x \in B
    <3>1. (s \ {x}) \cap B = (s \cap B) \ {x} /\ (s \ {x}) \cap A = s \cap A /\ x \in s \cap B
      BY <2>4
    <3>2. \A y \in s \cap B : f[y] \in Int
      OBVIOUS
    <3>3. Sum(f, s \cap B) = f[x] + Sum(f, (s \cap B) \ {x})
      BY <1>2, <3>1, <3>2, SumFacts
    <3>4. g[s] = Sum(f, (s \ {x}) \cap A) + (f[x] + Sum(f, (s \ {x}) \cap B))
      BY <2>1, <3>1, <3>3
    <3> QED BY <2>1, <2>2, <2>5, <3>4
  <2> QED BY <2>3, <2>4
<1>7. g[A \cup B] = Sum(f, A) + Sum(f, B)
  <2>1. (A \cup B) \cap A = A /\ (A \cup B) \cap B = B
    OBVIOUS
  <2> QED BY <2>1
<1> HIDE DEF g
<1>8. IsSum(g, f, A \cup B)
  BY <1>4, <1>5, <1>6 DEF IsSum
<1> QED BY <1>1, <1>7, <1>8, SumIs
===================================================================================
