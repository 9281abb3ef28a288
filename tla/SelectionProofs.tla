--------------------------- MODULE SelectionProofs ---------------------------
(***************************************************************************)
(* What is proved of selections and sums: which elements of a sequence are *)
(* selected and in which order, how many, and what a recursion upward to a *)
(* number gives.                                                           *)
(***************************************************************************)
EXTENDS Selection, FiniteSetTheorems, WellFoundedInduction, TLAPS

\* A set of numbers has a least.
LEMMA Least ==
  ASSUME NEW T, T \subseteq Nat, T # {}
  PROVE  \E n \in T : \A k \in T : ~(k < n)
<1>1. PICK n \in T : \A k \in T : ~ (<<k, n>> \in OpToRel(<, Nat))
  BY NatLessThanWellFounded, WFMin
<1>2. ASSUME NEW k \in T PROVE ~(k < n)
  BY <1>1, <1>2 DEF OpToRel
<1> QED BY <1>1, <1>2

\* What holds at 0 and is handed on holds up to n.
LEMMA Upward ==
  ASSUME NEW n \in Nat, NEW P, 0 \in P, \A i \in 1..n : i - 1 \in P => i \in P
  PROVE  \A i \in 0..n : i \in P
<1> DEFINE T == {i \in 0..n : i \notin P}
<1> SUFFICES ASSUME T # {} PROVE FALSE
  OBVIOUS
<1>1. T \subseteq Nat
  OBVIOUS
<1>2. PICK i \in T : \A k \in T : ~(k < i)
  <2> HIDE DEF T
  <2> QED BY <1>1, Least
<1>3. i \in 1..n /\ i \notin P
  OBVIOUS
<1>4. i - 1 \in 0..n /\ i - 1 < i
  BY <1>3
<1>5. i - 1 \in P
  BY <1>2, <1>4
<1> QED BY <1>3, <1>5

\* A recursion upward has a solution.
Recurs(f, m, base, Step) == f[0] = base /\ \A i \in 1..m : f[i] = Step[i][f[i - 1]]

LEMMA Recursion ==
  ASSUME NEW n \in Nat, NEW S, NEW base \in S, NEW Step \in [1..n -> [S -> S]]
  PROVE  \E f \in [0..n -> S] : Recurs(f, n, base, Step)
<1> DEFINE Solves(f, m) == f[0] = base /\ \A i \in 1..m : f[i] = Step[i][f[i - 1]]
           P == {m \in 0..n : \E f \in [0..m -> S] : Solves(f, m)}
<1>1. 0 \in P
  <2>1. [i \in 0..0 |-> base] \in [0..0 -> S] /\ Solves([i \in 0..0 |-> base], 0)
    OBVIOUS
  <2>2. \E f \in [0..0 -> S] : Solves(f, 0)
    <3> HIDE DEF Solves
    <3> QED BY <2>1
  <2> HIDE DEF Solves
  <2> QED BY <2>2
<1>2. ASSUME NEW m \in 1..n, m - 1 \in P PROVE m \in P
  <2>1. PICK k \in Nat : k = m - 1
    OBVIOUS
  <2>2. PICK f \in [0..k -> S] : Solves(f, k)
    BY <1>2, <2>1
  <2> DEFINE g == [i \in 0..m |-> IF i = m THEN Step[m][f[k]] ELSE f[i]]
  <2>3. f[k] \in S /\ Step[m][f[k]] \in S
    <3>1. k \in 0..k
      OBVIOUS
    <3>2. f[k] \in S
      BY <3>1
    <3>3. Step[m] \in [S -> S]
      OBVIOUS
    <3> QED BY <3>2, <3>3
  <2>4. g \in [0..m -> S]
    <3> SUFFICES ASSUME NEW i \in 0..m PROVE g[i] \in S
      OBVIOUS
    <3>1. CASE i = m
      BY <2>3, <3>1
    <3>2. CASE i # m
      <4>1. i \in 0..k
        BY <2>1, <3>2
      <4> QED BY <3>2, <4>1
    <3> QED BY <3>1, <3>2
  <2>5. g[m] = Step[m][f[k]] /\ \A i \in 0..k : g[i] = f[i]
    BY <2>1
  <2> HIDE DEF g
  <2>6. Solves(g, m)
    <3>1. g[0] = base
      BY <2>1, <2>2, <2>5
    <3>2. ASSUME NEW i \in 1..m PROVE g[i] = Step[i][g[i - 1]]
      <4>1. CASE i = m
        <5>1. g[i - 1] = f[k]
          BY <2>1, <2>5, <4>1
        <5> QED BY <2>5, <4>1, <5>1
      <4>2. CASE i # m
        <5>1. i \in 1..k /\ i \in 0..k /\ i - 1 \in 0..k
          BY <2>1, <4>2
        <5> QED BY <2>2, <2>5, <5>1
      <4> QED BY <4>1, <4>2
    <3> QED BY <3>1, <3>2
  <2> HIDE DEF Solves
  <2>7. \E h \in [0..m -> S] : Solves(h, m)
    BY <2>4, <2>6
  <2>8. m \in 0..n
    OBVIOUS
  <2> QED BY <2>7, <2>8
<1>3. n \in P
  <2> HIDE DEF P
  <2>1. \A m \in 1..n : m - 1 \in P => m \in P
    BY <1>2
  <2>2. \A m \in 0..n : m \in P
    BY <1>1, <2>1, Upward
  <2> QED BY <2>2
<1> QED BY <1>3 DEF Recurs

-----------------------------------------------------------------------------
(* The elements of a finite set of numbers, from the least up.             *)

\* A finite set of numbers has a bound.
LEMMA Bounded ==
  ASSUME NEW K, K \subseteq Nat, IsFiniteSet(K)
  PROVE  \E b \in Nat : \A k \in K : k <= b
<1> DEFINE HasBound(J) == \E b \in Nat : \A k \in J : k <= b
           T == {c \in Nat : \E J \in SUBSET Nat : IsFiniteSet(J) /\ Cardinality(J) = c /\ ~HasBound(J)}
<1> SUFFICES ASSUME ~HasBound(K) PROVE FALSE
  OBVIOUS
<1> HIDE DEF HasBound
<1>1. T \subseteq Nat /\ Cardinality(K) \in T
  BY FS_CardinalityType
<1>2. PICK c \in T : \A k \in T : ~(k < c)
  <2> HIDE DEF T
  <2> QED BY <1>1, Least
<1>3. PICK J \in SUBSET Nat : IsFiniteSet(J) /\ Cardinality(J) = c /\ ~HasBound(J)
  OBVIOUS
<1>4. PICK x \in J : TRUE
  <2>1. HasBound({})
    BY DEF HasBound
  <2> QED BY <1>3, <2>1
<1>5. IsFiniteSet(J \ {x}) /\ Cardinality(J \ {x}) = c - 1
  BY <1>3, <1>4, FS_RemoveElement
<1>6. c - 1 \in Nat /\ c - 1 < c
  BY <1>5, FS_CardinalityType
<1>7. HasBound(J \ {x})
  <2>1. c - 1 \notin T
    BY <1>2, <1>6
  <2>2. J \ {x} \in SUBSET Nat
    OBVIOUS
  <2> QED BY <1>5, <1>6, <2>1, <2>2
<1>8. PICK b \in Nat : \A k \in J \ {x} : k <= b
  BY <1>7 DEF HasBound
<1>9. \A k \in J : k <= b + x
  <2> SUFFICES ASSUME NEW k \in J PROVE k <= b + x
    OBVIOUS
  <2>1. x \in Nat /\ k \in Nat
    BY <1>3, <1>4
  <2>2. k = x \/ k <= b
    BY <1>8
  <2> QED BY <2>1, <2>2
<1>10. b + x \in Nat
  BY <1>3, <1>4
<1> QED BY <1>3, <1>9, <1>10 DEF HasBound

\* How many of the numbers are not above n.
Rank(K, n) == Cardinality({m \in K : m <= n})

LEMMA RankIs ==
  ASSUME NEW K, K \subseteq Nat, IsFiniteSet(K), NEW a \in Nat, NEW b \in Nat, a <= b
  PROVE  /\ Rank(K, a) \in Nat /\ Rank(K, a) <= Cardinality(K)
         /\ Rank(K, a) <= Rank(K, b)
         /\ a < b /\ b \in K => Rank(K, a) < Rank(K, b)
         /\ a \in K => Rank(K, a) # 0
<1> DEFINE A == {m \in K : m <= a}
           B == {m \in K : m <= b}
<1>1. A \in SUBSET K /\ B \in SUBSET K
  OBVIOUS
<1>2. A \in SUBSET B
  <2> SUFFICES ASSUME NEW m \in K, m <= a PROVE m <= b
    OBVIOUS
  <2>1. m \in Nat
    OBVIOUS
  <2> QED BY <2>1
<1>3. a < b /\ b \in K => b \in B /\ b \notin A
  OBVIOUS
<1>4. a \in K => a \in A
  OBVIOUS
<1> HIDE DEF A, B
<1>5. IsFiniteSet(A) /\ IsFiniteSet(B) /\ Cardinality(A) <= Cardinality(K)
  BY <1>1, FS_Subset
<1>6. Cardinality(A) <= Cardinality(B) /\ (Cardinality(A) = Cardinality(B) => A = B)
  BY <1>2, <1>5, FS_Subset
<1>7. Cardinality(A) \in Nat /\ Cardinality(B) \in Nat
  BY <1>5, FS_CardinalityType
<1>8. A # {} => Cardinality(A) # 0
  BY <1>5, FS_EmptySet
<1>9. a < b /\ b \in K => Cardinality(A) < Cardinality(B)
  BY <1>3, <1>6, <1>7
<1>10. a \in K => Cardinality(A) # 0
  BY <1>4, <1>8
<1> QED BY <1>5, <1>6, <1>7, <1>9, <1>10 DEF Rank, A, B

LEMMA RankType ==
  ASSUME NEW K, K \subseteq Nat, IsFiniteSet(K), NEW n \in Nat
  PROVE  /\ Rank(K, n) \in Nat /\ Rank(K, n) <= Cardinality(K)
         /\ n \in K => Rank(K, n) # 0
<1>1. n <= n
  OBVIOUS
<1> QED BY <1>1, RankIs

\* From one number to the next there is at most one element more.
LEMMA RankNext ==
  ASSUME NEW K, K \subseteq Nat, IsFiniteSet(K), NEW n \in Nat
  PROVE  Rank(K, n + 1) = Rank(K, n) + (IF n + 1 \in K THEN 1 ELSE 0)
<1> DEFINE A == {m \in K : m <= n}
<1>1. CASE n + 1 \in K
  <2>1. {m \in K : m <= n + 1} = A \cup {n + 1} /\ n + 1 \notin A
    <3>1. \A m \in K : m \in Nat
      OBVIOUS
    <3>2. \A m \in K : m <= n + 1 <=> m <= n \/ m = n + 1
      BY <3>1
    <3>3. ~(n + 1 <= n)
      OBVIOUS
    <3> QED BY <1>1, <3>2, <3>3
  <2>2. IsFiniteSet(A)
    BY FS_Subset
  <2> HIDE DEF A
  <2>3. Cardinality(A \cup {n + 1}) = Cardinality(A) + 1
    BY <2>1, <2>2, FS_AddElement
  <2> QED BY <1>1, <2>1, <2>3 DEF Rank, A
<1>2. CASE n + 1 \notin K
  <2>1. {m \in K : m <= n + 1} = A
    <3>1. \A m \in K : m \in Nat /\ m # n + 1
      BY <1>2
    <3>2. \A m \in K : m <= n + 1 <=> m <= n
      BY <3>1
    <3> QED BY <3>2
  <2>2. A \in SUBSET K
    OBVIOUS
  <2> HIDE DEF A
  <2>3. Cardinality(A) \in Nat
    BY <2>2, FS_Subset, FS_CardinalityType
  <2> QED BY <1>2, <2>1, <2>3 DEF Rank, A
<1> QED BY <1>1, <1>2

\* The i-th element is the one of rank i.
LEMMA NthIs ==
  ASSUME NEW K, K \subseteq Nat, IsFiniteSet(K), NEW i \in 1..Cardinality(K)
  PROVE  Nth(K, i) \in K /\ Nth(K, i) \in Nat /\ Rank(K, Nth(K, i)) = i
<1> DEFINE T == {n \in Nat : Rank(K, n) >= i}
<1>1. Cardinality(K) \in Nat /\ i \in Nat /\ i # 0
  BY FS_CardinalityType
<1>2. T # {}
  <2>1. PICK b \in Nat : \A k \in K : k <= b
    BY Bounded
  <2>2. {m \in K : m <= b} = K
    BY <2>1
  <2>3. Rank(K, b) = Cardinality(K)
    BY <2>2 DEF Rank
  <2>4. b \in T
    BY <1>1, <2>3
  <2> QED BY <2>4
<1>3. PICK n \in T : \A k \in T : ~(k < n)
  <2>1. T \subseteq Nat
    OBVIOUS
  <2> HIDE DEF T
  <2> QED BY <1>2, <2>1, Least
<1>4. n \in Nat /\ Rank(K, n) >= i
  OBVIOUS
<1>5. Rank(K, n) \in Nat
  BY <1>4, RankType
<1>6. n \in K /\ Rank(K, n) = i
  <2>1. CASE n = 0
    <3>1. CASE 0 \in K
      <4>0. \A m \in K : m <= 0 <=> m = 0
        <5> SUFFICES ASSUME NEW m \in K PROVE m <= 0 <=> m = 0
          OBVIOUS
        <5>1. m \in Nat
          OBVIOUS
        <5> QED BY <5>1
      <4>1. {m \in K : m <= 0} = {0}
        BY <3>1, <4>0
      <4>2. Rank(K, 0) = 1
        BY <4>1, FS_Singleton DEF Rank
      <4> QED BY <1>1, <1>4, <2>1, <3>1, <4>2
    <3>2. CASE 0 \notin K
      <4>0. \A m \in K : ~(m <= 0)
        <5> SUFFICES ASSUME NEW m \in K PROVE ~(m <= 0)
          OBVIOUS
        <5>1. m \in Nat /\ m # 0
          BY <3>2
        <5> QED BY <5>1
      <4>1. {m \in K : m <= 0} = {}
        BY <4>0
      <4>2. Rank(K, 0) = 0
        BY <4>1, FS_EmptySet DEF Rank
      <4> QED BY <1>1, <1>4, <2>1, <4>2
    <3> QED BY <3>1, <3>2
  <2>2. CASE n # 0
    <3>1. PICK p \in Nat : n = p + 1
      <4>1. n - 1 \in Nat /\ n = (n - 1) + 1
        BY <1>4, <2>2
      <4> QED BY <4>1
    <3>2. p \notin T
      BY <1>3, <3>1
    <3>3. Rank(K, p) \in Nat /\ Rank(K, p) < i
      <4>1. Rank(K, p) \in Nat
        BY RankType
      <4> QED BY <1>1, <3>2, <4>1
    <3>4. Rank(K, n) = Rank(K, p) + (IF n \in K THEN 1 ELSE 0)
      BY <3>1, RankNext
    <3> QED BY <1>1, <1>4, <1>5, <3>3, <3>4
  <2> QED BY <2>1, <2>2
<1>7. \E k \in K : Cardinality({j \in K : j <= k}) = i
  BY <1>6 DEF Rank
<1>8. Nth(K, i) \in K /\ Cardinality({j \in K : j <= Nth(K, i)}) = i
  BY <1>7 DEF Nth
<1> QED BY <1>8 DEF Rank

\* Every element is the one of its rank.
LEMMA RankOf ==
  ASSUME NEW K, K \subseteq Nat, IsFiniteSet(K), NEW k \in K
  PROVE  Rank(K, k) \in 1..Cardinality(K) /\ Nth(K, Rank(K, k)) = k
<1>1. k \in Nat /\ Cardinality(K) \in Nat
  BY FS_CardinalityType
<1>2. Rank(K, k) \in Nat /\ Rank(K, k) <= Cardinality(K) /\ Rank(K, k) # 0
  BY <1>1, RankType
<1>3. PICK i \in 1..Cardinality(K) : i = Rank(K, k)
  BY <1>1, <1>2
<1>4. PICK n \in K : n = Nth(K, i)
  BY NthIs
<1>5. Rank(K, n) = i /\ n \in Nat
  BY <1>4, NthIs
<1>6. ~(n < k) /\ ~(k < n)
  <2>1. ASSUME n < k PROVE Rank(K, n) < Rank(K, k)
    <3>1. n <= k
      BY <1>1, <1>5, <2>1
    <3> QED BY <1>1, <1>5, <2>1, <3>1, RankIs
  <2>2. ASSUME k < n PROVE Rank(K, k) < Rank(K, n)
    <3>1. k <= n
      BY <1>1, <1>5, <2>2
    <3> QED BY <1>1, <1>4, <1>5, <2>2, <3>1, RankIs
  <2> QED BY <1>2, <1>3, <1>5, <2>1, <2>2
<1>7. n = k
  BY <1>1, <1>5, <1>6
<1> QED BY <1>3, <1>4, <1>7

\* They go up.
LEMMA NthOrder ==
  ASSUME NEW K, K \subseteq Nat, IsFiniteSet(K),
         NEW i \in 1..Cardinality(K), NEW j \in 1..Cardinality(K), i < j
  PROVE  Nth(K, i) < Nth(K, j)
<1>1. PICK m \in Nat : m = Nth(K, i) /\ Rank(K, m) = i
  BY NthIs
<1>2. PICK n \in Nat : n = Nth(K, j) /\ Rank(K, n) = j
  BY NthIs
<1>3. n <= m => Rank(K, n) <= Rank(K, m)
  BY RankIs
<1>4. Cardinality(K) \in Nat
  BY FS_CardinalityType
<1>5. i \in Nat /\ j \in Nat
  BY <1>4
<1> QED BY <1>1, <1>2, <1>3, <1>5

-----------------------------------------------------------------------------
(* Selected elements.                                                      *)

\* The numbers up to n.
LEMMA NumbersUpTo ==
  ASSUME NEW n \in Nat
  PROVE  IsFiniteSet(1..n) /\ Cardinality(1..n) = n
BY FS_Interval

\* The positions are those selected ...
LEMMA PositionsAre ==
  ASSUME NEW n \in Nat, NEW K, K \subseteq 1..n
  PROVE  /\ IsFiniteSet(K) /\ Cardinality(K) \in Nat
         /\ \A i \in 1..Cardinality(K) : Nth(K, i) \in K /\ Nth(K, i) \in 1..n
<1>1. IsFiniteSet(K)
  <2>1. IsFiniteSet(1..n)
    BY NumbersUpTo
  <2> QED BY <2>1, FS_Subset
<1>2. PICK c \in Nat : c = Cardinality(K)
  BY <1>1, FS_CardinalityType
<1>3. K \subseteq Nat
  OBVIOUS
<1>4. \A i \in 1..c : Nth(K, i) \in K
  BY <1>1, <1>2, <1>3, NthIs
<1> QED BY <1>1, <1>2, <1>4

\* ... as many as there are positions, each the element at its position.
LEMMA SelectAtIs ==
  ASSUME NEW n \in Nat, NEW K, K \subseteq 1..n, NEW s
  PROVE  /\ Len(SelectAt(s, K)) = Cardinality(K)
         /\ DOMAIN SelectAt(s, K) = 1..Cardinality(K)
         /\ \A i \in 1..Cardinality(K) : SelectAt(s, K)[i] = s[Nth(K, i)]
<1>1. PICK c \in Nat : c = Cardinality(K)
  BY PositionsAre
<1>2. SelectAt(s, K) = [i \in 1..c |-> s[Nth(K, i)]]
  BY <1>1 DEF SelectAt
<1> HIDE DEF SelectAt
<1> QED BY <1>1, <1>2

\* What is selected and what is not make up the whole.
LEMMA SplitCount ==
  ASSUME NEW K, IsFiniteSet(K), NEW A, A \subseteq K
  PROVE  /\ IsFiniteSet(A) /\ IsFiniteSet(K \ A)
         /\ Cardinality(A) \in Nat /\ Cardinality(K \ A) \in Nat /\ Cardinality(K) \in Nat
         /\ Cardinality(A) + Cardinality(K \ A) = Cardinality(K)
<1>1. IsFiniteSet(A) /\ IsFiniteSet(K \ A)
  BY FS_Subset
<1>2. Cardinality(K \ A) = Cardinality(K) - Cardinality(K \cap A)
  BY FS_Difference
<1>3. K \cap A = A
  OBVIOUS
<1>4. Cardinality(A) \in Nat /\ Cardinality(K) \in Nat
  BY <1>1, FS_CardinalityType
<1>5. Cardinality(K \ A) \in Nat
  BY <1>1, FS_CardinalityType
<1>6. Cardinality(A) + Cardinality(K \ A) = Cardinality(K)
  BY <1>2, <1>3, <1>4
<1> QED BY <1>1, <1>4, <1>5, <1>6

-----------------------------------------------------------------------------
(* Sums.                                                                   *)

AddsUp(F, n, numbers) ==
  F \in [0..n -> Int] /\ F[0] = 0 /\ \A i \in 1..n : F[i] = F[i - 1] + numbers[i]

\* What adds up one by one, from 0, to F[n] is the total ...
LEMMA TotalIs ==
  ASSUME NEW numbers, NEW n \in Nat, Len(numbers) = n, NEW F, AddsUp(F, n, numbers)
  PROVE  Total(numbers) = F[n]
<1> USE DEF AddsUp
<1> DEFINE Sums(f) == f = [k \in 0..n |-> IF k = 0 THEN 0 ELSE f[k - 1] + numbers[k]]
           total == CHOOSE f : Sums(f)
<1>1. Sums(F)
  <2>1. \A k \in 0..n : F[k] = IF k = 0 THEN 0 ELSE F[k - 1] + numbers[k]
    OBVIOUS
  <2>2. F = [k \in 0..n |-> F[k]]
    OBVIOUS
  <2> QED BY <2>1, <2>2
<1>2. Sums(total)
  <2> HIDE DEF Sums
  <2> QED BY <1>1
<1>3. Total(numbers) = total[n]
  BY DEF Total
<1> HIDE DEF total
<1>4. total[0] = 0 /\ \A i \in 1..n : total[i] = total[i - 1] + numbers[i]
  BY <1>2
<1> HIDE DEF Sums
<1> DEFINE P == {i \in 0..n : total[i] = F[i]}
<1>5. 0 \in P
  BY <1>4
<1>6. ASSUME NEW i \in 1..n, i - 1 \in P PROVE i \in P
  BY <1>4, <1>6
<1>7. \A i \in 0..n : i \in P
  <2> HIDE DEF P
  <2> QED BY <1>5, <1>6, Upward
<1> QED BY <1>3, <1>7

\* ... and there is such an F.
LEMMA PrefixSums ==
  ASSUME NEW n \in Nat, NEW numbers \in [1..n -> Int]
  PROVE  \E F : AddsUp(F, n, numbers)
<1> DEFINE Step == [i \in 1..n |-> [sum \in Int |-> sum + numbers[i]]]
<1>1. Step \in [1..n -> [Int -> Int]]
  OBVIOUS
<1>2. ASSUME NEW i \in 1..n, NEW sum \in Int PROVE Step[i][sum] = sum + numbers[i]
  OBVIOUS
<1> HIDE DEF Step
<1>3. PICK F \in [0..n -> Int] : Recurs(F, n, 0, Step)
  <2>1. 0 \in Int
    OBVIOUS
  <2> QED BY <1>1, <2>1, Recursion
<1>4. ASSUME NEW i \in 1..n PROVE F[i] = F[i - 1] + numbers[i]
  <2>1. F[i - 1] \in Int
    <3>1. i - 1 \in 0..n
      OBVIOUS
    <3> QED BY <3>1
  <2> QED BY <1>2, <1>3, <2>1 DEF Recurs
<1> QED BY <1>3, <1>4 DEF Recurs, AddsUp

\* The total does not depend on which end is added first.
LEMMA TotalReverse ==
  ASSUME NEW n \in Nat, NEW numbers \in [1..n -> Int],
         NEW backward \in [1..n -> Int], \A i \in 1..n : backward[i] = numbers[n + 1 - i]
  PROVE  Total(backward) = Total(numbers)
<1>1. PICK F : AddsUp(F, n, numbers)
  BY PrefixSums
<1>2. Len(numbers) = n /\ Len(backward) = n
  OBVIOUS
<1>3. Total(numbers) = F[n]
  BY <1>1, <1>2, TotalIs
<1>4. /\ F \in [0..n -> Int] /\ F[0] = 0
      /\ \A i \in 1..n : F[i] = F[i - 1] + numbers[i]
  BY <1>1 DEF AddsUp
<1> DEFINE G == [i \in 0..n |-> F[n] - F[n - i]]
<1>5. G \in [0..n -> Int]
  <2> SUFFICES ASSUME NEW i \in 0..n PROVE F[n] - F[n - i] \in Int
    OBVIOUS
  <2>1. n - i \in 0..n /\ n \in 0..n
    OBVIOUS
  <2>2. F[n] \in Int /\ F[n - i] \in Int
    BY <1>4, <2>1
  <2> QED BY <2>2
<1>6. \A i \in 0..n : G[i] = F[n] - F[n - i]
  OBVIOUS
<1> HIDE DEF G
<1>7. G[0] = 0 /\ G[n] = F[n]
  <2>1. 0 \in 0..n /\ n - 0 = n /\ n \in 0..n /\ n - n = 0
    OBVIOUS
  <2>2. PICK a \in Int : a = F[n]
    BY <1>4, <2>1
  <2>3. G[0] = a - a /\ G[n] = a - F[0]
    BY <1>6, <2>1, <2>2
  <2>4. a - a = 0 /\ a - 0 = a
    OBVIOUS
  <2> QED BY <1>4, <2>2, <2>3, <2>4
<1>8. ASSUME NEW i \in 1..n PROVE G[i] = G[i - 1] + backward[i]
  <2>1. PICK j \in 1..n : j = n + 1 - i
    OBVIOUS
  <2>2. i \in 0..n /\ i - 1 \in 0..n /\ n - i = j - 1 /\ n - (i - 1) = j
    BY <2>1
  <2>3. G[i] = F[n] - F[j - 1] /\ G[i - 1] = F[n] - F[j]
    BY <1>6, <2>2
  <2>4. F[j] = F[j - 1] + numbers[j] /\ backward[i] = numbers[j]
    BY <1>4, <2>1
  <2>5. F[n] \in Int /\ F[j] \in Int /\ F[j - 1] \in Int /\ numbers[j] \in Int
    <3>1. n \in 0..n /\ j \in 0..n /\ j - 1 \in 0..n
      BY <2>1
    <3> QED BY <1>4, <3>1
  <2>6. PICK a \in Int, b \in Int, c \in Int, d \in Int :
               a = F[n] /\ b = F[j] /\ c = F[j - 1] /\ d = numbers[j]
    BY <2>5
  <2>7. G[i] = a - c /\ G[i - 1] = a - b /\ b = c + d /\ backward[i] = d
    BY <2>3, <2>4, <2>6
  <2> HIDE <2>3, <2>4
  <2>8. a - c = (a - b) + d
    BY <2>7
  <2> QED BY <2>7, <2>8
<1>9. AddsUp(G, n, backward)
  BY <1>5, <1>7, <1>8 DEF AddsUp
<1>10. Total(backward) = G[n]
  BY <1>2, <1>9, TotalIs
<1> QED BY <1>3, <1>7, <1>10

=============================================================================
