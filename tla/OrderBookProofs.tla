--------------------------- MODULE OrderBookProofs ---------------------------
(***************************************************************************)
(* What is proved of the local order book for all updates, prices and      *)
(* interleavings: the merge of an update gives a book in order that has    *)
(* exactly the levels it should (MergeCorrect), so the book is what the    *)
(* updates told; a snapshot is as new as it was asked for; and the         *)
(* comparison with the exchange's book finds every common price.           *)
(***************************************************************************)
EXTENDS BenchmarkManager, SelectionProofs, SequenceTheorems

\* What the dispatcher hands out: at most one update in an event, stamped with
\* times that do not decrease.
MarketEvents == [update : {NoUpdate} \cup {<<update>> : update \in Updates},
                 received_timestamp : 1..(MaxEvents + 1)]

StreamInv ==
  /\ stream \in Seq(MarketEvents)
  /\ Len(stream) <= MaxEvents
  /\ \A k \in 1..Len(stream) : stream[k].received_timestamp <= k + 1
  /\ \A k \in 1..Len(stream) : \A j \in 1..k :
       stream[j].received_timestamp <= stream[k].received_timestamp

\* The two threads, and what the book's time stands for.
ThreadsInv ==
  /\ stream_ended \in BOOLEAN /\ asking \in BOOLEAN /\ unit_busy \in BOOLEAN
  /\ handled \in 0..Len(stream) /\ read \in 0..Len(stream)
  /\ asking => read # 0
  /\ unit_busy => HasNext /\ NextEvent.update # NoUpdate
  /\ new_snapshots = Cardinality(UpdatesBefore(handled))
  /\ \/ order_book.received_timestamp = 0
     \/ \E k \in 1..handled : order_book.received_timestamp = stream[k].received_timestamp

Books == [received_timestamp : 0..(MaxEvents + 1), bids : Seq(Level), asks : Seq(Level)]

BookInv ==
  /\ order_book \in Books
  /\ told \in [Sides -> [Prices -> Quantities]] /\ truncated \in BOOLEAN
  /\ \A side \in Sides : Ordered(side, Items(side)) /\ Len(Items(side)) <= MaxLevels
  /\ BookIsTold

\* A snapshot holds every update of before the time it was asked at.
HoldsAll(event, holds) ==
  \A n \in UpdatesBefore(event) :
    stream[n].received_timestamp < stream[event].received_timestamp => n <= holds

SnapshotInv ==
  /\ snapshots \in Seq([event : Nat, holds : Nat])
  /\ \A k \in 1..Len(snapshots) :
       /\ snapshots[k].event \in 1..Len(stream)
       /\ HoldsAll(snapshots[k].event, snapshots[k].holds)

\* The inductive invariant.
IInv == StreamInv /\ ThreadsInv /\ BookInv /\ SnapshotInv

-----------------------------------------------------------------------------
(* Sequences.                                                              *)

\* The recursion of FlattenSeq has a solution ...
LEMMA PrefixesExist ==
  ASSUME NEW S, NEW s \in Seq(Seq(S))
  PROVE  \E F \in [0..Len(s) -> Seq(S)] :
           F[0] = <<>> /\ \A i \in 1..Len(s) : F[i] = F[i - 1] \o s[i]
<1>1. PICK m \in Nat : m = Len(s)
  OBVIOUS
<1> DEFINE Solves(F, n) == F[0] = <<>> /\ \A i \in 1..n : F[i] = F[i - 1] \o s[i]
           Solved(n) == \E F \in [0..n -> Seq(S)] : Solves(F, n)
           T == {n \in 0..m : ~Solved(n)}
<1>2. ASSUME T # {} PROVE FALSE
  <2>1. T \subseteq Nat
    <3> HIDE DEF Solved
    <3> QED OBVIOUS
  <2>2. \E n \in T : \A k \in T : ~(k < n)
    <3> HIDE DEF T
    <3> QED BY <1>2, <2>1, Least
  <2>3. PICK n \in T : \A k \in T : ~(k < n)
    BY <2>2
  <2>4. n # 0
    <3>1. [i \in 0..0 |-> <<>>] \in [0..0 -> Seq(S)]
      OBVIOUS
    <3>2. Solves([i \in 0..0 |-> <<>>], 0)
      OBVIOUS
    <3> QED BY <3>1, <3>2
  <2>5. n \in 1..m /\ n - 1 \in 0..m /\ n - 1 < n
    BY <1>1, <2>4
  <2>6. PICK F \in [0..(n - 1) -> Seq(S)] : Solves(F, n - 1)
    BY <2>3, <2>5
  <2> DEFINE G == [i \in 0..n |-> IF i = n THEN F[n - 1] \o s[n] ELSE F[i]]
  <2>7. s[n] \in Seq(S) /\ F[n - 1] \in Seq(S)
    BY <1>1, <2>5
  <2>8. F[n - 1] \o s[n] \in Seq(S)
    BY <2>7, ConcatProperties
  <2>9. G \in [0..n -> Seq(S)]
    BY <2>5, <2>8
  <2>10. Solves(G, n)
    <3>1. G[0] = <<>>
      BY <2>5, <2>6
    <3>2. ASSUME NEW i \in 1..n PROVE G[i] = G[i - 1] \o s[i]
      <4>1. \A k \in 0..n : G[k] = IF k = n THEN F[n - 1] \o s[n] ELSE F[k]
        OBVIOUS
      <4>2. i \in 0..n /\ i - 1 \in 0..n /\ i - 1 # n
        BY <2>5
      <4>3. G[i - 1] = F[i - 1]
        BY <4>1, <4>2
      <4>4. G[i] = IF i = n THEN F[n - 1] \o s[n] ELSE F[i]
        BY <4>1, <4>2
      <4> HIDE DEF G
      <4>5. CASE i = n
        BY <4>3, <4>4, <4>5
      <4>6. CASE i # n
        <5>1. i \in 1..(n - 1)
          BY <2>5, <4>6
        <5>2. F[i] = F[i - 1] \o s[i]
          BY <2>6, <5>1
        <5> QED BY <4>3, <4>4, <4>6, <5>2
      <4> QED BY <4>5, <4>6
    <3> QED BY <3>1, <3>2
  <2>11. Solved(n)
    BY <2>9, <2>10
  <2> HIDE DEF Solved
  <2> QED BY <2>3, <2>11
<1>3. Solved(m)
  <2>1. m \in 0..m
    BY <1>1
  <2>2. T = {}
    BY <1>2
  <2> HIDE DEF Solved
  <2> QED BY <2>1, <2>2
<1> QED BY <1>1, <1>3

\* ... and only one, so what it gives is the flattened sequence.
LEMMA FlattenIs ==
  ASSUME NEW S, NEW s \in Seq(Seq(S)), NEW F \in [0..Len(s) -> Seq(S)], F[0] = <<>>,
         \A i \in 1..Len(s) : F[i] = F[i - 1] \o s[i]
  PROVE  FlattenSeq(s) = F[Len(s)]
<1>1. PICK m \in Nat : m = Len(s)
  OBVIOUS
<1>2. CASE m = 0
  <2>1. FlattenSeq(s) = s
    BY <1>1, <1>2 DEF FlattenSeq
  <2>2. s = <<>>
    BY <1>1, <1>2, EmptySeq
  <2> QED BY <1>1, <1>2, <2>1, <2>2
<1>3. CASE m # 0
  <2> DEFINE Step(f) == [i \in 1..Len(s) |-> IF i = 1 THEN s[i] ELSE f[i - 1] \o s[i]]
             C == CHOOSE f : f = Step(f)
             G == [i \in 1..Len(s) |-> F[i]]
             T == {i \in 1..m : C[i] # F[i]}
  <2>1. FlattenSeq(s) = C[Len(s)]
    BY <1>1, <1>3, Zenon DEF FlattenSeq
  <2>2. G = Step(G)
    <3>1. ASSUME NEW i \in 1..m PROVE F[i] = IF i = 1 THEN s[i] ELSE G[i - 1] \o s[i]
      <4>1. CASE i = 1
        <5>0. 1 \in 1..Len(s)
          BY <1>1, <4>1
        <5>1. F[1] = F[1 - 1] \o s[1] /\ s[1] \in Seq(S)
          BY <5>0, ElementOfSeq
        <5>2. F[1] = s[1]
          <6>1. F[1 - 1] = <<>>
            OBVIOUS
          <6> QED BY <5>1, <6>1, ConcatEmptySeq
        <5> QED BY <4>1, <5>2
      <4>2. CASE i # 1
        <5>1. i - 1 \in 1..m
          BY <1>1, <4>2
        <5>2. G[i - 1] = F[i - 1]
          BY <1>1, <5>1
        <5> QED BY <1>1, <4>2, <5>2
      <4> QED BY <4>1, <4>2
    <3> QED BY <1>1, <3>1
  <2>3. C = Step(C)
    BY <2>2
  <2> HIDE DEF C
  <2>4. \A i \in 1..m : C[i] = IF i = 1 THEN s[i] ELSE C[i - 1] \o s[i]
    BY <1>1, <2>3
  <2>5. ASSUME T # {} PROVE FALSE
    <3>1. T \subseteq Nat
      OBVIOUS
    <3>2. \E n \in T : \A k \in T : ~(k < n)
      <4> HIDE DEF T
      <4> QED BY <2>5, <3>1, Least
    <3>3. PICK n \in T : \A k \in T : ~(k < n)
      BY <3>2
    <3>4. n \in 1..m /\ C[n] # F[n]
      OBVIOUS
    <3>5. CASE n = 1
      <4>0. 1 \in 1..Len(s)
        BY <1>1, <3>4, <3>5
      <4>1. F[1] = F[1 - 1] \o s[1] /\ s[1] \in Seq(S)
        BY <4>0, ElementOfSeq
      <4>2. F[1] = s[1]
        <5>1. F[1 - 1] = <<>>
          OBVIOUS
        <5> QED BY <4>1, <5>1, ConcatEmptySeq
      <4> QED BY <2>4, <3>4, <3>5, <4>2
    <3>6. CASE n # 1
      <4>1. n - 1 \in 1..m /\ n - 1 < n
        BY <1>1, <3>4, <3>6
      <4>2. C[n - 1] = F[n - 1]
        BY <3>3, <4>1
      <4>3. C[n] = C[n - 1] \o s[n] /\ F[n] = F[n - 1] \o s[n]
        BY <1>1, <2>4, <3>4, <3>6
      <4> QED BY <3>4, <4>2, <4>3
    <3> QED BY <3>5, <3>6
  <2>6. m \in 1..m
    BY <1>1, <1>3
  <2> QED BY <1>1, <2>1, <2>5, <2>6
<1> QED BY <1>2, <1>3

\* Where an element of a concatenation comes from, and goes to.
LEMMA ConcatItems ==
  ASSUME NEW S, NEW s \in Seq(S), NEW t \in Seq(S)
  PROVE  /\ s \o t \in Seq(S) /\ Len(s \o t) = Len(s) + Len(t)
         /\ \A k \in 1..Len(s \o t) :
              \/ k \in 1..Len(s) /\ (s \o t)[k] = s[k]
              \/ k - Len(s) \in 1..Len(t) /\ (s \o t)[k] = t[k - Len(s)]
         /\ \A k \in 1..Len(s) : k \in 1..Len(s \o t) /\ (s \o t)[k] = s[k]
         /\ \A k \in 1..Len(t) : k + Len(s) \in 1..Len(s \o t) /\ (s \o t)[k + Len(s)] = t[k]
<1>1. PICK m \in Nat, n \in Nat : m = Len(s) /\ n = Len(t)
  OBVIOUS
<1>2. /\ s \o t \in Seq(S) /\ Len(s \o t) = m + n
      /\ \A k \in 1..(m + n) : (s \o t)[k] = IF k <= m THEN s[k] ELSE t[k - m]
  BY <1>1, ConcatProperties
<1>3. ASSUME NEW k \in 1..(m + n)
      PROVE  \/ k \in 1..m /\ (s \o t)[k] = s[k]
             \/ k - m \in 1..n /\ (s \o t)[k] = t[k - m]
  BY <1>2
<1>4. ASSUME NEW k \in 1..m PROVE k \in 1..(m + n) /\ (s \o t)[k] = s[k]
  BY <1>2
<1>5. ASSUME NEW k \in 1..n PROVE k + m \in 1..(m + n) /\ (s \o t)[k + m] = t[k]
  <2>1. k + m \in 1..(m + n) /\ ~(k + m <= m) /\ (k + m) - m = k
    OBVIOUS
  <2> QED BY <1>2, <2>1
<1> QED BY <1>1, <1>2, <1>3, <1>4, <1>5

\* A piece of a sequence.
LEMMA Piece ==
  ASSUME NEW S, NEW s \in Seq(S), NEW a \in 0..Len(s), NEW b \in 0..Len(s)
  PROVE  /\ SubSeq(s, a + 1, b) \in Seq(S)
         /\ \A k \in 1..Len(SubSeq(s, a + 1, b)) :
              /\ a + k \in 1..Len(s) /\ a + k > a /\ a + k <= b
              /\ SubSeq(s, a + 1, b)[k] = s[a + k]
         /\ \A k \in 1..Len(s) : k > a /\ k <= b =>
              k - a \in 1..Len(SubSeq(s, a + 1, b)) /\ SubSeq(s, a + 1, b)[k - a] = s[k]
<1>1. PICK m \in Nat : m = Len(s)
  OBVIOUS
<1>2. a \in 0..m /\ b \in 0..m
  BY <1>1
<1>3. CASE a <= b
  <2>1. a + 1 \in 1..(m + 1) /\ b \in a..m /\ b \in (a + 1 - 1)..Len(s) /\ a + 1 \in 1..(Len(s) + 1)
    BY <1>1, <1>2, <1>3
  <2>2. /\ SubSeq(s, a + 1, b) \in Seq(S)
        /\ Len(SubSeq(s, a + 1, b)) = b - a
    BY <1>1, <1>2, <1>3, <2>1, SubSeqProperties
  <2>3. ASSUME NEW k \in 1..(b - a)
        PROVE  SubSeq(s, a + 1, b)[k] = s[a + k]
    <3>1. \A i \in 1..((b - (a + 1)) + 1) : SubSeq(s, a + 1, b)[i] = s[(a + 1) + i - 1]
      BY <1>1, <1>2, <1>3, <2>1, SubSeqProperties
    <3>2. k \in 1..((b - (a + 1)) + 1) /\ (a + 1) + k - 1 = a + k
      BY <1>2
    <3> QED BY <3>1, <3>2
  <2>4. ASSUME NEW k \in 1..(b - a)
        PROVE  a + k \in 1..m /\ a + k > a /\ a + k <= b
    BY <1>2
  <2>5. ASSUME NEW k \in 1..m, k > a, k <= b
        PROVE  k - a \in 1..(b - a) /\ a + (k - a) = k
    BY <1>2, <2>5
  <2>6. ASSUME NEW k \in 1..m, k > a, k <= b
        PROVE  k - a \in 1..(b - a) /\ SubSeq(s, a + 1, b)[k - a] = s[k]
    <3>1. k - a \in 1..(b - a) /\ a + (k - a) = k
      BY <2>5, <2>6
    <3> QED BY <2>3, <3>1
  <2> QED BY <1>1, <2>2, <2>3, <2>4, <2>6
<1>4. CASE ~(a <= b)
  <2>1. SubSeq(s, a + 1, b) = <<>>
    <3>1. a + 1 > b
      BY <1>2, <1>4
    <3> QED BY <1>2, <3>1, SubSeqEmpty
  <2>2. \A k \in 1..m : ~(k > a /\ k <= b)
    BY <1>2, <1>4
  <2> QED BY <1>1, <2>1, <2>2
<1> QED BY <1>3, <1>4

-----------------------------------------------------------------------------
(* The order of prices, and where a price cuts the old levels.             *)

LEMMA PricesOrdered ==
  ASSUME NEW side, NEW p \in Nat, NEW q \in Nat, NEW r \in Nat
  PROVE  /\ ~Precedes(side, p, p)
         /\ Precedes(side, p, q) \/ p = q \/ Precedes(side, q, p)
         /\ Precedes(side, p, q) => ~Precedes(side, q, p)
         /\ Precedes(side, p, q) /\ Precedes(side, q, r) => Precedes(side, p, r)
         /\ Precedes(side, p, q) /\ ~Precedes(side, r, q) => Precedes(side, p, r)
         /\ ~Precedes(side, q, p) /\ Precedes(side, q, r) => Precedes(side, p, r)
BY DEF Precedes

LEMMA Transitive ==
  ASSUME NEW side, NEW p \in Nat, NEW q \in Nat, NEW r \in Nat,
         Precedes(side, p, q), Precedes(side, q, r)
  PROVE  Precedes(side, p, r)
BY DEF Precedes

LEMMA LevelFields ==
  ASSUME NEW items \in Seq(Level), NEW k \in 1..Len(items)
  PROVE  /\ items[k] \in Level /\ items[k].price \in Prices /\ items[k].price \in Nat
         /\ items[k].quantity \in Quantities
<1>1. items[k] \in Level
  BY ElementOfSeq
<1>2. Prices \subseteq Nat
  BY ProviderConstants DEF ProviderConstants
<1> QED BY <1>1, <1>2 DEF Level

\* Positions that are closed downward are counted by the last of them.
LEMMA Initial ==
  ASSUME NEW m \in Nat, NEW S, S \subseteq 1..m,
         \A k \in S : \A j \in 1..m : j < k => j \in S
  PROVE  Cardinality(S) \in 0..m /\ \A k \in 1..m : k \in S <=> k <= Cardinality(S)
<1> DEFINE T == {n \in 1..(m + 1) : n \notin S}
<1>1. T \subseteq Nat /\ m + 1 \in T
  BY DEF T
<1>2. \E n \in T : \A k \in T : ~(k < n)
  <2> HIDE DEF T
  <2> QED BY <1>1, Least
<1>3. PICK n \in T : \A k \in T : ~(k < n)
  BY <1>2
<1>4. n \in 1..(m + 1) /\ n \notin S
  OBVIOUS
<1>5. ASSUME NEW k \in 1..m PROVE k \in S <=> k <= n - 1
  <2>1. CASE k < n
    BY <1>3, <1>4, <2>1
  <2>2. CASE ~(k < n)
    <3>1. k = n \/ n < k
      BY <1>4, <2>2
    <3>2. ASSUME k \in S PROVE FALSE
      BY <1>4, <3>1, <3>2
    <3>3. ~(k <= n - 1)
      BY <1>4, <2>2
    <3> QED BY <3>2, <3>3
  <2> QED BY <2>1, <2>2
<1> HIDE DEF T
<1>6. S = 1..(n - 1)
  <2>1. \A k \in S : k \in 1..(n - 1)
    BY <1>4, <1>5
  <2>2. \A k \in 1..(n - 1) : k \in S
    BY <1>4, <1>5
  <2> QED BY <2>1, <2>2
<1>7. Cardinality(S) = n - 1
  <2>1. Cardinality(1..(n - 1)) = IF 1 > n - 1 THEN 0 ELSE (n - 1) - 1 + 1
    BY <1>4, FS_Interval
  <2> QED BY <1>4, <1>6, <2>1
<1> QED BY <1>4, <1>5, <1>7

LEMMA Cut ==
  ASSUME NEW side, NEW old \in Seq(Level), Ordered(side, old), NEW p \in Nat
  PROVE  /\ Before(side, old, p) \in 0..Len(old) /\ UpTo(side, old, p) \in 0..Len(old)
         /\ \A k \in 1..Len(old) :
              /\ k <= Before(side, old, p) <=> Precedes(side, old[k].price, p)
              /\ k <= UpTo(side, old, p) <=> ~Precedes(side, p, old[k].price)
<1>1. PICK m \in Nat : m = Len(old)
  OBVIOUS
<1>2. DOMAIN old = 1..m
  BY <1>1
<1>3. \A k \in 1..m : old[k].price \in Nat
  BY <1>1, LevelFields
<1>4. \A k \in 1..m : \A j \in 1..m : j < k => Precedes(side, old[j].price, old[k].price)
  BY <1>2 DEF Ordered
<1> DEFINE B == {k \in 1..m : Precedes(side, old[k].price, p)}
           U == {k \in 1..m : ~Precedes(side, p, old[k].price)}
<1>5. Before(side, old, p) = Cardinality(B) /\ UpTo(side, old, p) = Cardinality(U)
  BY <1>2 DEF Before, UpTo
<1>6. \A k \in B : \A j \in 1..m : j < k => j \in B
  BY <1>3, <1>4, PricesOrdered
<1>7. \A k \in U : \A j \in 1..m : j < k => j \in U
  <2> SUFFICES ASSUME NEW k \in U, NEW j \in 1..m, j < k PROVE ~Precedes(side, p, old[j].price)
    OBVIOUS
  <2>1. Precedes(side, old[j].price, old[k].price) /\ ~Precedes(side, p, old[k].price)
    BY <1>4
  <2>2. old[j].price \in Nat /\ old[k].price \in Nat
    BY <1>3
  <2> QED BY <2>1, <2>2, PricesOrdered
<1>8. B \subseteq 1..m /\ U \subseteq 1..m
  OBVIOUS
<1>9. \A k \in 1..m : (k \in B <=> Precedes(side, old[k].price, p)) /\ (k \in U <=> ~Precedes(side, p, old[k].price))
  OBVIOUS
<1> HIDE DEF B, U
<1>10. Cardinality(B) \in 0..m /\ \A k \in 1..m : k \in B <=> k <= Cardinality(B)
  BY <1>6, <1>8, Initial
<1>11. Cardinality(U) \in 0..m /\ \A k \in 1..m : k \in U <=> k <= Cardinality(U)
  BY <1>7, <1>8, Initial
<1> QED BY <1>1, <1>5, <1>9, <1>10, <1>11

\* Two pieces in order, all of the one before all of the other.
LEMMA ConcatOrdered ==
  ASSUME NEW side, NEW s \in Seq(Level), NEW t \in Seq(Level), Ordered(side, s), Ordered(side, t),
         \A j \in 1..Len(s) : \A k \in 1..Len(t) : Precedes(side, s[j].price, t[k].price)
  PROVE  Ordered(side, s \o t)
<1>1. PICK m \in Nat, n \in Nat : m = Len(s) /\ n = Len(t)
  OBVIOUS
<1>2. /\ s \o t \in Seq(Level) /\ DOMAIN (s \o t) = 1..(m + n)
      /\ \A k \in 1..(m + n) :
              \/ k \in 1..m /\ (s \o t)[k] = s[k]
              \/ k - m \in 1..n /\ (s \o t)[k] = t[k - m]
  BY <1>1, ConcatItems
<1> SUFFICES ASSUME NEW k \in 1..(m + n), NEW j \in 1..(k - 1)
             PROVE  Precedes(side, (s \o t)[j].price, (s \o t)[k].price)
  BY <1>2 DEF Ordered
<1>3. j \in 1..(m + n) /\ j < k
  OBVIOUS
<1>4. CASE k \in 1..m /\ (s \o t)[k] = s[k]
  <2>1. j \in 1..(k - 1) /\ j \in 1..m /\ ~(j - m \in 1..n)
    BY <1>3, <1>4
  <2>2. (s \o t)[j] = s[j]
    BY <1>2, <1>3, <2>1
  <2> QED BY <1>1, <1>4, <2>1, <2>2 DEF Ordered
<1>5. CASE k - m \in 1..n /\ (s \o t)[k] = t[k - m]
  <2>1. CASE j \in 1..m /\ (s \o t)[j] = s[j]
    BY <1>1, <1>5, <2>1
  <2>2. CASE j - m \in 1..n /\ (s \o t)[j] = t[j - m]
    <3>1. j - m \in 1..((k - m) - 1)
      BY <1>3, <2>2
    <3>2. DOMAIN t = 1..n
      BY <1>1
    <3>3. Precedes(side, t[j - m].price, t[k - m].price)
      BY <1>5, <3>1, <3>2 DEF Ordered
    <3> QED BY <1>5, <2>2, <3>3
  <2> QED BY <1>2, <1>3, <2>1, <2>2
<1> QED BY <1>2, <1>4, <1>5

LEMMA PieceOrdered ==
  ASSUME NEW side, NEW s \in Seq(Level), NEW a \in 0..Len(s), NEW b \in 0..Len(s), Ordered(side, s)
  PROVE  Ordered(side, SubSeq(s, a + 1, b))
<1> DEFINE t == SubSeq(s, a + 1, b)
<1>1. PICK m \in Nat : m = Len(s)
  OBVIOUS
<1>2. t \in Seq(Level) /\ \A k \in 1..Len(t) : a + k \in 1..m /\ t[k] = s[a + k]
  BY <1>1, Piece
<1> HIDE DEF t
<1>3. PICK n \in Nat : n = Len(t)
  BY <1>2
<1>4. DOMAIN t = 1..n /\ DOMAIN s = 1..m
  BY <1>1, <1>2, <1>3
<1> SUFFICES ASSUME NEW k \in 1..n, NEW j \in 1..(k - 1)
             PROVE  Precedes(side, t[j].price, t[k].price)
  BY <1>4 DEF Ordered, t
<1>5. j \in 1..n /\ a + j \in 1..((a + k) - 1)
  BY <1>1
<1>6. a + k \in 1..m /\ t[k] = s[a + k] /\ t[j] = s[a + j]
  BY <1>2, <1>3, <1>5
<1>7. Precedes(side, s[a + j].price, s[a + k].price)
  BY <1>4, <1>5, <1>6 DEF Ordered
<1> QED BY <1>6, <1>7

-----------------------------------------------------------------------------
(* The merge of an update.                                                 *)

MergeInput(side, old, update) ==
  /\ old \in Seq(Level) /\ update \in Seq(Level)
  /\ Ordered(side, old) /\ Ordered(side, update)

NotUpdated(update, price) == \A j \in 1..Len(update) : update[j].price # price
Has(items, item) == \E k \in 1..Len(items) : items[k] = item

LEMMA HasConcat ==
  ASSUME NEW s \in Seq(Level), NEW t \in Seq(Level), NEW item
  PROVE  Has(s, item) \/ Has(t, item) => Has(s \o t, item)
<1>1. /\ \A k \in 1..Len(s) : k \in 1..Len(s \o t) /\ (s \o t)[k] = s[k]
      /\ \A k \in 1..Len(t) : k + Len(s) \in 1..Len(s \o t) /\ (s \o t)[k + Len(s)] = t[k]
  BY ConcatItems
<1>2. Has(s, item) => Has(s \o t, item)
  BY <1>1 DEF Has
<1>3. Has(t, item) => Has(s \o t, item)
  BY <1>1 DEF Has
<1> QED BY <1>2, <1>3

\* What has been passed, and what lies before the next level of the update.
LEMMA PassedIs ==
  ASSUME NEW side, NEW old, NEW update, MergeInput(side, old, update), NEW n \in 0..Len(update)
  PROVE  /\ Passed(side, old, update, n) \in 0..Len(old)
         /\ n = 0 => Passed(side, old, update, n) = 0
         /\ n # 0 =>
              /\ update[n].price \in Nat
              /\ Before(side, old, update[n].price) \in 0..Len(old)
              /\ \A i \in 1..Len(old) :
                   /\ i <= Passed(side, old, update, n) <=> ~Precedes(side, update[n].price, old[i].price)
                   /\ i <= Before(side, old, update[n].price) <=> Precedes(side, old[i].price, update[n].price)
<1>1. old \in Seq(Level) /\ update \in Seq(Level) /\ Ordered(side, old) /\ Len(old) \in Nat
  BY DEF MergeInput
<1>2. CASE n = 0
  <2>1. Passed(side, old, update, n) = 0
    BY <1>2 DEF Passed
  <2> QED BY <1>1, <1>2, <2>1
<1>3. CASE n # 0
  <2>1. n \in 1..Len(update)
    BY <1>3
  <2>2. update[n].price \in Nat
    BY <1>1, <2>1, LevelFields
  <2>3. Passed(side, old, update, n) = UpTo(side, old, update[n].price)
    BY <1>3 DEF Passed
  <2>4. PICK p \in Nat : p = update[n].price
    BY <2>2
  <2>5. /\ Before(side, old, p) \in 0..Len(old) /\ UpTo(side, old, p) \in 0..Len(old)
        /\ \A k \in 1..Len(old) :
             /\ k <= Before(side, old, p) <=> Precedes(side, old[k].price, p)
             /\ k <= UpTo(side, old, p) <=> ~Precedes(side, p, old[k].price)
    BY <1>1, Cut
  <2> QED BY <1>3, <2>3, <2>4, <2>5
<1> QED BY <1>2, <1>3

\* The prices of a merge, in their order.
LEMMA MergePrices ==
  ASSUME NEW side, NEW old, NEW update, MergeInput(side, old, update)
  PROVE  /\ \A i \in 1..Len(old) : old[i].price \in Nat
         /\ \A j \in 1..Len(update) : update[j].price \in Nat
         /\ \A i, k \in 1..Len(old) : i < k => Precedes(side, old[i].price, old[k].price)
         /\ \A i, k \in 1..Len(update) : i < k => Precedes(side, update[i].price, update[k].price)
<1>1. old \in Seq(Level) /\ update \in Seq(Level) /\ Ordered(side, old) /\ Ordered(side, update)
  BY DEF MergeInput
<1>2. /\ \A i \in 1..Len(old) : old[i].price \in Nat
      /\ \A j \in 1..Len(update) : update[j].price \in Nat
  BY <1>1, LevelFields
<1>3. PICK m \in Nat, n \in Nat : m = Len(old) /\ n = Len(update)
  BY <1>1
<1>4. DOMAIN old = 1..m /\ DOMAIN update = 1..n
  BY <1>1, <1>3
<1>5. \A i, k \in 1..m : i < k => Precedes(side, old[i].price, old[k].price)
  BY <1>1, <1>4 DEF Ordered
<1>6. \A i, k \in 1..n : i < k => Precedes(side, update[i].price, update[k].price)
  BY <1>1, <1>4 DEF Ordered
<1> QED BY <1>2, <1>3, <1>5, <1>6

\* The old levels between two levels of the update are at none of its prices;
\* those passed at last that are not, were passed before.
LEMMA Between ==
  ASSUME NEW side, NEW old, NEW update, MergeInput(side, old, update),
         NEW n \in 1..Len(update), NEW i \in 1..Len(old)
  PROVE  /\ i > Passed(side, old, update, n - 1) /\ i <= Before(side, old, update[n].price) =>
              NotUpdated(update, old[i].price) /\ i <= Passed(side, old, update, n)
         /\ i <= Passed(side, old, update, n) /\ NotUpdated(update, old[i].price) =>
              i <= Before(side, old, update[n].price)
         /\ i <= Passed(side, old, update, n - 1) => i <= Passed(side, old, update, n)
         /\ n = Len(update) /\ i > Passed(side, old, update, n) => NotUpdated(update, old[i].price)
<1>1. PICK l \in Nat : l = Len(update)
  BY DEF MergeInput
<1>2. n \in 1..l /\ n - 1 \in 0..l
  BY <1>1
<1> DEFINE a == Passed(side, old, update, n - 1)
           u == Passed(side, old, update, n)
           b == Before(side, old, update[n].price)
<1>3. PICK p \in Nat : p = old[i].price
  BY MergePrices
<1>4. /\ \A j \in 1..l : update[j].price \in Nat
      /\ \A j, k \in 1..l : j < k => Precedes(side, update[j].price, update[k].price)
  BY <1>1, MergePrices
<1>5. /\ u \in Nat /\ b \in Nat
      /\ i <= u <=> ~Precedes(side, update[n].price, p)
      /\ i <= b <=> Precedes(side, p, update[n].price)
  BY <1>1, <1>2, <1>3, PassedIs
<1>6. /\ a \in Nat /\ (n = 1 => a = 0)
      /\ n # 1 => (i <= a <=> ~Precedes(side, update[n - 1].price, p))
  <2>1. n - 1 # 0 <=> n # 1
    BY <1>2
  <2>2. PICK k \in 0..Len(update) : k = n - 1
    BY <1>1, <1>2
  <2>3. /\ Passed(side, old, update, k) \in 0..Len(old)
        /\ k = 0 => Passed(side, old, update, k) = 0
        /\ k # 0 => (i <= Passed(side, old, update, k) <=> ~Precedes(side, update[k].price, old[i].price))
    BY PassedIs
  <2>4. Len(old) \in Nat
    BY DEF MergeInput
  <2> QED BY <1>3, <2>1, <2>2, <2>3, <2>4
<1> HIDE DEF a, u, b
<1>7. i \in Nat /\ i >= 1
  BY DEF MergeInput
<1>8. ASSUME i > a, i <= b PROVE NotUpdated(update, p) /\ i <= u
  <2>1. Precedes(side, p, update[n].price)
    BY <1>5, <1>8
  <2>2. ASSUME NEW j \in 1..l PROVE update[j].price # p
    <3>1. CASE j = n
      BY <1>3, <1>4, <2>1, <3>1, PricesOrdered
    <3>2. CASE j > n
      <4>1. Precedes(side, update[n].price, update[j].price)
        BY <1>2, <1>4, <3>2
      <4>2. Precedes(side, p, update[j].price)
        BY <1>2, <1>4, <2>1, <4>1, Transitive
      <4> QED BY <1>4, <4>2, PricesOrdered
    <3>3. CASE j < n
      <4>1. n # 1 /\ n - 1 \in 1..l
        BY <1>2, <3>3
      <4>2. Precedes(side, update[n - 1].price, p)
        BY <1>6, <1>7, <1>8, <4>1
      <4>3. CASE j = n - 1
        BY <1>4, <4>1, <4>2, <4>3, PricesOrdered
      <4>4. CASE j # n - 1
        <5>1. j < n - 1
          BY <1>2, <3>3, <4>4
        <5>2. Precedes(side, update[j].price, update[n - 1].price)
          BY <1>4, <4>1, <5>1
        <5>3. Precedes(side, update[j].price, p)
          BY <1>4, <4>1, <4>2, <5>2, Transitive
        <5> QED BY <1>4, <5>3, PricesOrdered
      <4> QED BY <4>3, <4>4
    <3> QED BY <1>2, <3>1, <3>2, <3>3
  <2>3. ~Precedes(side, update[n].price, p)
    BY <1>2, <1>4, <2>1, PricesOrdered
  <2> QED BY <1>1, <1>5, <2>2, <2>3 DEF NotUpdated
<1>9. ASSUME i <= u, NotUpdated(update, p) PROVE i <= b
  <2>1. update[n].price # p
    BY <1>9 DEF NotUpdated
  <2>2. ~Precedes(side, update[n].price, p)
    BY <1>5, <1>9
  <2>3. Precedes(side, p, update[n].price)
    BY <1>2, <1>4, <2>1, <2>2, PricesOrdered
  <2> QED BY <1>5, <2>3
<1>10. ASSUME i <= a PROVE i <= u
  <2>1. n # 1 /\ n - 1 \in 1..l
    BY <1>2, <1>6, <1>7, <1>10
  <2>2. ~Precedes(side, update[n - 1].price, p)
    BY <1>6, <1>10, <2>1
  <2>3. Precedes(side, update[n - 1].price, update[n].price)
    BY <1>2, <1>4, <2>1
  <2>4. ~Precedes(side, update[n].price, p)
    BY <1>2, <1>4, <2>1, <2>2, <2>3, Transitive
  <2> QED BY <1>5, <2>4
<1>11. ASSUME n = l, i > u PROVE NotUpdated(update, p)
  <2>1. Precedes(side, update[n].price, p)
    BY <1>5, <1>7, <1>11
  <2>2. ASSUME NEW j \in 1..l PROVE update[j].price # p
    <3>1. CASE j = n
      BY <1>4, <2>1, <3>1, PricesOrdered
    <3>2. CASE j # n
      <4>1. j < n
        BY <1>11, <3>2
      <4>2. Precedes(side, update[j].price, update[n].price)
        BY <1>2, <1>4, <4>1
      <4>3. Precedes(side, update[j].price, p)
        BY <1>2, <1>4, <2>1, <4>2, Transitive
      <4> QED BY <1>4, <4>3, PricesOrdered
    <3> QED BY <3>1, <3>2
  <2> QED BY <1>1, <2>2 DEF NotUpdated
<1> QED BY <1>1, <1>3, <1>8, <1>9, <1>10, <1>11 DEF a, u, b

\* One turn of the loop over the update.
LEMMA TurnIs ==
  ASSUME NEW side, NEW old, NEW update, MergeInput(side, old, update), NEW n \in 1..Len(update),
         NEW piece, piece = MergeItem(side, old, update, n)
  PROVE  /\ piece \in Seq(Level) /\ Ordered(side, piece)
         /\ \A k \in 1..Len(piece) :
              \/ piece[k] = update[n]
              \/ \E i \in 1..Len(old) : /\ i > Passed(side, old, update, n - 1)
                                        /\ i <= Before(side, old, update[n].price)
                                        /\ piece[k] = old[i]
         /\ \A i \in 1..Len(old) :
              i > Passed(side, old, update, n - 1) /\ i <= Before(side, old, update[n].price) =>
                Has(piece, old[i])
         /\ update[n].quantity # 0 => Has(piece, update[n])
<1> DEFINE a == Passed(side, old, update, n - 1)
           b == Before(side, old, update[n].price)
           s == SubSeq(old, a + 1, b)
           t == IF update[n].quantity = 0 /\ b < Len(old) THEN <<>> ELSE <<update[n]>>
<1>1. piece = s \o t
  BY DEF MergeItem
<1>2. /\ old \in Seq(Level) /\ update \in Seq(Level) /\ Ordered(side, old) /\ update[n] \in Level
      /\ update[n].price \in Nat
  BY LevelFields DEF MergeInput
<1>3. /\ a \in 0..Len(old) /\ b \in 0..Len(old)
      /\ \A i \in 1..Len(old) : i <= b <=> Precedes(side, old[i].price, update[n].price)
  <2>1. n \in 0..Len(update) /\ n - 1 \in 0..Len(update) /\ n # 0
    BY <1>2
  <2> QED BY <2>1, PassedIs
<1>4. /\ t \in Seq(Level) /\ Ordered(side, t)
      /\ \A k \in 1..Len(t) : t[k] = update[n]
      /\ update[n].quantity # 0 => Len(t) = 1
  <2>1. CASE t = <<>>
    <3>1. update[n].quantity = 0
      BY <2>1
    <3> QED BY <2>1, <3>1 DEF Ordered
  <2>2. CASE t = <<update[n]>>
    <3>1. <<update[n]>> \in Seq(Level) /\ Len(<<update[n]>>) = 1 /\ <<update[n]>>[1] = update[n]
      BY <1>2
    <3>2. Ordered(side, <<update[n]>>)
      BY DEF Ordered
    <3> QED BY <2>2, <3>1, <3>2
  <2> QED BY <2>1, <2>2
<1> HIDE DEF a, b, t
<1>5. /\ s \in Seq(Level) /\ Ordered(side, s)
      /\ \A k \in 1..Len(s) : /\ a + k \in 1..Len(old) /\ a + k > a /\ a + k <= b
                              /\ s[k] = old[a + k]
      /\ \A i \in 1..Len(old) : i > a /\ i <= b => i - a \in 1..Len(s) /\ s[i - a] = old[i]
  BY <1>2, <1>3, Piece, PieceOrdered
<1> HIDE DEF s
<1>6. Ordered(side, piece)
  <2>1. \A j \in 1..Len(s) : \A k \in 1..Len(t) : Precedes(side, s[j].price, t[k].price)
    BY <1>3, <1>4, <1>5
  <2> QED BY <1>1, <1>4, <1>5, <2>1, ConcatOrdered
<1>7. piece \in Seq(Level)
  BY <1>1, <1>4, <1>5, ConcatItems
<1>8. ASSUME NEW k \in 1..Len(piece)
      PROVE  \/ piece[k] = update[n]
             \/ \E i \in 1..Len(old) : i > a /\ i <= b /\ piece[k] = old[i]
  <2>1. \/ k \in 1..Len(s) /\ piece[k] = s[k]
        \/ k - Len(s) \in 1..Len(t) /\ piece[k] = t[k - Len(s)]
    BY <1>1, <1>4, <1>5, ConcatItems
  <2> QED BY <1>4, <1>5, <2>1
<1>9. ASSUME NEW i \in 1..Len(old), i > a, i <= b PROVE Has(piece, old[i])
  <2>1. Has(s, old[i])
    BY <1>5, <1>9 DEF Has
  <2> QED BY <1>1, <1>4, <1>5, <2>1, HasConcat
<1>10. ASSUME update[n].quantity # 0 PROVE Has(piece, update[n])
  <2>1. Has(t, update[n])
    BY <1>4, <1>10 DEF Has
  <2> QED BY <1>1, <1>4, <1>5, <2>1, HasConcat
<1> QED BY <1>6, <1>7, <1>8, <1>9, <1>10 DEF a, b

\* What the first n turns have made of the old levels they passed: the levels
\* of the update, none that matters missing, and the old ones it leaves alone.
Made(side, old, update, n, new) ==
  /\ new \in Seq(Level) /\ Ordered(side, new)
  /\ \A k \in 1..Len(new) :
       \/ \E j \in 1..n : new[k] = update[j]
       \/ \E i \in 1..Len(old) : /\ i <= Passed(side, old, update, n)
                                 /\ new[k] = old[i] /\ NotUpdated(update, old[i].price)
  /\ \A j \in 1..n : update[j].quantity # 0 => Has(new, update[j])
  /\ \A i \in 1..Len(old) :
       i <= Passed(side, old, update, n) /\ NotUpdated(update, old[i].price) => Has(new, old[i])

\* All that is made lies before what is still to come.
LEMMA MadeBefore ==
  ASSUME NEW side, NEW old, NEW update, MergeInput(side, old, update), NEW n \in 0..Len(update),
         NEW new, Made(side, old, update, n, new), NEW k \in 1..Len(new)
  PROVE  /\ new[k].price \in Nat
         /\ \A i \in 1..Len(old) : i > Passed(side, old, update, n) => Precedes(side, new[k].price, old[i].price)
         /\ n < Len(update) => Precedes(side, new[k].price, update[n + 1].price)
<1>1. PICK l \in Nat : l = Len(update) /\ n \in 0..l
  BY DEF MergeInput
<1>2. /\ \A i \in 1..Len(old) : old[i].price \in Nat
      /\ \A j \in 1..l : update[j].price \in Nat
      /\ \A i, j \in 1..Len(old) : i < j => Precedes(side, old[i].price, old[j].price)
      /\ \A i, j \in 1..l : i < j => Precedes(side, update[i].price, update[j].price)
  BY <1>1, MergePrices
<1>3. PICK u \in Nat : u = Passed(side, old, update, n)
  BY PassedIs DEF MergeInput
<1>4. n # 0 => \A i \in 1..Len(old) : i <= u <=> ~Precedes(side, update[n].price, old[i].price)
  BY <1>3, PassedIs
<1>5. n = 0 => u = 0
  BY <1>3, PassedIs
<1>6. CASE \E j \in 1..n : new[k] = update[j]
  <2>1. PICK j \in 1..n : new[k] = update[j]
    BY <1>6
  <2>2. n # 0 /\ n \in 1..l /\ j \in 1..l
    BY <1>1
  <2>3. PICK p \in Nat : p = update[j].price /\ p = new[k].price
    BY <1>2, <2>1, <2>2
  <2>4. ASSUME NEW i \in 1..Len(old), i > u PROVE Precedes(side, p, old[i].price)
    <3>1. Len(old) \in Nat
      BY DEF MergeInput
    <3>2. ~(i <= u)
      BY <1>3, <2>4, <3>1
    <3>3. Precedes(side, update[n].price, old[i].price)
      BY <1>4, <2>2, <3>2
    <3>4. CASE j = n
      BY <2>3, <3>3, <3>4
    <3>5. CASE j # n
      <4>1. j < n
        BY <3>5
      <4>2. Precedes(side, p, update[n].price)
        BY <1>2, <2>2, <2>3, <4>1
      <4> QED BY <1>2, <2>2, <3>3, <4>2, Transitive
    <3> QED BY <3>4, <3>5
  <2>5. ASSUME n < l PROVE Precedes(side, p, update[n + 1].price)
    <3>1. n + 1 \in 1..l /\ j < n + 1
      BY <1>1, <2>5
    <3> QED BY <1>2, <2>2, <2>3, <3>1
  <2> QED BY <1>1, <1>3, <2>3, <2>4, <2>5
<1>7. CASE \E i \in 1..Len(old) : /\ i <= Passed(side, old, update, n)
                                 /\ new[k] = old[i] /\ NotUpdated(update, old[i].price)
  <2>1. PICK i \in 1..Len(old) : i <= u /\ new[k] = old[i] /\ NotUpdated(update, old[i].price)
    BY <1>3, <1>7
  <2>2. Len(old) \in Nat
    BY DEF MergeInput
  <2>3. n # 0 /\ n \in 1..l
    BY <1>1, <1>5, <2>1, <2>2
  <2>4. PICK p \in Nat : p = old[i].price /\ p = new[k].price
    BY <1>2, <2>1
  <2>5. ASSUME NEW j \in 1..Len(old), j > u PROVE Precedes(side, p, old[j].price)
    <3>1. i < j
      BY <1>3, <2>1, <2>2, <2>5
    <3> QED BY <1>2, <2>4, <3>1
  <2>6. ASSUME n < l PROVE Precedes(side, p, update[n + 1].price)
    <3>1. n + 1 \in 1..l /\ n < n + 1
      BY <1>1, <2>6
    <3>2. Precedes(side, update[n].price, update[n + 1].price)
      BY <1>2, <2>3, <3>1
    <3>3. ~Precedes(side, update[n].price, p)
      BY <1>4, <2>1, <2>3, <2>4
    <3>4. update[n].price # p
      BY <1>1, <2>1, <2>3, <2>4 DEF NotUpdated
    <3>5. Precedes(side, p, update[n].price)
      BY <1>2, <2>3, <3>3, <3>4, PricesOrdered
    <3> QED BY <1>2, <2>3, <3>1, <3>2, <3>5, Transitive
  <2> QED BY <1>1, <1>3, <2>4, <2>5, <2>6
<1> QED BY <1>6, <1>7 DEF Made

LEMMA TurnMakes ==
  ASSUME NEW side, NEW old, NEW update, MergeInput(side, old, update), NEW n \in 1..Len(update),
         NEW new, Made(side, old, update, n - 1, new)
  PROVE  Made(side, old, update, n, new \o MergeItem(side, old, update, n))
<1> DEFINE a == Passed(side, old, update, n - 1)
           u == Passed(side, old, update, n)
           b == Before(side, old, update[n].price)
<1>1. PICK piece : piece = MergeItem(side, old, update, n)
  OBVIOUS
<1>2. PICK l \in Nat : l = Len(update) /\ n \in 1..l
  BY DEF MergeInput
<1>3. n - 1 \in 0..Len(update) /\ n - 1 < l /\ (n - 1) + 1 = n
  BY <1>2
<1>4. /\ piece \in Seq(Level) /\ Ordered(side, piece)
      /\ \A k \in 1..Len(piece) :
           \/ piece[k] = update[n]
           \/ \E i \in 1..Len(old) : i > a /\ i <= b /\ piece[k] = old[i]
      /\ \A i \in 1..Len(old) : i > a /\ i <= b => Has(piece, old[i])
      /\ update[n].quantity # 0 => Has(piece, update[n])
  BY <1>1, TurnIs
<1>5. \A i \in 1..Len(old) :
        /\ i > a /\ i <= b => NotUpdated(update, old[i].price) /\ i <= u
        /\ i <= u /\ NotUpdated(update, old[i].price) => i <= b
        /\ i <= a => i <= u
  BY Between
<1>6. a \in 0..Len(old) /\ Len(old) \in Nat
  <2>1. PICK k \in 0..Len(update) : k = n - 1
    BY <1>3
  <2>2. Passed(side, old, update, k) \in 0..Len(old)
    BY PassedIs
  <2> QED BY <2>1, <2>2 DEF MergeInput
<1>7. /\ new \in Seq(Level) /\ Ordered(side, new)
      /\ \A k \in 1..Len(new) :
           \/ \E j \in 1..(n - 1) : new[k] = update[j]
           \/ \E i \in 1..Len(old) : i <= a /\ new[k] = old[i] /\ NotUpdated(update, old[i].price)
      /\ \A j \in 1..(n - 1) : update[j].quantity # 0 => Has(new, update[j])
      /\ \A i \in 1..Len(old) : i <= a /\ NotUpdated(update, old[i].price) => Has(new, old[i])
  BY DEF Made
<1>8. \A k \in 1..Len(new) :
        /\ \A i \in 1..Len(old) : i > a => Precedes(side, new[k].price, old[i].price)
        /\ Precedes(side, new[k].price, update[n].price)
  BY <1>2, <1>3, MadeBefore
<1> HIDE DEF a, u, b
<1>9. new \o piece \in Seq(Level)
  BY <1>4, <1>7, ConcatItems
<1>10. Ordered(side, new \o piece)
  <2>1. \A j \in 1..Len(new) : \A k \in 1..Len(piece) : Precedes(side, new[j].price, piece[k].price)
    BY <1>4, <1>8
  <2> QED BY <1>4, <1>7, <2>1, ConcatOrdered
<1>11. ASSUME NEW k \in 1..Len(new \o piece)
       PROVE  \/ \E j \in 1..n : (new \o piece)[k] = update[j]
              \/ \E i \in 1..Len(old) : /\ i <= u /\ (new \o piece)[k] = old[i]
                                        /\ NotUpdated(update, old[i].price)
  <2>1. \/ k \in 1..Len(new) /\ (new \o piece)[k] = new[k]
        \/ k - Len(new) \in 1..Len(piece) /\ (new \o piece)[k] = piece[k - Len(new)]
    BY <1>4, <1>7, ConcatItems
  <2>2. CASE k \in 1..Len(new) /\ (new \o piece)[k] = new[k]
    <3>1. \A j \in 1..(n - 1) : j \in 1..n
      BY <1>2
    <3> QED BY <1>5, <1>7, <2>2, <3>1
  <2>3. CASE k - Len(new) \in 1..Len(piece) /\ (new \o piece)[k] = piece[k - Len(new)]
    <3>1. n \in 1..n
      BY <1>2
    <3> QED BY <1>4, <1>5, <2>3, <3>1
  <2> QED BY <2>1, <2>2, <2>3
<1>12. ASSUME NEW j \in 1..n, update[j].quantity # 0 PROVE Has(new \o piece, update[j])
  <2>1. CASE j = n
    BY <1>4, <1>7, <1>12, <2>1, HasConcat
  <2>2. CASE j # n
    <3>1. j \in 1..(n - 1)
      BY <1>2, <2>2
    <3> QED BY <1>4, <1>7, <1>12, <3>1, HasConcat
  <2> QED BY <2>1, <2>2
<1>13. ASSUME NEW i \in 1..Len(old), i <= u, NotUpdated(update, old[i].price)
       PROVE  Has(new \o piece, old[i])
  <2>1. CASE i <= a
    <3>1. Has(new, old[i])
      BY <1>7, <1>13, <2>1
    <3> QED BY <1>4, <1>7, <3>1, HasConcat
  <2>2. CASE ~(i <= a)
    <3>1. i > a /\ i <= b
      BY <1>5, <1>6, <1>13, <2>2
    <3>2. Has(piece, old[i])
      BY <1>4, <3>1
    <3> QED BY <1>4, <1>7, <3>2, HasConcat
  <2> QED BY <2>1, <2>2
<1>14. Made(side, old, update, n, new \o piece)
  BY <1>9, <1>10, <1>11, <1>12, <1>13 DEF Made, u
<1> QED BY <1>1, <1>14

\* The merge: in order, with every level of the update that is not empty, every
\* old level at another price, and nothing else.
Merged(side, old, update, new) ==
  /\ new \in Seq(Level) /\ Ordered(side, new)
  /\ \A k \in 1..Len(new) :
       \/ \E j \in 1..Len(update) : new[k] = update[j]
       \/ \E i \in 1..Len(old) : new[k] = old[i] /\ NotUpdated(update, old[i].price)
  /\ \A j \in 1..Len(update) : update[j].quantity # 0 => Has(new, update[j])
  /\ \A i \in 1..Len(old) : NotUpdated(update, old[i].price) => Has(new, old[i])

\* The old levels after the update's last.
LEMMA RestMakes ==
  ASSUME NEW side, NEW old, NEW update, MergeInput(side, old, update),
         NEW new, Made(side, old, update, Len(update), new)
  PROVE  Merged(side, old, update,
                new \o SubSeq(old, Passed(side, old, update, Len(update)) + 1, Len(old)))
<1> DEFINE u == Passed(side, old, update, Len(update))
           rest == SubSeq(old, u + 1, Len(old))
<1>1. /\ old \in Seq(Level) /\ update \in Seq(Level) /\ Ordered(side, old)
      /\ Len(old) \in Nat /\ Len(update) \in Nat
  BY DEF MergeInput
<1>2. Len(update) \in 0..Len(update) /\ u \in 0..Len(old) /\ Len(old) \in 0..Len(old)
  <2>1. Len(update) \in 0..Len(update) /\ Len(old) \in 0..Len(old)
    BY <1>1
  <2> QED BY <2>1, PassedIs
<1>3. \A i \in 1..Len(old) : i > u => NotUpdated(update, old[i].price)
  <2>1. CASE Len(update) = 0
    BY <2>1 DEF NotUpdated
  <2>2. CASE Len(update) # 0
    <3>1. Len(update) \in 1..Len(update)
      BY <1>1, <2>2
    <3> QED BY <3>1, Between
  <2> QED BY <2>1, <2>2
<1>4. /\ new \in Seq(Level) /\ Ordered(side, new)
      /\ \A k \in 1..Len(new) :
           \/ \E j \in 1..Len(update) : new[k] = update[j]
           \/ \E i \in 1..Len(old) : i <= u /\ new[k] = old[i] /\ NotUpdated(update, old[i].price)
      /\ \A j \in 1..Len(update) : update[j].quantity # 0 => Has(new, update[j])
      /\ \A i \in 1..Len(old) : i <= u /\ NotUpdated(update, old[i].price) => Has(new, old[i])
  BY DEF Made
<1>5. \A k \in 1..Len(new) : \A i \in 1..Len(old) : i > u => Precedes(side, new[k].price, old[i].price)
  BY <1>2, MadeBefore
<1> HIDE DEF u
<1>6. /\ rest \in Seq(Level) /\ Ordered(side, rest)
      /\ \A k \in 1..Len(rest) : u + k \in 1..Len(old) /\ u + k > u /\ rest[k] = old[u + k]
      /\ \A i \in 1..Len(old) : i > u => i - u \in 1..Len(rest) /\ rest[i - u] = old[i]
  <2>1. \A i \in 1..Len(old) : i <= Len(old)
    BY <1>1
  <2> QED BY <1>1, <1>2, <2>1, Piece, PieceOrdered
<1> HIDE DEF rest
<1>7. new \o rest \in Seq(Level)
  BY <1>4, <1>6, ConcatItems
<1>8. Ordered(side, new \o rest)
  <2>1. \A j \in 1..Len(new) : \A k \in 1..Len(rest) : Precedes(side, new[j].price, rest[k].price)
    BY <1>5, <1>6
  <2> QED BY <1>4, <1>6, <2>1, ConcatOrdered
<1>9. ASSUME NEW k \in 1..Len(new \o rest)
      PROVE  \/ \E j \in 1..Len(update) : (new \o rest)[k] = update[j]
             \/ \E i \in 1..Len(old) : (new \o rest)[k] = old[i] /\ NotUpdated(update, old[i].price)
  <2>1. \/ k \in 1..Len(new) /\ (new \o rest)[k] = new[k]
        \/ k - Len(new) \in 1..Len(rest) /\ (new \o rest)[k] = rest[k - Len(new)]
    BY <1>4, <1>6, ConcatItems
  <2>2. CASE k \in 1..Len(new) /\ (new \o rest)[k] = new[k]
    BY <1>4, <2>2
  <2>3. CASE k - Len(new) \in 1..Len(rest) /\ (new \o rest)[k] = rest[k - Len(new)]
    <3>1. PICK j \in 1..Len(rest) : (new \o rest)[k] = rest[j]
      BY <2>3
    <3>2. u + j \in 1..Len(old) /\ u + j > u /\ rest[j] = old[u + j]
      BY <1>6
    <3> QED BY <1>3, <3>1, <3>2
  <2> QED BY <2>1, <2>2, <2>3
<1>10. \A j \in 1..Len(update) : update[j].quantity # 0 => Has(new \o rest, update[j])
  BY <1>4, <1>6, HasConcat
<1>11. ASSUME NEW i \in 1..Len(old), NotUpdated(update, old[i].price) PROVE Has(new \o rest, old[i])
  <2>1. CASE i <= u
    <3>1. Has(new, old[i])
      BY <1>4, <1>11, <2>1
    <3> QED BY <1>4, <1>6, <3>1, HasConcat
  <2>2. CASE ~(i <= u)
    <3>1. i > u
      BY <1>1, <1>2, <2>2
    <3>2. Has(rest, old[i])
      BY <1>6, <3>1 DEF Has
    <3> QED BY <1>4, <1>6, <3>2, HasConcat
  <2> QED BY <2>1, <2>2
<1> QED BY <1>7, <1>8, <1>9, <1>10, <1>11 DEF Merged, u, rest

THEOREM MergeCorrect ==
  ASSUME NEW side, NEW old, NEW update, MergeInput(side, old, update)
  PROVE  Merged(side, old, update, UpdateOrderBookItems(side, old, update))
<1> DEFINE pieces == [n \in DOMAIN update |-> MergeItem(side, old, update, n)]
<1>1. PICK l \in Nat : l = Len(update) /\ DOMAIN update = 1..l
  BY DEF MergeInput
<1>2. \A n \in 1..l : MergeItem(side, old, update, n) \in Seq(Level)
  BY <1>1, TurnIs
<1>3. pieces \in Seq(Seq(Level)) /\ Len(pieces) = l /\ \A n \in 1..l : pieces[n] = MergeItem(side, old, update, n)
  <2>1. pieces \in [1..l -> Seq(Level)]
    BY <1>1, <1>2
  <2>2. pieces \in Seq(Seq(Level)) /\ Len(pieces) = l
    BY <1>1, <2>1
  <2> QED BY <1>1, <2>2
<1>4. UpdateOrderBookItems(side, old, update) =
        FlattenSeq(pieces) \o SubSeq(old, Passed(side, old, update, Len(update)) + 1, Len(old))
  BY DEF UpdateOrderBookItems
<1> HIDE DEF pieces
<1>5. PICK F \in [0..l -> Seq(Level)] :
        F[0] = <<>> /\ \A i \in 1..l : F[i] = F[i - 1] \o pieces[i]
  <2>1. \E F \in [0..Len(pieces) -> Seq(Level)] :
          F[0] = <<>> /\ \A i \in 1..Len(pieces) : F[i] = F[i - 1] \o pieces[i]
    BY <1>3, PrefixesExist
  <2> QED BY <1>3, <2>1
<1>6. FlattenSeq(pieces) = F[l]
  BY <1>3, <1>5, FlattenIs
<1> DEFINE T == {n \in 0..l : ~Made(side, old, update, n, F[n])}
<1>7. ASSUME T # {} PROVE FALSE
  <2>1. T \subseteq Nat
    OBVIOUS
  <2>2. \E n \in T : \A k \in T : ~(k < n)
    <3> HIDE DEF T
    <3> QED BY <1>7, <2>1, Least
  <2>3. PICK n \in T : \A k \in T : ~(k < n)
    BY <2>2
  <2>4. n \in 0..l /\ ~Made(side, old, update, n, F[n]) /\ \A k \in T : ~(k < n)
    BY <2>3
  <2>5. CASE n = 0
    <3>1. F[n] = <<>>
      BY <1>5, <2>5
    <3>2. Passed(side, old, update, n) = 0
      BY <2>5 DEF Passed
    <3>3. \A i \in 1..Len(old) : ~(i <= Passed(side, old, update, n))
      BY <3>2 DEF MergeInput
    <3>4. 1..n = {} /\ <<>> \in Seq(Level) /\ Ordered(side, <<>>) /\ 1..Len(<<>>) = {}
      BY <2>5 DEF Ordered
    <3> QED BY <2>3, <3>1, <3>3, <3>4 DEF Made
  <2>6. CASE n # 0
    <3>1. n \in 1..l /\ n - 1 \in 0..l /\ n - 1 < n
      BY <2>3, <2>6
    <3>2. Made(side, old, update, n - 1, F[n - 1])
      BY <2>4, <3>1
    <3>3. Made(side, old, update, n, F[n - 1] \o MergeItem(side, old, update, n))
      BY <1>1, <3>1, <3>2, TurnMakes
    <3>4. F[n] = F[n - 1] \o MergeItem(side, old, update, n)
      BY <1>3, <1>5, <3>1
    <3> QED BY <2>3, <3>3, <3>4
  <2> QED BY <2>5, <2>6
<1>8. Made(side, old, update, Len(update), F[l])
  <2>1. l \in 0..l
    BY <1>1
  <2> QED BY <1>1, <1>7, <2>1
<1> QED BY <1>4, <1>6, <1>8, RestMakes

-----------------------------------------------------------------------------
(* What the updates have told, and what the book has of it.                *)

\* An update tells of the prices it lists, and of no other.
LEMMA TellIs ==
  ASSUME NEW side, NEW update \in Seq(Level), Ordered(side, update),
         NEW levels \in [Prices -> Quantities]
  PROVE  /\ Tell(levels, update) \in [Prices -> Quantities]
         /\ \A j \in 1..Len(update) : Tell(levels, update)[update[j].price] = update[j].quantity
         /\ \A price \in Prices : NotUpdated(update, price) => Tell(levels, update)[price] = levels[price]
<1>1. PICK n \in Nat : n = Len(update) /\ DOMAIN update = 1..n
  OBVIOUS
<1>2. \A j \in 1..n : /\ update[j] \in Level /\ update[j].price \in Prices /\ update[j].price \in Nat
                      /\ update[j].quantity \in Quantities
  BY <1>1, LevelFields
<1>3. \A i, j \in 1..n : update[i].price = update[j].price => i = j
  <2> SUFFICES ASSUME NEW i \in 1..n, NEW j \in 1..n, i < j, update[i].price = update[j].price
               PROVE  FALSE
    OBVIOUS
  <2>1. i \in 1..(j - 1)
    OBVIOUS
  <2>2. Precedes(side, update[i].price, update[j].price)
    BY <1>1, <2>1 DEF Ordered
  <2> QED BY <1>2, <2>2, PricesOrdered
<1>4. ASSUME NEW price \in Prices
      PROVE  Tell(levels, update)[price] =
               IF \E k \in 1..n : update[k].price = price
               THEN (CHOOSE item \in ToSet(update) : item.price = price).quantity
               ELSE levels[price]
  BY <1>1 DEF Tell
<1>5. ASSUME NEW j \in 1..n
      PROVE  Tell(levels, update)[update[j].price] = update[j].quantity
  <2>1. PICK price \in Prices : price = update[j].price
    BY <1>2
  <2>2. ToSet(update) = {update[k] : k \in 1..n}
    BY <1>1 DEF ToSet
  <2>3. update[j] \in ToSet(update) /\ update[j].price = price
    BY <2>1, <2>2
  <2>4. \A item \in ToSet(update) : item.price = price => item = update[j]
    BY <1>3, <2>1, <2>2
  <2>5. (CHOOSE item \in ToSet(update) : item.price = price) = update[j]
    BY <2>3, <2>4
  <2> QED BY <1>4, <2>1, <2>5
<1>6. ASSUME NEW price \in Prices, NotUpdated(update, price)
      PROVE  Tell(levels, update)[price] = levels[price]
  BY <1>1, <1>4, <1>6 DEF NotUpdated
<1>7. Tell(levels, update) \in [Prices -> Quantities]
  <2>1. ASSUME NEW price \in Prices PROVE Tell(levels, update)[price] \in Quantities
    <3>1. CASE \E j \in 1..n : update[j].price = price
      BY <1>2, <1>5, <3>1
    <3>2. CASE ~ \E j \in 1..n : update[j].price = price
      BY <1>4, <3>2
    <3> QED BY <3>1, <3>2
  <2>2. Tell(levels, update) = [price \in Prices |-> Tell(levels, update)[price]]
    BY DEF Tell
  <2> QED BY <2>1, <2>2
<1> QED BY <1>1, <1>5, <1>6, <1>7

\* A side of the book has what was told of it, and, if it is whole, all of it.
Told(items, levels) == \A k \in 1..Len(items) : items[k].quantity = levels[items[k].price]
Whole(items, levels) ==
  \A price \in Prices : levels[price] # 0 => \E k \in 1..Len(items) : items[k].price = price

LEMMA UpdateIsTold ==
  ASSUME NEW side, NEW old, NEW update, MergeInput(side, old, update),
         NEW levels \in [Prices -> Quantities], Told(old, levels),
         NEW new, new = UpdateOrderBookItems(side, old, update)
  PROVE  /\ new \in Seq(Level) /\ Ordered(side, new)
         /\ Told(new, Tell(levels, update))
         /\ Whole(old, levels) => Whole(new, Tell(levels, update))
<1>1. Merged(side, old, update, new)
  BY MergeCorrect
<1>2. /\ old \in Seq(Level) /\ update \in Seq(Level) /\ Ordered(side, update)
  BY DEF MergeInput
<1>3. PICK next : next = Tell(levels, update)
  OBVIOUS
<1>4. /\ \A j \in 1..Len(update) : next[update[j].price] = update[j].quantity
      /\ \A price \in Prices : NotUpdated(update, price) => next[price] = levels[price]
  BY <1>2, <1>3, TellIs
<1>5. ASSUME NEW k \in 1..Len(new) PROVE new[k].quantity = next[new[k].price]
  <2>1. CASE \E j \in 1..Len(update) : new[k] = update[j]
    BY <1>4, <2>1
  <2>2. CASE \E i \in 1..Len(old) : new[k] = old[i] /\ NotUpdated(update, old[i].price)
    <3>1. PICK i \in 1..Len(old) : new[k] = old[i] /\ NotUpdated(update, old[i].price)
      BY <2>2
    <3>2. old[i].price \in Prices
      BY <1>2, LevelFields
    <3>3. old[i].quantity = levels[old[i].price]
      BY DEF Told
    <3> QED BY <1>4, <3>1, <3>2, <3>3
  <2> QED BY <1>1, <2>1, <2>2 DEF Merged
<1>6. ASSUME Whole(old, levels), NEW price \in Prices, next[price] # 0
      PROVE  \E k \in 1..Len(new) : new[k].price = price
  <2>1. CASE NotUpdated(update, price)
    <3>1. levels[price] # 0
      BY <1>4, <1>6, <2>1
    <3>2. PICK i \in 1..Len(old) : old[i].price = price
      BY <1>6, <3>1 DEF Whole
    <3>3. Has(new, old[i])
      BY <1>1, <2>1, <3>2 DEF Merged
    <3> QED BY <3>2, <3>3 DEF Has
  <2>2. CASE ~NotUpdated(update, price)
    <3>1. PICK j \in 1..Len(update) : update[j].price = price
      BY <2>2 DEF NotUpdated
    <3>2. update[j].quantity # 0
      BY <1>4, <1>6, <3>1
    <3>3. Has(new, update[j])
      BY <1>1, <3>2 DEF Merged
    <3> QED BY <3>1, <3>3 DEF Has
  <2> QED BY <2>1, <2>2
<1>7. new \in Seq(Level) /\ Ordered(side, new)
  BY <1>1 DEF Merged
<1> QED BY <1>3, <1>5, <1>6, <1>7 DEF Told, Whole

\* What is cut off is the end of a side.
LEMMA ResizeIs ==
  ASSUME NEW side, NEW items \in Seq(Level), Ordered(side, items), NEW levels, Told(items, levels)
  PROVE  /\ Resize(items) \in Seq(Level) /\ Ordered(side, Resize(items))
         /\ Len(Resize(items)) <= MaxLevels /\ Told(Resize(items), levels)
         /\ Len(items) <= MaxLevels => Resize(items) = items
<1>1. PICK n \in Nat : n = Len(items)
  OBVIOUS
<1>2. MaxLevels \in Nat
  BY ProviderConstants DEF ProviderConstants
<1>3. CASE n <= MaxLevels
  BY <1>1, <1>3 DEF Resize
<1>4. CASE ~(n <= MaxLevels)
  <2> DEFINE t == SubSeq(items, 0 + 1, MaxLevels)
  <2>1. 0 \in 0..Len(items) /\ MaxLevels \in 0..Len(items)
    BY <1>1, <1>2, <1>4
  <2>2. /\ t \in Seq(Level)
        /\ \A k \in 1..Len(t) : 0 + k \in 1..Len(items) /\ t[k] = items[0 + k]
    BY <2>1, Piece
  <2>3. Ordered(side, t)
    BY <2>1, PieceOrdered
  <2>4. Len(t) = MaxLevels
    <3>1. \A i \in 1..MaxLevels : items[i] \in Level
      BY <1>1, <1>2, <1>4
    <3>2. Len(SubSeq(items, 1, MaxLevels)) = IF 1 <= MaxLevels THEN MaxLevels - 1 + 1 ELSE 0
      BY <1>2, <3>1, SubSeqProperties
    <3>3. 0 + 1 = 1
      OBVIOUS
    <3> QED BY <1>2, <3>2, <3>3
  <2>5. Resize(items) = t
    <3>1. 0 + 1 = 1
      OBVIOUS
    <3> QED BY <1>1, <1>4, <3>1 DEF Resize
  <2> HIDE DEF t
  <2>6. Told(t, levels)
    <3>1. ASSUME NEW k \in 1..Len(t) PROVE t[k].quantity = levels[t[k].price]
      <4>1. PICK j \in 1..Len(items) : t[k] = items[j]
        BY <2>2
      <4> QED BY <4>1 DEF Told
    <3> QED BY <3>1 DEF Told
  <2> QED BY <1>1, <1>2, <1>4, <2>2, <2>3, <2>4, <2>5, <2>6
<1> QED BY <1>3, <1>4

-----------------------------------------------------------------------------
(* The stream.                                                             *)

LEMMA StreamFields ==
  ASSUME StreamInv, NEW k \in 1..Len(stream)
  PROVE  /\ stream[k] \in MarketEvents
         /\ stream[k].received_timestamp \in 1..(MaxEvents + 1)
         /\ stream[k].received_timestamp \in Nat /\ stream[k].received_timestamp # 0
         /\ \/ stream[k].update = NoUpdate
            \/ \E update \in Updates : stream[k].update = <<update>>
<1>1. stream[k] \in MarketEvents
  BY ElementOfSeq DEF StreamInv
<1>2. stream[k].received_timestamp \in 1..(MaxEvents + 1)
  BY <1>1 DEF MarketEvents
<1>3. stream[k].update \in {NoUpdate} \cup {<<update>> : update \in Updates}
  BY <1>1 DEF MarketEvents
<1>4. stream[k].received_timestamp \in Nat /\ stream[k].received_timestamp # 0
  BY <1>2, ProviderConstants DEF ProviderConstants
<1> QED BY <1>1, <1>2, <1>3, <1>4

\* A step that leaves the stream alone.
LEMMA StreamSame ==
  ASSUME UNCHANGED stream
  PROVE  /\ StreamInv => StreamInv'
         /\ \A n : UpdatesBefore(n)' = UpdatesBefore(n)
         /\ \A e, h : HoldsAll(e, h)' = HoldsAll(e, h)
BY DEF StreamInv, UpdatesBefore, HoldsAll

LEMMA SnapshotSame ==
  ASSUME SnapshotInv, UNCHANGED <<stream, snapshots>>
  PROVE  SnapshotInv'
BY DEF SnapshotInv, HoldsAll, UpdatesBefore

LEMMA BookSame ==
  ASSUME BookInv, UNCHANGED <<order_book, told, truncated>>
  PROVE  BookInv'
BY DEF BookInv, BookIsTold, Items

\* An event more, stamped with the time of the last or the next.
LEMMA DispatchKeeps ==
  ASSUME IInv, NEW event \in {NoUpdate} \cup {<<update>> : update \in Updates}, Dispatch(event)
  PROVE  IInv'
<1>1. StreamInv /\ ThreadsInv /\ BookInv /\ SnapshotInv
  BY DEF IInv
<1>2. MaxEvents \in Nat
  BY ProviderConstants DEF ProviderConstants
<1>3. PICK m \in Nat : m = Len(stream)
  BY <1>1 DEF StreamInv
<1>4. PICK step \in {0, 1} :
        stream' = Append(stream, [update |-> event, received_timestamp |-> LastTimestamp + step])
  BY DEF Dispatch
<1>5. m < MaxEvents /\ UNCHANGED <<stream_ended, provider_vars, analyzer_vars>>
  BY <1>3 DEF Dispatch
<1>6. PICK last \in 1..(m + 1) :
        /\ last = LastTimestamp
        /\ \A k \in 1..m : stream[k].received_timestamp <= last
  <2>1. CASE m = 0
    <3>1. stream = <<>>
      BY <1>1, <1>3, <2>1, EmptySeq DEF StreamInv
    <3>2. LastTimestamp = 1
      BY <3>1 DEF LastTimestamp
    <3> QED BY <2>1, <3>2
  <2>2. CASE m # 0
    <3>1. m \in 1..m /\ stream # <<>>
      BY <1>1, <1>3, <2>2, EmptySeq DEF StreamInv
    <3>2. LastTimestamp = stream[m].received_timestamp
      BY <1>3, <3>1 DEF LastTimestamp, Last
    <3>3. LastTimestamp \in Nat /\ LastTimestamp # 0 /\ LastTimestamp <= m + 1
      BY <1>1, <1>3, <3>1, <3>2, StreamFields DEF StreamInv
    <3>4. \A k \in 1..m : stream[k].received_timestamp <= stream[m].received_timestamp
      BY <1>1, <1>3, <3>1 DEF StreamInv
    <3> QED BY <3>2, <3>3, <3>4
  <2> QED BY <2>1, <2>2
<1>7. PICK ts \in 1..(m + 2) :
        /\ ts = LastTimestamp + step
        /\ \A k \in 1..m : stream[k].received_timestamp <= ts
  <2>1. \A k \in 1..m : stream[k].received_timestamp \in Nat
    BY <1>1, <1>3, StreamFields
  <2>2. last + step \in 1..(m + 2) /\ last <= last + step
    OBVIOUS
  <2>3. \A k \in 1..m : stream[k].received_timestamp <= last + step
    BY <1>6, <2>1, <2>2
  <2> QED BY <1>6, <2>2, <2>3
<1>8. PICK e : e = [update |-> event, received_timestamp |-> ts]
  OBVIOUS
<1>9. e \in MarketEvents /\ e.received_timestamp = ts /\ e.update = event
  <2>1. ts \in 1..(MaxEvents + 1)
    BY <1>2, <1>5
  <2> QED BY <1>8, <2>1 DEF MarketEvents
<1>10. /\ stream' \in Seq(MarketEvents) /\ Len(stream') = m + 1
       /\ \A k \in 1..m : stream'[k] = stream[k]
       /\ stream'[m + 1] = e
  BY <1>1, <1>3, <1>4, <1>7, <1>8, <1>9, AppendProperties DEF StreamInv
<1>11. StreamInv'
  <2>1. Len(stream') <= MaxEvents
    BY <1>2, <1>5, <1>10
  <2>2. ASSUME NEW k \in 1..(m + 1) PROVE stream'[k].received_timestamp <= k + 1
    <3>1. CASE k = m + 1
      BY <1>9, <1>10, <3>1
    <3>2. CASE k # m + 1
      BY <1>1, <1>3, <1>10, <3>2 DEF StreamInv
    <3> QED BY <3>1, <3>2
  <2>3. ASSUME NEW k \in 1..(m + 1), NEW j \in 1..k
        PROVE  stream'[j].received_timestamp <= stream'[k].received_timestamp
    <3>1. CASE k = m + 1 /\ j = m + 1
      BY <1>9, <1>10, <3>1
    <3>2. CASE k = m + 1 /\ j # m + 1
      <4>1. j \in 1..m
        BY <3>2
      <4> QED BY <1>7, <1>9, <1>10, <3>2, <4>1
    <3>3. CASE k # m + 1
      <4>1. k \in 1..m /\ j \in 1..m
        BY <3>3
      <4> QED BY <1>1, <1>3, <1>10, <4>1 DEF StreamInv
    <3> QED BY <3>1, <3>2, <3>3
  <2> QED BY <1>10, <2>1, <2>2, <2>3 DEF StreamInv
<1>12. ASSUME NEW n \in 0..m PROVE UpdatesBefore(n)' = UpdatesBefore(n)
  BY <1>10 DEF UpdatesBefore
<1>13. ThreadsInv'
  <2>1. /\ handled' = handled /\ unit_busy' = unit_busy /\ new_snapshots' = new_snapshots
        /\ order_book' = order_book /\ read' = read /\ asking' = asking
    BY <1>5 DEF provider_vars, analyzer_vars
  <2>2. /\ handled \in 0..m /\ read \in 0..m
    BY <1>1, <1>3 DEF ThreadsInv
  <2>3. handled' \in 0..Len(stream') /\ read' \in 0..Len(stream')
    BY <1>10, <2>1, <2>2
  <2>4. (new_snapshots = Cardinality(UpdatesBefore(handled)))'
    <3>1. UpdatesBefore(handled)' = UpdatesBefore(handled)
      BY <1>10, <2>1, <2>2 DEF UpdatesBefore
    <3> QED BY <1>1, <2>1, <3>1 DEF ThreadsInv
  <2>5. unit_busy' => (HasNext /\ NextEvent.update # NoUpdate)'
    <3>1. ASSUME unit_busy PROVE handled < m /\ stream[handled + 1].update # NoUpdate
      BY <1>1, <1>3, <3>1 DEF ThreadsInv, HasNext, NextEvent
    <3>2. ASSUME unit_busy PROVE handled' < Len(stream') /\ stream'[handled' + 1].update # NoUpdate
      <4>1. handled + 1 \in 1..m
        BY <2>2, <3>1, <3>2
      <4>2. stream'[handled + 1] = stream[handled + 1]
        BY <1>10, <4>1
      <4> QED BY <1>10, <2>1, <2>2, <3>1, <3>2, <4>2
    <3> QED BY <2>1, <3>2 DEF HasNext, NextEvent
  <2>6. \/ order_book'.received_timestamp = 0
        \/ \E k \in 1..handled' : order_book'.received_timestamp = stream'[k].received_timestamp
    <3>1. CASE order_book.received_timestamp = 0
      BY <2>1, <3>1
    <3>2. CASE \E k \in 1..handled : order_book.received_timestamp = stream[k].received_timestamp
      <4>1. PICK k \in 1..handled : order_book.received_timestamp = stream[k].received_timestamp
        BY <3>2
      <4>2. k \in 1..m
        BY <2>2
      <4> QED BY <1>10, <2>1, <4>1, <4>2
    <3> QED BY <1>1, <3>1, <3>2 DEF ThreadsInv
  <2>7. stream_ended' \in BOOLEAN /\ asking' \in BOOLEAN /\ unit_busy' \in BOOLEAN /\ (asking' => read' # 0)
    BY <1>1, <1>5, <2>1 DEF ThreadsInv
  <2> QED BY <2>3, <2>4, <2>5, <2>6, <2>7 DEF ThreadsInv
<1>14. BookInv'
  BY <1>1, <1>5, BookSame DEF provider_vars
<1>15. SnapshotInv'
  <2>1. snapshots' = snapshots
    BY <1>5 DEF analyzer_vars
  <2>2. ASSUME NEW k \in 1..Len(snapshots)
        PROVE  /\ snapshots[k].event \in 1..Len(stream')
               /\ HoldsAll(snapshots[k].event, snapshots[k].holds)'
    <3>1. PICK event1 \in 1..m : event1 = snapshots[k].event
      BY <1>1, <1>3 DEF SnapshotInv
    <3>2. PICK holds1 : holds1 = snapshots[k].holds
      OBVIOUS
    <3>3. HoldsAll(event1, holds1)
      BY <1>1, <3>1, <3>2 DEF SnapshotInv
    <3>4. ASSUME NEW n \in UpdatesBefore(event1)',
                 stream'[n].received_timestamp < stream'[event1].received_timestamp
          PROVE  n <= holds1
      <4>1. n \in UpdatesBefore(event1)
        BY <1>12, <3>4
      <4>2. n \in 1..m
        BY <4>1 DEF UpdatesBefore
      <4>3. stream'[n] = stream[n] /\ stream'[event1] = stream[event1]
        BY <1>10, <4>2
      <4> QED BY <3>3, <3>4, <4>1, <4>3 DEF HoldsAll
    <3>5. HoldsAll(event1, holds1)'
      BY <3>4 DEF HoldsAll
    <3>6. event1 \in 1..Len(stream')
      BY <1>10
    <3> QED BY <2>1, <3>1, <3>2, <3>5, <3>6 DEF HoldsAll
  <2> QED BY <1>1, <2>1, <2>2 DEF SnapshotInv
<1> QED BY <1>11, <1>13, <1>14, <1>15 DEF IInv

-----------------------------------------------------------------------------
(* The provider's thread.                                                  *)

\* An event more that is handled: what is counted of the updates.
LEMMA CountUpdates ==
  ASSUME NEW n \in Nat
  PROVE  /\ stream[n + 1].update = NoUpdate => UpdatesBefore(n + 1) = UpdatesBefore(n)
         /\ stream[n + 1].update # NoUpdate =>
              Cardinality(UpdatesBefore(n + 1)) = Cardinality(UpdatesBefore(n)) + 1
<1>1. \A k \in 1..(n + 1) : k \in 1..n \/ k = n + 1
  OBVIOUS
<1>2. \A k \in 1..n : k \in 1..(n + 1)
  OBVIOUS
<1>3. n + 1 \in 1..(n + 1) /\ n + 1 \notin 1..n
  OBVIOUS
<1>4. ASSUME stream[n + 1].update = NoUpdate PROVE UpdatesBefore(n + 1) = UpdatesBefore(n)
  BY <1>1, <1>2, <1>4 DEF UpdatesBefore
<1>5. ASSUME stream[n + 1].update # NoUpdate
      PROVE  Cardinality(UpdatesBefore(n + 1)) = Cardinality(UpdatesBefore(n)) + 1
  <2>1. UpdatesBefore(n + 1) = UpdatesBefore(n) \cup {n + 1}
    BY <1>1, <1>2, <1>3, <1>5 DEF UpdatesBefore
  <2>2. n + 1 \notin UpdatesBefore(n)
    BY <1>3 DEF UpdatesBefore
  <2>3. IsFiniteSet(UpdatesBefore(n))
    <3>1. UpdatesBefore(n) \subseteq 1..n
      BY DEF UpdatesBefore
    <3>2. IsFiniteSet(1..n)
      BY FS_Interval
    <3> QED BY <3>1, <3>2, FS_Subset
  <2> QED BY <2>1, <2>2, <2>3, FS_AddElement
<1> QED BY <1>4, <1>5

LEMMA SkipTradeKeeps ==
  ASSUME IInv, SkipTrade
  PROVE  IInv'
<1>1. StreamInv /\ ThreadsInv /\ BookInv /\ SnapshotInv
  BY DEF IInv
<1>2. /\ handled < Len(stream) /\ stream[handled + 1].update = NoUpdate /\ handled' = handled + 1
      /\ UNCHANGED <<stream, stream_ended, order_book, unit_busy, told, truncated, new_snapshots,
                     read, asking, snapshots>>
  BY DEF SkipTrade, HasNext, NextEvent, stream_vars, analyzer_vars
<1>3. /\ Len(stream) \in Nat /\ handled \in 0..Len(stream) /\ read \in 0..Len(stream)
      /\ stream_ended \in BOOLEAN /\ asking \in BOOLEAN /\ unit_busy \in BOOLEAN
      /\ asking => read # 0
      /\ new_snapshots = Cardinality(UpdatesBefore(handled))
  BY <1>1 DEF ThreadsInv, StreamInv
<1>4. ~unit_busy
  BY <1>1, <1>2 DEF ThreadsInv, NextEvent
<1>5. handled \in Nat /\ handled + 1 \in 0..Len(stream)
  BY <1>2, <1>3
<1>6. ThreadsInv'
  <2>1. (new_snapshots = Cardinality(UpdatesBefore(handled)))'
    <3>1. UpdatesBefore(handled + 1) = UpdatesBefore(handled)
      BY <1>2, <1>5, CountUpdates
    <3>2. UpdatesBefore(handled)' = UpdatesBefore(handled + 1)
      BY <1>2 DEF UpdatesBefore
    <3> QED BY <1>2, <1>3, <3>1, <3>2
  <2>2. \/ order_book'.received_timestamp = 0
        \/ \E k \in 1..handled' : order_book'.received_timestamp = stream'[k].received_timestamp
    <3>1. \A k \in 1..handled : k \in 1..(handled + 1)
      BY <1>5
    <3> QED BY <1>1, <1>2, <3>1 DEF ThreadsInv
  <2>3. unit_busy' => (HasNext /\ NextEvent.update # NoUpdate)'
    BY <1>2, <1>4
  <2>4. handled' \in 0..Len(stream') /\ read' \in 0..Len(stream')
    BY <1>2, <1>3, <1>5
  <2>5. stream_ended' \in BOOLEAN /\ asking' \in BOOLEAN /\ unit_busy' \in BOOLEAN /\ (asking' => read' # 0)
    BY <1>2, <1>3
  <2> QED BY <2>1, <2>2, <2>3, <2>4, <2>5 DEF ThreadsInv
<1>7. StreamInv'
  BY <1>1, <1>2, StreamSame
<1>8. BookInv'
  BY <1>1, <1>2, BookSame
<1>9. SnapshotInv'
  BY <1>1, <1>2, SnapshotSame
<1> QED BY <1>6, <1>7, <1>8, <1>9 DEF IInv

LEMMA SetBusyKeeps ==
  ASSUME IInv, SetBusy
  PROVE  IInv'
<1>1. StreamInv /\ ThreadsInv /\ BookInv /\ SnapshotInv
  BY DEF IInv
<1>2. /\ HasNext /\ NextEvent.update # NoUpdate /\ unit_busy' = TRUE
      /\ UNCHANGED <<stream, stream_ended, handled, order_book, told, truncated, new_snapshots,
                     read, asking, snapshots>>
  BY DEF SetBusy, stream_vars, analyzer_vars
<1>3. ThreadsInv'
  <2>1. (HasNext /\ NextEvent.update # NoUpdate)'
    BY <1>2 DEF HasNext, NextEvent
  <2>2. UpdatesBefore(handled)' = UpdatesBefore(handled)
    BY <1>2 DEF UpdatesBefore
  <2> QED BY <1>1, <1>2, <2>1, <2>2 DEF ThreadsInv
<1>4. StreamInv'
  BY <1>1, <1>2, StreamSame
<1>5. BookInv'
  BY <1>1, <1>2, BookSame
<1>6. SnapshotInv'
  BY <1>1, <1>2, SnapshotSame
<1> QED BY <1>3, <1>4, <1>5, <1>6 DEF IInv

\* One side of the book after an update.
LEMMA SideUpdated ==
  ASSUME BookInv, NEW side \in Sides, NEW update \in Updates,
         NEW items, items = UpdateOrderBookItems(side, Items(side), update[side]),
         NEW levels, levels = Tell(told[side], update[side])
  PROVE  /\ levels \in [Prices -> Quantities]
         /\ Resize(items) \in Seq(Level) /\ Ordered(side, Resize(items))
         /\ Len(Resize(items)) <= MaxLevels /\ Told(Resize(items), levels)
         /\ ~truncated /\ ~(Len(items) > MaxLevels) => Whole(Resize(items), levels)
<1>1. PICK old : old = Items(side)
  OBVIOUS
<1>2. PICK listed : listed = update[side]
  OBVIOUS
<1>3. listed \in Seq(Level) /\ Ordered(side, listed) /\ MaxLevels \in Nat
  BY <1>2, ProviderConstants DEF ProviderConstants
<1>4. old \in Seq(Level) /\ Ordered(side, old)
  BY <1>1 DEF BookInv, Books, Items
<1>5. PICK before \in [Prices -> Quantities] : before = told[side]
  BY DEF BookInv
<1>6. Told(old, before)
  <2>1. DOMAIN old = 1..Len(old)
    BY <1>4
  <2> QED BY <1>1, <1>5, <2>1 DEF BookInv, BookIsTold, Told
<1>7. ~truncated => Whole(old, before)
  <2>1. DOMAIN old = 1..Len(old)
    BY <1>4
  <2> QED BY <1>1, <1>5, <2>1 DEF BookInv, BookIsTold, Whole
<1>8. MergeInput(side, old, listed)
  BY <1>3, <1>4 DEF MergeInput
<1>9. items = UpdateOrderBookItems(side, old, listed) /\ levels = Tell(before, listed)
  BY <1>1, <1>2, <1>5
<1>10. levels \in [Prices -> Quantities]
  BY <1>3, <1>9, TellIs
<1>11. /\ items \in Seq(Level) /\ Ordered(side, items) /\ Told(items, levels)
       /\ Whole(old, before) => Whole(items, levels)
  BY <1>6, <1>8, <1>9, UpdateIsTold
<1>12. /\ Resize(items) \in Seq(Level) /\ Ordered(side, Resize(items))
       /\ Len(Resize(items)) <= MaxLevels /\ Told(Resize(items), levels)
       /\ Len(items) <= MaxLevels => Resize(items) = items
  BY <1>11, ResizeIs
<1>13. ASSUME ~truncated, ~(Len(items) > MaxLevels) PROVE Whole(Resize(items), levels)
  <2>1. Len(items) <= MaxLevels
    BY <1>3, <1>11, <1>13
  <2> QED BY <1>7, <1>11, <1>12, <1>13, <2>1
<1> QED BY <1>10, <1>12, <1>13

LEMMA OnOrderBookUpdateEventKeeps ==
  ASSUME IInv, OnOrderBookUpdateEvent
  PROVE  IInv'
<1>1. StreamInv /\ ThreadsInv /\ BookInv /\ SnapshotInv
  BY DEF IInv
<1>2. /\ unit_busy /\ handled' = handled + 1 /\ unit_busy' = FALSE /\ new_snapshots' = new_snapshots + 1
      /\ UNCHANGED <<stream, stream_ended, read, asking, snapshots>>
  BY DEF OnOrderBookUpdateEvent, stream_vars, analyzer_vars
<1>3. /\ handled < Len(stream) /\ stream[handled + 1].update # NoUpdate
  BY <1>1, <1>2 DEF ThreadsInv, HasNext, NextEvent
<1>4. /\ Len(stream) \in Nat /\ handled \in 0..Len(stream) /\ read \in 0..Len(stream)
      /\ stream_ended \in BOOLEAN /\ asking \in BOOLEAN
      /\ asking => read # 0
      /\ new_snapshots = Cardinality(UpdatesBefore(handled))
  BY <1>1 DEF ThreadsInv, StreamInv
<1>5. PICK k \in 1..Len(stream) : k = handled + 1 /\ handled \in Nat
  BY <1>3, <1>4
<1>6. PICK update \in Updates : stream[k].update = <<update>>
  BY <1>1, <1>3, <1>5, StreamFields
<1>7. PICK ts \in 1..(MaxEvents + 1) : ts = stream[k].received_timestamp
  BY <1>1, StreamFields
<1>8. PICK bids, asks :
        /\ bids = UpdateOrderBookItems("bids", order_book.bids, update.bids)
        /\ asks = UpdateOrderBookItems("asks", order_book.asks, update.asks)
        /\ order_book' = [received_timestamp |-> ts, bids |-> Resize(bids), asks |-> Resize(asks)]
        /\ told' = [told EXCEPT !["bids"] = Tell(told["bids"], update.bids),
                                !["asks"] = Tell(told["asks"], update.asks)]
        /\ truncated' = (truncated \/ Len(bids) > MaxLevels \/ Len(asks) > MaxLevels)
  <2>1. NextEvent.update = <<update>> /\ NextEvent.received_timestamp = ts
    BY <1>5, <1>6, <1>7 DEF NextEvent
  <2>2. ToSet(<<update>>) = {update}
    BY DEF ToSet
  <2>3. ToSet(NextEvent.update) = {update}
    BY <2>1, <2>2
  <2> QED BY <2>1, <2>3 DEF OnOrderBookUpdateEvent
<1>9. "bids" \in Sides /\ "asks" \in Sides /\ Items("bids") = order_book.bids /\ Items("asks") = order_book.asks
  BY DEF Sides, Items
<1>10. /\ Items("bids")' = Resize(bids) /\ Items("asks")' = Resize(asks)
  BY <1>8 DEF Items
<1>11. told \in [Sides -> [Prices -> Quantities]] /\ truncated \in BOOLEAN
  BY <1>1 DEF BookInv
<1>12. /\ told'["bids"] = Tell(told["bids"], update.bids)
       /\ told'["asks"] = Tell(told["asks"], update.asks)
       /\ \A side \in DOMAIN told : side \notin {"bids", "asks"} => told'[side] = told[side]
       /\ told' = [side \in Sides |-> told'[side]]
  BY <1>8, <1>9, <1>11
<1>13. /\ told'["bids"] \in [Prices -> Quantities]
       /\ Resize(bids) \in Seq(Level) /\ Ordered("bids", Resize(bids))
       /\ Len(Resize(bids)) <= MaxLevels /\ Told(Resize(bids), told'["bids"])
       /\ ~truncated /\ ~(Len(bids) > MaxLevels) => Whole(Resize(bids), told'["bids"])
  <2>1. bids = UpdateOrderBookItems("bids", Items("bids"), update["bids"])
    BY <1>8, <1>9
  <2>2. told'["bids"] = Tell(told["bids"], update["bids"])
    BY <1>12
  <2> QED BY <1>1, <1>9, <2>1, <2>2, SideUpdated
<1>14. /\ told'["asks"] \in [Prices -> Quantities]
       /\ Resize(asks) \in Seq(Level) /\ Ordered("asks", Resize(asks))
       /\ Len(Resize(asks)) <= MaxLevels /\ Told(Resize(asks), told'["asks"])
       /\ ~truncated /\ ~(Len(asks) > MaxLevels) => Whole(Resize(asks), told'["asks"])
  <2>1. asks = UpdateOrderBookItems("asks", Items("asks"), update["asks"])
    BY <1>8, <1>9
  <2>2. told'["asks"] = Tell(told["asks"], update["asks"])
    BY <1>12
  <2> QED BY <1>1, <1>9, <2>1, <2>2, SideUpdated
<1>15. BookInv'
  <2>1. order_book' \in Books
    <3>1. ts \in 0..(MaxEvents + 1)
      OBVIOUS
    <3> QED BY <1>8, <1>13, <1>14, <3>1 DEF Books
  <2>2. told' \in [Sides -> [Prices -> Quantities]]
    BY <1>12, <1>13, <1>14 DEF Sides
  <2>3. truncated' \in BOOLEAN
    BY <1>8
  <2>4. ASSUME NEW side \in Sides
        PROVE  /\ Items(side)' \in Seq(Level) /\ Ordered(side, Items(side)')
               /\ Len(Items(side)') <= MaxLevels /\ Told(Items(side)', told'[side])
               /\ ~truncated' => Whole(Items(side)', told'[side])
    <3>1. side = "bids" \/ side = "asks"
      BY DEF Sides
    <3>2. ~truncated' => ~truncated /\ ~(Len(bids) > MaxLevels) /\ ~(Len(asks) > MaxLevels)
      BY <1>8, <1>11
    <3>3. CASE side = "bids"
      BY <1>10, <1>13, <3>2, <3>3
    <3>4. CASE side = "asks"
      BY <1>10, <1>14, <3>2, <3>4
    <3> QED BY <3>1, <3>3, <3>4
  <2>5. BookIsTold'
    <3> SUFFICES ASSUME NEW side \in Sides
                 PROVE  /\ \A j \in DOMAIN Items(side)' :
                             Items(side)'[j].quantity = told'[side][Items(side)'[j].price]
                        /\ ~truncated' => \A price \in Prices :
                             told'[side][price] # 0 =>
                               \E j \in DOMAIN Items(side)' : Items(side)'[j].price = price
      BY DEF BookIsTold
    <3>1. DOMAIN Items(side)' = 1..Len(Items(side)')
      BY <2>4
    <3> QED BY <2>4, <3>1 DEF Told, Whole
  <2>6. \A side \in Sides : (Ordered(side, Items(side)) /\ Len(Items(side)) <= MaxLevels)'
    <3>1. ASSUME NEW side \in Sides
          PROVE  Ordered(side, Items(side))' /\ Len(Items(side)') <= MaxLevels
      BY <2>4 DEF Ordered
    <3> QED BY <3>1
  <2> QED BY <2>1, <2>2, <2>3, <2>5, <2>6 DEF BookInv
<1>16. ThreadsInv'
  <2>1. (new_snapshots = Cardinality(UpdatesBefore(handled)))'
    <3>1. Cardinality(UpdatesBefore(handled + 1)) = Cardinality(UpdatesBefore(handled)) + 1
      BY <1>3, <1>5, CountUpdates
    <3>2. UpdatesBefore(handled)' = UpdatesBefore(handled + 1)
      BY <1>2 DEF UpdatesBefore
    <3> QED BY <1>2, <1>4, <3>1, <3>2
  <2>2. \E j \in 1..handled' : order_book'.received_timestamp = stream'[j].received_timestamp
    <3>1. k \in 1..handled' /\ order_book'.received_timestamp = ts
      BY <1>2, <1>5, <1>8
    <3> QED BY <1>2, <1>7, <3>1
  <2>3. handled' \in 0..Len(stream') /\ read' \in 0..Len(stream')
    BY <1>2, <1>4, <1>5
  <2>4. stream_ended' \in BOOLEAN /\ asking' \in BOOLEAN /\ unit_busy' \in BOOLEAN /\ (asking' => read' # 0)
    BY <1>2, <1>4
  <2> QED BY <1>2, <2>1, <2>2, <2>3, <2>4 DEF ThreadsInv
<1>17. StreamInv'
  BY <1>1, <1>2, StreamSame
<1>18. SnapshotInv'
  BY <1>1, <1>2, SnapshotSame
<1> QED BY <1>15, <1>16, <1>17, <1>18 DEF IInv

LEMMA EndStreamKeeps ==
  ASSUME IInv, EndStream
  PROVE  IInv'
<1>1. StreamInv /\ ThreadsInv /\ BookInv /\ SnapshotInv
  BY DEF IInv
<1>2. /\ stream_ended' = TRUE
      /\ UNCHANGED <<stream, handled, order_book, unit_busy, told, truncated, new_snapshots,
                     read, asking, snapshots>>
  BY DEF EndStream, provider_vars, analyzer_vars
<1>3. ThreadsInv'
  <2>1. (unit_busy => HasNext /\ NextEvent.update # NoUpdate)'
    BY <1>1, <1>2 DEF ThreadsInv, HasNext, NextEvent
  <2>2. UpdatesBefore(handled)' = UpdatesBefore(handled)
    BY <1>2 DEF UpdatesBefore
  <2> QED BY <1>1, <1>2, <2>1, <2>2 DEF ThreadsInv
<1>4. StreamInv'
  BY <1>1, <1>2, StreamSame
<1>5. BookInv'
  BY <1>1, <1>2, BookSame
<1>6. SnapshotInv'
  BY <1>1, <1>2, SnapshotSame
<1> QED BY <1>3, <1>4, <1>5, <1>6 DEF IInv

-----------------------------------------------------------------------------
(* The analyzer's thread.                                                  *)

LEMMA TakeEventKeeps ==
  ASSUME IInv, TakeEvent
  PROVE  IInv'
<1>1. StreamInv /\ ThreadsInv /\ BookInv /\ SnapshotInv
  BY DEF IInv
<1>2. /\ read < Len(stream) /\ read' = read + 1 /\ asking' \in BOOLEAN
      /\ UNCHANGED <<stream, stream_ended, handled, order_book, unit_busy, told, truncated,
                     new_snapshots, snapshots>>
  BY DEF TakeEvent, stream_vars, provider_vars
<1>3. ThreadsInv'
  <2>1. (unit_busy => HasNext /\ NextEvent.update # NoUpdate)'
    BY <1>1, <1>2 DEF ThreadsInv, HasNext, NextEvent
  <2>2. UpdatesBefore(handled)' = UpdatesBefore(handled)
    BY <1>2 DEF UpdatesBefore
  <2>3. read' \in 0..Len(stream') /\ read' # 0
    <3>1. Len(stream) \in Nat /\ read \in 0..Len(stream)
      BY <1>1 DEF StreamInv, ThreadsInv
    <3> QED BY <1>2, <3>1
  <2> QED BY <1>1, <1>2, <2>1, <2>2, <2>3 DEF ThreadsInv
<1>4. StreamInv'
  BY <1>1, <1>2, StreamSame
<1>5. BookInv'
  BY <1>1, <1>2, BookSame
<1>6. SnapshotInv'
  BY <1>1, <1>2, SnapshotSame
<1> QED BY <1>3, <1>4, <1>5, <1>6 DEF IInv

\* What the wait's predicate gives: the book's time is that of an event the
\* provider has handled, so no event after that one is older than the time
\* asked for, and an update that is older has been merged.
LEMMA FreshHoldsAll ==
  ASSUME IInv, asking, IsFresh(stream[read].received_timestamp)
  PROVE  /\ read \in 1..Len(stream) /\ handled \in Nat
         /\ HoldsAll(read, handled)
<1>1. StreamInv /\ ThreadsInv
  BY DEF IInv
<1>2. PICK m \in Nat : m = Len(stream)
  BY <1>1 DEF StreamInv
<1>3. read \in 1..m /\ handled \in 0..m
  <2>1. read \in 0..m /\ read # 0 /\ handled \in 0..m
    BY <1>1, <1>2 DEF ThreadsInv
  <2> QED BY <2>1
<1>4. PICK ts \in Nat : ts = stream[read].received_timestamp /\ ts # 0
  BY <1>1, <1>2, <1>3, StreamFields
<1>5. ts <= order_book.received_timestamp
  BY <1>4 DEF IsFresh
<1>6. PICK h \in 1..handled : order_book.received_timestamp = stream[h].received_timestamp
  <2>1. order_book.received_timestamp # 0
    BY <1>4, <1>5
  <2> QED BY <1>1, <2>1 DEF ThreadsInv
<1>7. h \in 1..m /\ h <= handled
  BY <1>3
<1>8. PICK booked \in Nat : booked = stream[h].received_timestamp
  BY <1>1, <1>2, <1>7, StreamFields
<1>9. ASSUME NEW n \in UpdatesBefore(read),
             stream[n].received_timestamp < stream[read].received_timestamp
      PROVE  n <= handled
  <2>1. n \in 1..m
    <3>1. n \in 1..read
      BY DEF UpdatesBefore
    <3> QED BY <1>3, <3>1
  <2>2. PICK older \in Nat : older = stream[n].received_timestamp
    BY <1>1, <1>2, <2>1, StreamFields
  <2>3. older < booked
    BY <1>4, <1>5, <1>6, <1>8, <1>9, <2>2
  <2>4. ASSUME n > handled PROVE FALSE
    <3>1. h \in 1..n
      BY <1>3, <1>7, <2>1, <2>4
    <3>2. booked <= older
      BY <1>1, <1>2, <1>8, <2>1, <2>2, <3>1 DEF StreamInv
    <3> QED BY <2>3, <3>2
  <2> QED BY <1>3, <2>1, <2>4
<1> QED BY <1>2, <1>3, <1>9 DEF HoldsAll

LEMMA GetSnapshotKeeps ==
  ASSUME IInv, GetSnapshot
  PROVE  IInv'
<1>1. StreamInv /\ ThreadsInv /\ BookInv /\ SnapshotInv
  BY DEF IInv
<1>2. /\ asking /\ IsFresh(stream[read].received_timestamp) /\ asking' = FALSE
      /\ snapshots' = Append(snapshots, [event |-> read, holds |-> handled])
      /\ UNCHANGED <<stream, stream_ended, handled, order_book, unit_busy, told, truncated,
                     new_snapshots, read>>
  BY DEF GetSnapshot, stream_vars, provider_vars
<1>3. ThreadsInv'
  <2>1. (unit_busy => HasNext /\ NextEvent.update # NoUpdate)'
    BY <1>1, <1>2 DEF ThreadsInv, HasNext, NextEvent
  <2>2. UpdatesBefore(handled)' = UpdatesBefore(handled)
    BY <1>2 DEF UpdatesBefore
  <2> QED BY <1>1, <1>2, <2>1, <2>2 DEF ThreadsInv
<1>4. SnapshotInv'
  <2>1. /\ read \in 1..Len(stream) /\ handled \in Nat
        /\ HoldsAll(read, handled)
    BY <1>2, FreshHoldsAll
  <2>2. PICK s : s = [event |-> read, holds |-> handled]
    OBVIOUS
  <2>3. s \in [event : Nat, holds : Nat] /\ s.event = read /\ s.holds = handled
    BY <2>1, <2>2
  <2>4. PICK n \in Nat : n = Len(snapshots)
    BY <1>1 DEF SnapshotInv
  <2>5. /\ snapshots' \in Seq([event : Nat, holds : Nat]) /\ Len(snapshots') = n + 1
        /\ \A k \in 1..n : snapshots'[k] = snapshots[k]
        /\ snapshots'[n + 1] = s
    BY <1>1, <1>2, <2>2, <2>3, <2>4, AppendProperties DEF SnapshotInv
  <2>6. ASSUME NEW k \in 1..(n + 1)
        PROVE  /\ snapshots'[k].event \in 1..Len(stream)
               /\ HoldsAll(snapshots'[k].event, snapshots'[k].holds)
    <3>1. CASE k = n + 1
      BY <2>1, <2>3, <2>5, <3>1
    <3>2. CASE k # n + 1
      <4>1. k \in 1..n
        BY <3>2
      <4> QED BY <1>1, <2>4, <2>5, <4>1 DEF SnapshotInv
    <3> QED BY <3>1, <3>2
  <2>7. \A k \in 1..Len(snapshots') :
          /\ snapshots'[k].event \in 1..Len(stream')
          /\ HoldsAll(snapshots[k].event, snapshots[k].holds)'
    <3> SUFFICES ASSUME NEW k \in 1..Len(snapshots')
                 PROVE  /\ snapshots'[k].event \in 1..Len(stream')
                        /\ HoldsAll(snapshots[k].event, snapshots[k].holds)'
      OBVIOUS
    <3>1. k \in 1..(n + 1)
      BY <2>5
    <3>2. HoldsAll(snapshots[k].event, snapshots[k].holds)' = HoldsAll(snapshots'[k].event, snapshots'[k].holds)
      BY <1>2 DEF HoldsAll, UpdatesBefore
    <3> QED BY <1>2, <2>6, <3>1, <3>2
  <2> QED BY <2>5, <2>7 DEF SnapshotInv
<1>5. StreamInv'
  BY <1>1, <1>2, StreamSame
<1>6. BookInv'
  BY <1>1, <1>2, BookSame
<1> QED BY <1>3, <1>4, <1>5, <1>6 DEF IInv

-----------------------------------------------------------------------------
(* The invariant of every execution.                                       *)

LEMMA InitInv ==
  ASSUME Init
  PROVE  IInv
<1>1. MaxEvents \in Nat /\ MaxLevels \in Nat /\ 0 \in Quantities
  BY ProviderConstants DEF ProviderConstants
<1>2. /\ stream = <<>> /\ stream_ended = FALSE /\ handled = 0 /\ unit_busy = FALSE
      /\ order_book = [received_timestamp |-> 0, bids |-> <<>>, asks |-> <<>>]
      /\ told = [side \in Sides |-> EmptySide] /\ truncated = FALSE /\ new_snapshots = 0
      /\ read = 0 /\ asking = FALSE /\ snapshots = <<>>
  BY DEF Init
<1>3. StreamInv
  <2>1. stream \in Seq(MarketEvents) /\ Len(stream) = 0
    BY <1>2
  <2> QED BY <1>1, <2>1 DEF StreamInv
<1>4. ThreadsInv
  <2>1. Cardinality(UpdatesBefore(0)) = 0
    <3>1. UpdatesBefore(0) = {}
      BY DEF UpdatesBefore
    <3> QED BY <3>1, FS_EmptySet
  <2>2. order_book.received_timestamp = 0
    BY <1>2
  <2>3. handled \in 0..Len(stream) /\ read \in 0..Len(stream)
    BY <1>2
  <2> QED BY <1>2, <2>1, <2>2, <2>3 DEF ThreadsInv
<1>5. BookInv
  <2>1. order_book \in Books
    <3>1. <<>> \in Seq(Level) /\ 0 \in 0..(MaxEvents + 1)
      BY <1>1
    <3> QED BY <1>2, <3>1 DEF Books
  <2>2. told \in [Sides -> [Prices -> Quantities]]
    BY <1>1, <1>2 DEF EmptySide
  <2>3. \A side \in Sides : Items(side) = <<>>
    BY <1>2 DEF Items
  <2>4. \A side \in Sides : Ordered(side, Items(side)) /\ Len(Items(side)) <= MaxLevels
    BY <1>1, <2>3 DEF Ordered
  <2>5. BookIsTold
    <3>1. \A side \in Sides : \A price \in Prices : told[side][price] = 0
      BY <1>2 DEF EmptySide
    <3> QED BY <2>3, <3>1 DEF BookIsTold
  <2> QED BY <1>2, <2>1, <2>2, <2>4, <2>5 DEF BookInv
<1>6. SnapshotInv
  <2>1. snapshots \in Seq([event : Nat, holds : Nat]) /\ Len(snapshots) = 0
    BY <1>2
  <2> QED BY <2>1 DEF SnapshotInv
<1> QED BY <1>3, <1>4, <1>5, <1>6 DEF IInv

LEMMA StutterKeeps ==
  ASSUME IInv, UNCHANGED vars
  PROVE  IInv'
<1>1. UNCHANGED <<stream, stream_ended, handled, order_book, unit_busy, told, truncated,
                  new_snapshots, read, asking, snapshots>>
  BY DEF vars, stream_vars, provider_vars, analyzer_vars
<1>2. ThreadsInv'
  BY <1>1 DEF IInv, ThreadsInv, HasNext, NextEvent, UpdatesBefore
<1> QED BY <1>1, <1>2, StreamSame, BookSame, SnapshotSame DEF IInv

LEMMA NextKeeps ==
  ASSUME IInv, Next
  PROVE  IInv'
<1>1. CASE DispatchTrade
  BY <1>1, DispatchKeeps DEF DispatchTrade
<1>2. CASE DispatchUpdate
  <2>1. PICK update \in Updates : Dispatch(<<update>>)
    BY <1>2, ProviderConstants DEF DispatchUpdate, ProviderConstants
  <2> QED BY <2>1, DispatchKeeps
<1>3. CASE EndStream
  BY <1>3, EndStreamKeeps
<1>4. CASE Provider
  BY <1>4, SkipTradeKeeps, SetBusyKeeps, OnOrderBookUpdateEventKeeps DEF Provider
<1>5. CASE Analyzer
  BY <1>5, TakeEventKeeps, GetSnapshotKeeps DEF Analyzer
<1> QED BY <1>1, <1>2, <1>3, <1>4, <1>5 DEF Next

\* The inductive invariant holds of every execution, for all updates in order,
\* all bounds on the book and all interleavings of the two threads.
THEOREM Inductive == Spec => []IInv
<1>1. Init => IInv
  BY InitInv
<1>2. IInv /\ [Next]_vars => IInv'
  BY NextKeeps, StutterKeeps
<1> QED BY <1>1, <1>2, PTL DEF Spec

\* Each side of the book is in order of price, without a price twice, and no
\* longer than the bound: the assertion CheckItemsOrder makes after every
\* update never fails (order_book_snapshot_provider.cc:60-68).
THEOREM OrderedAlways == Spec => []BookIsOrdered
<1>1. IInv => BookIsOrdered
  <2> SUFFICES ASSUME IInv, NEW side \in Sides
               PROVE  /\ Len(Items(side)) <= MaxLevels
                      /\ \A k \in 2..Len(Items(side)) :
                           Precedes(side, Items(side)[k - 1].price, Items(side)[k].price)
    BY DEF BookIsOrdered
  <2>1. PICK items \in Seq(Level) : items = Items(side)
    BY DEF IInv, BookInv, Books, Items
  <2>2. Ordered(side, items) /\ Len(items) <= MaxLevels
    BY <2>1 DEF IInv, BookInv
  <2>3. ASSUME NEW k \in 2..Len(items)
        PROVE  Precedes(side, items[k - 1].price, items[k].price)
    <3>1. k \in DOMAIN items /\ k - 1 \in 1..(k - 1)
      OBVIOUS
    <3> QED BY <2>2, <3>1 DEF Ordered
  <2> QED BY <2>1, <2>2, <2>3
<1> QED BY <1>1, Inductive, PTL

\* Every level of the book has the quantity the updates last gave it, and none
\* is missing until one has been cut off: merging the updates one after another
\* is what writing them into a table would be
\* (order_book_snapshot_provider.cc:103-140).
THEOREM ToldAlways == Spec => []BookIsTold
<1>1. IInv => BookIsTold
  BY DEF IInv, BookInv
<1> QED BY <1>1, Inductive, PTL

\* A snapshot holds every update the strategy was given before the event it
\* asked at, except those with the event's own timestamp
\* (order_book_snapshot_provider.cc:27-34).
THEOREM FreshAlways == Spec => []SnapshotIsFresh
<1>1. IInv => SnapshotIsFresh
  <2> SUFFICES ASSUME IInv, NEW k \in DOMAIN snapshots
               PROVE  HoldsAll(snapshots[k].event, snapshots[k].holds)
    BY DEF SnapshotIsFresh, HoldsAll
  <2>1. k \in 1..Len(snapshots)
    BY DEF IInv, SnapshotInv
  <2> QED BY <2>1 DEF IInv, SnapshotInv
<1> QED BY <1>1, Inductive, PTL

\* The types of the variables; the unit is busy only with an update, and every
\* update handled has been passed on to the order book stream once.
THEOREM ProviderTypeCorrect == Spec => []TypeOK
<1>1. IInv => TypeOK
  <2> SUFFICES ASSUME IInv PROVE TypeOK
    OBVIOUS
  <2>1. ThreadsInv /\ BookInv
    BY DEF IInv
  <2>2. order_book \in Books
    BY <2>1 DEF BookInv
  <2>3. \A side \in Sides : ToSet(Items(side)) \subseteq Level
    <3> SUFFICES ASSUME NEW side \in Sides PROVE ToSet(Items(side)) \subseteq Level
      OBVIOUS
    <3>1. PICK items \in Seq(Level) : items = Items(side)
      BY <2>2 DEF Books, Items
    <3>2. ToSet(items) \subseteq Level
      BY DEF ToSet
    <3> QED BY <3>1, <3>2
  <2>4. order_book.received_timestamp \in 0..(MaxEvents + 1)
    BY <2>2 DEF Books
  <2> QED BY <2>1, <2>3, <2>4 DEF TypeOK, ThreadsInv, BookInv
<1> QED BY <1>1, Inductive, PTL

-----------------------------------------------------------------------------
(* What the events tell.                                                   *)

Levels == [Prices -> Quantities]

\* What an event makes of the levels told of a side.
Heard(levels, event, side) ==
  IF event.update = NoUpdate THEN levels ELSE Tell(levels, event.update[1][side])

AreEvents(events, n) == n \in Nat /\ Len(events) = n /\ \A k \in 1..n : events[k] \in MarketEvents

LEMMA HeardIs ==
  ASSUME NEW levels \in Levels, NEW event \in MarketEvents, NEW side \in Sides
  PROVE  Heard(levels, event, side) \in Levels
<1>1. CASE event.update = NoUpdate
  BY <1>1 DEF Heard
<1>2. CASE event.update # NoUpdate
  <2>1. PICK update \in Updates : event.update = <<update>>
    BY <1>2 DEF MarketEvents
  <2>2. update[side] \in Seq(Level) /\ Ordered(side, update[side])
    BY ProviderConstants DEF ProviderConstants
  <2>3. Tell(levels, update[side]) \in Levels
    BY <2>2, TellIs DEF Levels
  <2>4. event.update[1][side] = update[side]
    BY <2>1
  <2> QED BY <1>2, <2>3, <2>4 DEF Heard
<1> QED BY <1>1, <1>2

\* The levels told are heard event by event.
LEMMA LevelsToldAre ==
  ASSUME NEW events, NEW n, AreEvents(events, n), NEW side \in Sides
  PROVE  /\ LevelsTold(events, side) \in [0..n -> Levels]
         /\ LevelsTold(events, side)[0] = EmptySide
         /\ \A k \in 1..n : LevelsTold(events, side)[k] =
                              Heard(LevelsTold(events, side)[k - 1], events[k], side)
<1>1. n \in Nat /\ Len(events) = n /\ \A k \in 1..n : events[k] \in MarketEvents
  BY DEF AreEvents
<1>2. EmptySide \in Levels
  BY ProviderConstants DEF EmptySide, Levels, ProviderConstants
<1> DEFINE Step == [k \in 1..n |-> [levels \in Levels |-> Heard(levels, events[k], side)]]
           Tells(f) == f = [k \in 0..n |->
                              IF k = 0 THEN EmptySide
                              ELSE IF events[k].update = NoUpdate THEN f[k - 1]
                              ELSE Tell(f[k - 1], events[k].update[1][side])]
           told_by == CHOOSE f : Tells(f)
<1>3. Step \in [1..n -> [Levels -> Levels]]
  BY <1>1, HeardIs
<1>4. ASSUME NEW k \in 1..n, NEW levels \in Levels
      PROVE  Step[k][levels] = Heard(levels, events[k], side)
  OBVIOUS
<1> HIDE DEF Step
<1>5. PICK F \in [0..n -> Levels] : Recurs(F, n, EmptySide, Step)
  BY <1>1, <1>2, <1>3, Recursion
<1>6. F[0] = EmptySide /\ \A k \in 1..n : F[k] = Heard(F[k - 1], events[k], side)
  <2>1. ASSUME NEW k \in 1..n PROVE F[k] = Heard(F[k - 1], events[k], side)
    <3>1. k - 1 \in 0..n
      BY <1>1
    <3>2. F[k - 1] \in Levels
      BY <3>1
    <3> QED BY <1>4, <1>5, <3>2 DEF Recurs
  <2> QED BY <1>5, <2>1 DEF Recurs
<1>7. Tells(F)
  <2>1. \A k \in 0..n : F[k] = IF k = 0 THEN EmptySide
                               ELSE IF events[k].update = NoUpdate THEN F[k - 1]
                               ELSE Tell(F[k - 1], events[k].update[1][side])
    <3> SUFFICES ASSUME NEW k \in 0..n, k # 0
                 PROVE  F[k] = IF events[k].update = NoUpdate THEN F[k - 1]
                               ELSE Tell(F[k - 1], events[k].update[1][side])
      BY <1>6
    <3>1. k \in 1..n
      BY <1>1
    <3> QED BY <1>6, <3>1 DEF Heard
  <2> QED BY <2>1
<1>8. Tells(told_by)
  <2> HIDE DEF Tells
  <2> QED BY <1>7
<1>9. LevelsTold(events, side) = told_by
  BY <1>1 DEF LevelsTold
<1> HIDE DEF told_by
<1>10. /\ told_by = [k \in 0..n |-> told_by[k]]
       /\ told_by[0] = EmptySide
       /\ \A k \in 1..n : told_by[k] = Heard(told_by[k - 1], events[k], side)
  <2>1. told_by = [k \in 0..n |-> told_by[k]]
    BY <1>8
  <2>2. told_by[0] = EmptySide
    BY <1>1, <1>8
  <2>3. ASSUME NEW k \in 1..n PROVE told_by[k] = Heard(told_by[k - 1], events[k], side)
    <3>1. k \in 0..n /\ k # 0
      BY <1>1
    <3> QED BY <1>8, <3>1 DEF Heard
  <2> QED BY <2>1, <2>2, <2>3
<1> HIDE DEF Tells
<1> DEFINE P == {k \in 0..n : told_by[k] \in Levels}
<1>11. 0 \in P
  BY <1>1, <1>2, <1>10
<1>12. ASSUME NEW k \in 1..n, k - 1 \in P PROVE k \in P
  <2>1. k \in 0..n /\ told_by[k - 1] \in Levels /\ events[k] \in MarketEvents
    BY <1>1, <1>12
  <2>2. Heard(told_by[k - 1], events[k], side) \in Levels
    BY <2>1, HeardIs
  <2> QED BY <1>10, <2>1, <2>2
<1>13. \A k \in 0..n : k \in P
  <2> HIDE DEF P
  <2> QED BY <1>1, <1>11, <1>12, Upward
<1> QED BY <1>9, <1>10, <1>13

\* What the first events tell does not depend on those that follow.
LEMMA LevelsToldBefore ==
  ASSUME NEW events, NEW n, AreEvents(events, n), NEW more, AreEvents(more, n + 1),
         \A k \in 1..n : more[k] = events[k], NEW side \in Sides
  PROVE  \A k \in 0..n : LevelsTold(more, side)[k] = LevelsTold(events, side)[k]
<1> DEFINE F == LevelsTold(events, side)
           G == LevelsTold(more, side)
<1>1. n \in Nat
  BY DEF AreEvents
<1>2. F[0] = EmptySide /\ \A k \in 1..n : F[k] = Heard(F[k - 1], events[k], side)
  BY LevelsToldAre
<1>3. G[0] = EmptySide /\ \A k \in 1..(n + 1) : G[k] = Heard(G[k - 1], more[k], side)
  BY LevelsToldAre
<1> HIDE DEF F, G
<1> DEFINE P == {k \in 0..n : G[k] = F[k]}
<1>4. 0 \in P
  BY <1>1, <1>2, <1>3
<1>5. ASSUME NEW k \in 1..n, k - 1 \in P PROVE k \in P
  <2>1. k \in 1..(n + 1) /\ k \in 0..n /\ G[k - 1] = F[k - 1]
    BY <1>1, <1>5
  <2>2. G[k] = Heard(F[k - 1], events[k], side)
    BY <1>3, <2>1
  <2> QED BY <1>2, <2>1, <2>2
<1>6. \A k \in 0..n : k \in P
  <2> HIDE DEF P
  <2> QED BY <1>1, <1>4, <1>5, Upward
<1> QED BY <1>6 DEF F, G

\* Finitely many levels are listed at any time.
LEMMA ListedFinite ==
  ASSUME NEW events, NEW n, AreEvents(events, n), NEW side \in Sides, NEW m \in 0..n
  PROVE  IsFiniteSet(Listed(LevelsTold(events, side)[m]))
<1> DEFINE F == LevelsTold(events, side)
<1>1. n \in Nat /\ \A k \in 1..n : events[k] \in MarketEvents
  BY DEF AreEvents
<1>2. /\ F \in [0..n -> Levels] /\ F[0] = EmptySide
      /\ \A k \in 1..n : F[k] = Heard(F[k - 1], events[k], side)
  BY LevelsToldAre
<1> HIDE DEF F
<1> DEFINE P == {k \in 0..n : IsFiniteSet(Listed(F[k]))}
<1>3. 0 \in P
  <2>1. Listed(EmptySide) = {}
    BY DEF Listed, EmptySide
  <2>2. IsFiniteSet({})
    BY FS_EmptySet
  <2>3. IsFiniteSet(Listed(F[0]))
    BY <1>2, <2>1, <2>2
  <2> HIDE DEF Listed
  <2> QED BY <1>1, <2>3
<1>4. ASSUME NEW k \in 1..n, k - 1 \in P PROVE k \in P
  <2>1. k \in 0..n /\ k - 1 \in 0..n /\ IsFiniteSet(Listed(F[k - 1])) /\ F[k - 1] \in Levels
    BY <1>1, <1>2, <1>4
  <2>2. F[k] = Heard(F[k - 1], events[k], side) /\ events[k] \in MarketEvents
    BY <1>1, <1>2
  <2>3. CASE events[k].update = NoUpdate
    BY <2>1, <2>2, <2>3 DEF Heard
  <2>4. CASE events[k].update # NoUpdate
    <3>1. PICK update \in Updates : events[k].update = <<update>>
      BY <2>2, <2>4 DEF MarketEvents
    <3>2. PICK u : u = update[side] /\ u \in Seq(Level) /\ Ordered(side, u)
      BY ProviderConstants DEF ProviderConstants
    <3>3. F[k] = Tell(F[k - 1], u)
      BY <2>2, <2>4, <3>1, <3>2 DEF Heard
    <3> DEFINE U == {u[j].price : j \in 1..Len(u)}
    <3>4. Listed(F[k]) \subseteq Listed(F[k - 1]) \cup U
      <4> SUFFICES ASSUME NEW price \in Prices, F[k][price] # 0, price \notin U
                   PROVE  F[k - 1][price] # 0
        BY DEF Listed
      <4>1. NotUpdated(u, price)
        BY DEF NotUpdated
      <4>2. Tell(F[k - 1], u)[price] = F[k - 1][price]
        BY <2>1, <3>2, <4>1, TellIs DEF Levels
      <4> QED BY <3>3, <4>2
    <3>5. IsFiniteSet(U)
      <4>1. PICK c \in Nat : c = Len(u)
        BY <3>2
      <4>2. [j \in 1..c |-> u[j].price] \in Seq(U)
        BY <4>1
      <4>3. \E s \in Seq(U) : \A p \in U : \E j \in 1..Len(s) : s[j] = p
        <5>1. PICK s : s = [j \in 1..c |-> u[j].price]
          OBVIOUS
        <5>2. s \in Seq(U) /\ Len(s) = c
          BY <4>2, <5>1
        <5>3. \A p \in U : \E j \in 1..c : s[j] = p
          BY <4>1, <5>1
        <5> QED BY <5>2, <5>3
      <4> QED BY <4>3 DEF IsFiniteSet
    <3> HIDE DEF U
    <3>6. IsFiniteSet(Listed(F[k - 1]) \cup U)
      BY <2>1, <3>5, FS_Union
    <3>7. IsFiniteSet(Listed(F[k]))
      BY <3>4, <3>6, FS_Subset
    <3> QED BY <2>1, <3>7
  <2> QED BY <2>3, <2>4
<1>5. \A k \in 0..n : k \in P
  <2> HIDE DEF P
  <2> QED BY <1>1, <1>3, <1>4, Upward
<1> QED BY <1>5 DEF F

\* What the provider was told is what the events it has handled tell.
ToldInv == \A side \in Sides : told[side] = LevelsTold(stream, side)[handled]

LEMMA StreamIsEvents ==
  ASSUME StreamInv
  PROVE  AreEvents(stream, Len(stream))
BY DEF StreamInv, AreEvents

LEMMA DispatchTold ==
  ASSUME IInv, IInv', ToldInv, NEW event, Dispatch(event)
  PROVE  ToldInv'
<1>1. PICK n \in Nat : n = Len(stream) /\ AreEvents(stream, n)
  BY StreamIsEvents DEF IInv, StreamInv
<1>2. stream \in Seq(MarketEvents) /\ handled \in 0..n
  BY <1>1 DEF IInv, StreamInv, ThreadsInv
<1>3. UNCHANGED <<told, handled>>
  BY DEF Dispatch, provider_vars
<1>4. Len(stream') = n + 1 /\ \A k \in 1..n : stream'[k] = stream[k]
  BY <1>1, <1>2 DEF Dispatch
<1>5. AreEvents(stream', n + 1)
  <2>1. StreamInv'
    BY DEF IInv
  <2>2. stream' \in Seq(MarketEvents)
    BY <2>1 DEF StreamInv
  <2> QED BY <1>4, <2>2 DEF AreEvents
<1>6. ASSUME NEW side \in Sides
      PROVE  LevelsTold(stream', side)[handled] = LevelsTold(stream, side)[handled]
  <2>1. \A k \in 0..n : LevelsTold(stream', side)[k] = LevelsTold(stream, side)[k]
    BY <1>1, <1>4, <1>5, LevelsToldBefore
  <2> QED BY <1>2, <2>1
<1>7. ASSUME NEW side \in Sides PROVE told'[side] = LevelsTold(stream', side)[handled']
  BY <1>3, <1>6 DEF ToldInv
<1> QED BY <1>7 DEF ToldInv

\* An event handled: what it tells has been told.
LEMMA HandledTold ==
  ASSUME IInv, ToldInv, handled < Len(stream), handled' = handled + 1, UNCHANGED stream,
         \A side \in Sides : told'[side] = Heard(told[side], stream[handled + 1], side)
  PROVE  ToldInv'
<1>1. PICK n \in Nat : n = Len(stream) /\ AreEvents(stream, n)
  BY StreamIsEvents DEF IInv, StreamInv
<1>2. handled \in 0..n /\ handled + 1 \in 1..n /\ (handled + 1) - 1 = handled
  BY <1>1 DEF IInv, ThreadsInv
<1>3. ASSUME NEW side \in Sides
      PROVE  LevelsTold(stream, side)[handled + 1] = Heard(told[side], stream[handled + 1], side)
  <2>1. \A k \in 1..n : LevelsTold(stream, side)[k] =
                          Heard(LevelsTold(stream, side)[k - 1], stream[k], side)
    BY <1>1, LevelsToldAre
  <2>2. LevelsTold(stream, side)[handled + 1] =
          Heard(LevelsTold(stream, side)[handled], stream[handled + 1], side)
    BY <1>2, <2>1
  <2> QED BY <2>2 DEF ToldInv
<1>4. ASSUME NEW side \in Sides PROVE told'[side] = LevelsTold(stream', side)[handled']
  BY <1>3
<1> QED BY <1>4 DEF ToldInv

LEMMA NextTold ==
  ASSUME IInv, IInv', ToldInv, [Next]_vars
  PROVE  ToldInv'
<1>1. ASSUME UNCHANGED <<stream, handled, told>> PROVE ToldInv'
  BY <1>1 DEF ToldInv
<1>2. CASE DispatchTrade
  BY <1>2, DispatchTold DEF DispatchTrade
<1>3. CASE DispatchUpdate
  BY <1>3, DispatchTold DEF DispatchUpdate
<1>4. CASE EndStream
  BY <1>1, <1>4 DEF EndStream, provider_vars
<1>5. CASE SkipTrade
  <2>1. /\ handled < Len(stream) /\ handled' = handled + 1
        /\ stream[handled + 1].update = NoUpdate /\ UNCHANGED <<stream, told>>
    BY <1>5 DEF SkipTrade, HasNext, NextEvent, stream_vars
  <2>2. \A side \in Sides : told'[side] = Heard(told[side], stream[handled + 1], side)
    BY <2>1 DEF Heard
  <2> QED BY <2>1, <2>2, HandledTold
<1>6. CASE SetBusy
  BY <1>1, <1>6 DEF SetBusy, stream_vars
<1>7. CASE OnOrderBookUpdateEvent
  <2>1. unit_busy /\ handled' = handled + 1 /\ UNCHANGED stream
    BY <1>7 DEF OnOrderBookUpdateEvent, stream_vars
  <2>2. handled < Len(stream) /\ NextEvent.update # NoUpdate
    BY <2>1 DEF IInv, ThreadsInv, HasNext
  <2>3. handled + 1 \in 1..Len(stream)
    <3>1. Len(stream) \in Nat /\ handled \in Nat
      BY DEF IInv, ThreadsInv, StreamInv
    <3> QED BY <2>2, <3>1
  <2>4. PICK update \in Updates : NextEvent.update = <<update>>
    BY <2>2, <2>3, StreamFields DEF IInv, NextEvent
  <2>5. ToSet(NextEvent.update) = {update}
    BY <2>4 DEF ToSet
  <2>6. told' = [told EXCEPT !["bids"] = Tell(told["bids"], update.bids),
                             !["asks"] = Tell(told["asks"], update.asks)]
    BY <1>7, <2>5 DEF OnOrderBookUpdateEvent
  <2>7. told \in [Sides -> Levels]
    BY DEF IInv, BookInv, Levels
  <2>8. \A side \in Sides : told'[side] = Tell(told[side], update[side])
    BY <2>6, <2>7 DEF Sides
  <2>9. \A side \in Sides : told'[side] = Heard(told[side], stream[handled + 1], side)
    BY <2>2, <2>4, <2>8 DEF Heard, NextEvent
  <2> QED BY <2>1, <2>2, <2>9, HandledTold
<1>8. CASE Analyzer
  BY <1>1, <1>8 DEF Analyzer, TakeEvent, GetSnapshot, stream_vars, provider_vars
<1>9. CASE UNCHANGED vars
  BY <1>1, <1>9 DEF vars, stream_vars, provider_vars
<1> QED BY <1>2, <1>3, <1>4, <1>5, <1>6, <1>7, <1>8, <1>9 DEF Next, Provider

\* At any time the provider has been told what the events it has handled
\* tell, one after another, from an empty book on.
THEOREM ToldFollows == Spec => [](IInv /\ ToldInv)
<1>1. Init => ToldInv
  <2> SUFFICES ASSUME Init PROVE ToldInv
    OBVIOUS
  <2>1. stream = <<>> /\ handled = 0 /\ \A side \in Sides : told[side] = EmptySide
    BY DEF Init
  <2>2. AreEvents(stream, 0)
    BY <2>1 DEF AreEvents
  <2>3. \A side \in Sides : LevelsTold(stream, side)[0] = EmptySide
    BY <2>2, LevelsToldAre
  <2> QED BY <2>1, <2>3 DEF ToldInv
<1>2. IInv /\ IInv' /\ ToldInv /\ [Next]_vars => ToldInv'
  BY NextTold
<1> QED BY <1>1, <1>2, Inductive, PTL DEF Spec

-----------------------------------------------------------------------------
(* The two lists the walk goes along.                                      *)

\* The first n items, by increasing price.
Climbs(items, n) ==
  /\ \A k \in 1..n : items[k].price \in Nat /\ items[k].quantity \in Nat
  /\ \A k \in 1..n : \A j \in 1..n : j < k => items[j].price < items[k].price

\* The levels of the exchange's book on a side, and the copy that is walked.
ServerLevels(side) == LevelsTold(stream, side)[Len(stream)]

ServerPrice(side, k) == Nth(Listed(ServerLevels(side)), k)

LEMMA ServerLevelsAre ==
  ASSUME IInv, NEW side \in Sides
  PROVE  /\ ServerLevels(side) \in Levels
         /\ Listed(ServerLevels(side)) \subseteq Nat /\ Listed(ServerLevels(side)) \subseteq Prices
         /\ IsFiniteSet(Listed(ServerLevels(side)))
         /\ Cardinality(Listed(ServerLevels(side))) \in Nat
<1>1. PICK n \in Nat : n = Len(stream) /\ AreEvents(stream, n)
  BY StreamIsEvents DEF IInv, StreamInv
<1>2. n \in 0..n
  OBVIOUS
<1>3. ServerLevels(side) \in Levels
  BY <1>1, <1>2, LevelsToldAre DEF ServerLevels
<1>4. IsFiniteSet(Listed(ServerLevels(side)))
  BY <1>1, <1>2, ListedFinite DEF ServerLevels
<1>5. Listed(ServerLevels(side)) \subseteq Prices
  BY DEF Listed
<1>6. Listed(ServerLevels(side)) \subseteq Nat
  BY <1>5, ProviderConstants DEF ProviderConstants
<1> QED BY <1>3, <1>4, <1>5, <1>6, FS_CardinalityType

LEMMA ServerItemsAre ==
  ASSUME IInv, NEW side \in Sides, NEW n, n = Cardinality(Listed(ServerLevels(side)))
  PROVE  /\ n \in Nat /\ Len(ServerItems(side)) = n /\ DOMAIN ServerItems(side) = 1..n
         /\ \A k \in 1..n :
              ServerItems(side)[IF side = "asks" THEN k ELSE n + 1 - k] =
                [price |-> ServerPrice(side, k), quantity |-> ServerLevels(side)[ServerPrice(side, k)]]
         /\ \A k \in 1..n :
              Increasing(side, ServerItems(side))[k] =
                [price |-> ServerPrice(side, k), quantity |-> ServerLevels(side)[ServerPrice(side, k)]]
<1>1. n \in Nat
  BY ServerLevelsAre
<1> DEFINE Place(k) == IF side = "asks" THEN k ELSE n + 1 - k
           Item(k) == [price |-> ServerPrice(side, k), quantity |-> ServerLevels(side)[ServerPrice(side, k)]]
<1>2. ServerItems(side) = [k \in 1..n |-> Item(Place(k))]
  BY DEF ServerItems, ServerLevels, ServerPrice
<1>3. \A k \in 1..n : Place(k) \in 1..n /\ Place(Place(k)) = k
  BY <1>1
<1> HIDE DEF Item
<1>4. Len(ServerItems(side)) = n /\ DOMAIN ServerItems(side) = 1..n
  BY <1>1, <1>2
<1>5. ASSUME NEW k \in 1..n PROVE ServerItems(side)[Place(k)] = Item(k)
  BY <1>2, <1>3
<1>6. ASSUME NEW k \in 1..n PROVE Increasing(side, ServerItems(side))[k] = Item(k)
  <2>1. CASE side = "asks"
    BY <1>5, <2>1 DEF Increasing
  <2>2. CASE side # "asks"
    <3>1. Reverse(ServerItems(side))[k] = ServerItems(side)[(n - k) + 1]
      BY <1>4 DEF Reverse
    <3>2. (n - k) + 1 = Place(k)
      BY <1>1, <2>2
    <3> QED BY <1>5, <2>2, <3>1, <3>2 DEF Increasing
  <2> QED BY <2>1, <2>2
<1> QED BY <1>1, <1>4, <1>5, <1>6 DEF Item

LEMMA ServerClimbs ==
  ASSUME IInv, NEW side \in Sides, NEW n, n = Cardinality(Listed(ServerLevels(side)))
  PROVE  /\ Climbs(Increasing(side, ServerItems(side)), n)
         /\ \A k \in 1..n : /\ ServerPrice(side, k) \in Prices
                            /\ Increasing(side, ServerItems(side))[k].quantity # 0
<1>1. PICK K : K = Listed(ServerLevels(side)) /\ IsFiniteSet(K) /\ K \subseteq Nat /\ K \subseteq Prices
  BY ServerLevelsAre
<1>2. n \in Nat /\ n = Cardinality(K)
  BY <1>1, ServerLevelsAre
<1>3. PICK levels \in Levels : levels = ServerLevels(side)
  BY ServerLevelsAre
<1>4. \A k \in 1..n : ServerPrice(side, k) \in K
  <2>1. \A k \in 1..n : Nth(K, k) \in K
    BY <1>1, <1>2, NthIs
  <2> QED BY <1>1, <2>1 DEF ServerPrice
<1>5. \A k \in 1..n : \A j \in 1..n : j < k => ServerPrice(side, j) < ServerPrice(side, k)
  <2>1. \A k \in 1..n : \A j \in 1..n : j < k => Nth(K, j) < Nth(K, k)
    BY <1>1, <1>2, NthOrder
  <2> QED BY <1>1, <2>1 DEF ServerPrice
<1>6. \A price \in K : levels[price] \in Nat /\ levels[price] # 0
  BY <1>1, <1>3, ProviderConstants DEF Listed, Levels, ProviderConstants
<1>7. \A k \in 1..n :
        Increasing(side, ServerItems(side))[k] =
          [price |-> ServerPrice(side, k), quantity |-> levels[ServerPrice(side, k)]]
  BY <1>3, ServerItemsAre
<1>8. \A k \in 1..n : /\ Increasing(side, ServerItems(side))[k].price = ServerPrice(side, k)
                      /\ Increasing(side, ServerItems(side))[k].quantity = levels[ServerPrice(side, k)]
  <2> SUFFICES ASSUME NEW k \in 1..n
               PROVE  /\ Increasing(side, ServerItems(side))[k].price = ServerPrice(side, k)
                      /\ Increasing(side, ServerItems(side))[k].quantity = levels[ServerPrice(side, k)]
    OBVIOUS
  <2>1. PICK item : item = Increasing(side, ServerItems(side))[k]
    OBVIOUS
  <2>2. item = [price |-> ServerPrice(side, k), quantity |-> levels[ServerPrice(side, k)]]
    BY <1>7, <2>1
  <2>3. item.price = ServerPrice(side, k) /\ item.quantity = levels[ServerPrice(side, k)]
    BY <2>2
  <2> QED BY <2>1, <2>3
<1>9. ASSUME NEW k \in 1..n
      PROVE  /\ Increasing(side, ServerItems(side))[k].price \in Nat
             /\ Increasing(side, ServerItems(side))[k].quantity \in Nat
             /\ Increasing(side, ServerItems(side))[k].quantity # 0
             /\ ServerPrice(side, k) \in Prices
  BY <1>1, <1>4, <1>6, <1>8
<1>10. ASSUME NEW k \in 1..n, NEW j \in 1..n, j < k
       PROVE  Increasing(side, ServerItems(side))[j].price < Increasing(side, ServerItems(side))[k].price
  BY <1>5, <1>8, <1>10
<1> QED BY <1>9, <1>10 DEF Climbs

\* The local list: the items of the book, each at one price.
LEMMA LocalClimbs ==
  ASSUME NEW side \in Sides, NEW items \in Seq(Level), Ordered(side, items),
         NEW n \in Nat, Len(items) = n
  PROVE  /\ Len(Increasing(side, items)) = n
         /\ Climbs(Increasing(side, items), n)
         /\ \A k \in 1..n : \E j \in 1..n : Increasing(side, items)[k] = items[j]
         /\ \A j \in 1..n : \E k \in 1..n : Increasing(side, items)[k] = items[j]
<1>1. n \in Nat /\ DOMAIN items = 1..n
  OBVIOUS
<1>2. \A k \in 1..n : items[k].price \in Nat /\ items[k].quantity \in Nat
  BY LevelFields, ProviderConstants DEF ProviderConstants
<1>3. \A k \in 1..n : \A j \in 1..n : j < k => Precedes(side, items[j].price, items[k].price)
  <2> SUFFICES ASSUME NEW k \in 1..n, NEW j \in 1..n, j < k
               PROVE  Precedes(side, items[j].price, items[k].price)
    OBVIOUS
  <2>1. j \in 1..(k - 1)
    BY <1>1
  <2> QED BY <1>1, <2>1 DEF Ordered
<1>4. CASE side = "asks"
  <2>1. Increasing(side, items) = items
    BY <1>4 DEF Increasing
  <2>2. Climbs(items, n)
    BY <1>2, <1>3, <1>4 DEF Climbs, Precedes
  <2> QED BY <1>1, <2>1, <2>2
<1>5. CASE side # "asks"
  <2> DEFINE copy == [k \in 1..n |-> items[(n - k) + 1]]
  <2>1. Increasing(side, items) = copy
    BY <1>5 DEF Increasing, Reverse
  <2>2. \A k \in 1..n : (n - k) + 1 \in 1..n /\ (n - ((n - k) + 1)) + 1 = k
    BY <1>1
  <2>3. Len(copy) = n /\ \A k \in 1..n : copy[k] = items[(n - k) + 1]
    BY <1>1
  <2> HIDE DEF copy
  <2>4. Climbs(copy, n)
    <3>1. \A k \in 1..n : copy[k].price \in Nat /\ copy[k].quantity \in Nat
      BY <1>2, <2>2, <2>3
    <3>2. ASSUME NEW k \in 1..n, NEW j \in 1..n, j < k PROVE copy[j].price < copy[k].price
      <4>1. (n - j) + 1 \in 1..n /\ (n - k) + 1 \in 1..n
        BY <2>2
      <4>2. (n - k) + 1 < (n - j) + 1
        BY <1>1, <3>2
      <4>3. PICK a \in 1..n, b \in 1..n : a = (n - j) + 1 /\ b = (n - k) + 1 /\ b < a
        BY <4>1, <4>2
      <4>4. Precedes(side, items[b].price, items[a].price)
        BY <1>3, <4>3
      <4>5. items[a].price < items[b].price
        BY <1>2, <1>5, <4>4 DEF Precedes
      <4> QED BY <2>3, <4>3, <4>5
    <3> QED BY <3>1, <3>2 DEF Climbs
  <2>5. \A k \in 1..n : \E j \in 1..n : copy[k] = items[j]
    BY <2>2, <2>3
  <2>6. \A j \in 1..n : \E k \in 1..n : copy[k] = items[j]
    <3> SUFFICES ASSUME NEW j \in 1..n PROVE \E k \in 1..n : copy[k] = items[j]
      OBVIOUS
    <3>1. PICK k \in 1..n : k = (n - j) + 1 /\ (n - k) + 1 = j
      BY <2>2
    <3> QED BY <2>3, <3>1
  <2> QED BY <1>1, <2>1, <2>3, <2>4, <2>5, <2>6
<1> QED BY <1>4, <1>5

-----------------------------------------------------------------------------
(* The walk along the two lists.                                           *)

\* The walk stops at the first item, from the j-th on, that is not below.
LEMMA StopIs ==
  ASSUME NEW loc, NEW n \in Nat, Len(loc) = n, \A k \in 1..n : loc[k].price \in Nat,
         NEW j \in Nat \ {0}, NEW price \in Nat
  PROVE  /\ StopAt(loc, j, price) \in 1..(n + 1)
         /\ StopAt(loc, j, price) # n + 1 => ~(loc[StopAt(loc, j, price)].price < price)
         /\ \A k \in j..n : k < StopAt(loc, j, price) => loc[k].price < price
<1> DEFINE T == {k \in j..n : loc[k].price >= price} \cup {n + 1}
<1>1. T \subseteq 1..(n + 1) /\ T \subseteq Nat /\ T # {} /\ n + 1 \in T
  OBVIOUS
<1>2. \A k \in 1..n : ~(loc[k].price >= price) => loc[k].price < price
  OBVIOUS
<1>3. \A k \in T : k # n + 1 => ~(loc[k].price < price)
  OBVIOUS
<1>4. ASSUME NEW k \in j..n, k \notin T PROVE loc[k].price < price
  BY <1>2, <1>4
<1>5. \A k \in j..n : k \in Nat
  OBVIOUS
<1>6. StopAt(loc, j, price) = CHOOSE x \in T : \A y \in T : x <= y
  BY DEF StopAt, Min
<1> HIDE DEF T
<1>7. PICK x \in T : \A y \in T : ~(y < x)
  BY <1>1, Least
<1>8. \A y \in T : x <= y
  <2> SUFFICES ASSUME NEW y \in T PROVE x <= y
    OBVIOUS
  <2>1. ~(y < x) /\ x \in Nat /\ y \in Nat
    BY <1>1, <1>7
  <2> QED BY <2>1
<1>9. PICK s : s = StopAt(loc, j, price)
  OBVIOUS
<1>10. s \in T /\ \A y \in T : s <= y
  BY <1>6, <1>8, <1>9
<1>11. ASSUME NEW k \in j..n, k < s PROVE loc[k].price < price
  <2>1. k \notin T
    <3>1. s \in Nat /\ k \in Nat
      BY <1>1, <1>5, <1>10
    <3> QED BY <1>10, <1>11, <3>1
  <2> QED BY <1>4, <2>1
<1> QED BY <1>1, <1>3, <1>9, <1>10, <1>11

\* If all items before the j-th are below, the items before the stop are those
\* below.
LEMMA StopSplits ==
  ASSUME NEW loc, NEW n \in Nat, Len(loc) = n, Climbs(loc, n),
         NEW j \in Nat \ {0}, NEW price \in Nat, \A k \in 1..n : k < j => loc[k].price < price
  PROVE  \A k \in 1..n : k < StopAt(loc, j, price) <=> loc[k].price < price
<1>1. /\ \A k \in 1..n : loc[k].price \in Nat
      /\ \A k \in 1..n : \A i \in 1..n : i < k => loc[i].price < loc[k].price
  BY DEF Climbs
<1>2. PICK s : s = StopAt(loc, j, price)
  OBVIOUS
<1>3. /\ s \in 1..(n + 1) /\ (s # n + 1 => ~(loc[s].price < price))
      /\ \A k \in j..n : k < s => loc[k].price < price
  BY <1>1, <1>2, StopIs
<1>4. ASSUME NEW k \in 1..n, k < s PROVE loc[k].price < price
  <2>1. CASE k < j
    BY <2>1
  <2>2. CASE ~(k < j)
    <3>1. k \in j..n
      BY <2>2
    <3> QED BY <1>3, <1>4, <3>1
  <2> QED BY <2>1, <2>2
<1>5. ASSUME NEW k \in 1..n, ~(k < s) PROVE ~(loc[k].price < price)
  <2>1. s \in 1..n /\ (s = k \/ s < k)
    BY <1>3, <1>5
  <2>2. ~(loc[s].price < price)
    BY <1>3, <2>1
  <2>3. s < k => loc[s].price < loc[k].price
    BY <1>1, <2>1
  <2>4. loc[s].price \in Nat /\ loc[k].price \in Nat
    BY <1>1, <2>1
  <2> QED BY <2>1, <2>2, <2>3, <2>4
<1> QED BY <1>2, <1>4, <1>5

\* What the walk takes for the local quantity where it stops.
Known(loc, s, price) == IF s <= Len(loc) /\ loc[s].price = price THEN loc[s].quantity ELSE 0

LEMMA KnownType ==
  ASSUME NEW loc, NEW n \in Nat, Len(loc) = n, Climbs(loc, n), NEW s \in 1..(n + 1), NEW price
  PROVE  Known(loc, s, price) \in Nat
<1>1. CASE s = n + 1
  BY <1>1 DEF Known
<1>2. CASE s # n + 1
  <2>1. s \in 1..n
    BY <1>2
  <2>2. loc[s].quantity \in Nat
    BY <2>1 DEF Climbs
  <2> QED BY <2>2 DEF Known
<1> QED BY <1>1, <1>2

\* Where the items below end is the item of a price, if there is one.
LEMMA KnownIs ==
  ASSUME IInv, NEW side \in Sides, NEW loc, loc = Increasing(side, Items(side)),
         NEW s \in 1..(Len(loc) + 1), NEW price \in Nat,
         \A k \in 1..Len(loc) : k < s <=> loc[k].price < price
  PROVE  Known(loc, s, price) = LocalQuantity(side, price)
<1>1. PICK items : items = Items(side) /\ items \in Seq(Level) /\ Ordered(side, items)
  <2>1. Ordered(side, Items(side)) /\ Items(side) \in Seq(Level)
    BY DEF IInv, BookInv, Books, Items, Sides
  <2> QED BY <2>1
<1>2. PICK n \in Nat : n = Len(items)
  BY <1>1
<1>3. /\ Len(loc) = n /\ Climbs(loc, n)
      /\ \A k \in 1..n : \E j \in 1..n : loc[k] = items[j]
      /\ \A j \in 1..n : \E k \in 1..n : loc[k] = items[j]
  <2>1. loc = Increasing(side, items)
    BY <1>1
  <2>2. /\ Len(Increasing(side, items)) = n /\ Climbs(Increasing(side, items), n)
        /\ \A k \in 1..n : \E j \in 1..n : Increasing(side, items)[k] = items[j]
        /\ \A j \in 1..n : \E k \in 1..n : Increasing(side, items)[k] = items[j]
    <3>1. items \in Seq(Level) /\ Ordered(side, items) /\ Len(items) = n
      BY <1>1, <1>2
    <3> QED BY <3>1, LocalClimbs
  <2> QED BY <2>1, <2>2
<1>4. n \in Nat /\ s \in 1..(n + 1) /\ \A k \in 1..n : k < s <=> loc[k].price < price
  BY <1>1, <1>2, <1>3
<1>5. /\ \A k \in 1..n : loc[k].price \in Nat
      /\ \A k \in 1..n : \A i \in 1..n : i < k => loc[i].price < loc[k].price
  BY <1>3 DEF Climbs
<1> DEFINE known == {item \in ToSet(items) : item.price = price}
<1>6. LocalQuantity(side, price) = IF known = {} THEN 0 ELSE (CHOOSE item \in known : TRUE).quantity
  BY <1>1 DEF LocalQuantity
<1>7. ASSUME NEW item \in known PROVE \E k \in 1..n : loc[k] = item /\ loc[k].price = price
  <2>1. PICK j \in 1..n : item = items[j]
    BY <1>1, <1>2 DEF ToSet
  <2>2. PICK k \in 1..n : loc[k] = items[j]
    BY <1>3
  <2> QED BY <2>1, <2>2
<1>8. ASSUME NEW k \in 1..n, loc[k].price = price PROVE loc[k] \in known
  <2>1. PICK j \in 1..n : loc[k] = items[j]
    BY <1>3
  <2>2. loc[k] \in ToSet(items)
    BY <1>1, <1>2, <2>1 DEF ToSet
  <2> QED BY <1>8, <2>2
<1> HIDE DEF known
<1>9. ASSUME NEW k \in 1..n, loc[k].price = price PROVE k = s
  <2>1. ~(k < s)
    BY <1>4, <1>9
  <2>2. s \in 1..n /\ (s = k \/ s < k)
    BY <1>4, <2>1
  <2>3. s < k => loc[s].price < price
    BY <1>5, <1>9, <2>2
  <2>4. ~(loc[s].price < price)
    BY <1>4, <2>2
  <2> QED BY <2>2, <2>3, <2>4
<1>10. CASE known = {}
  <2>1. \A k \in 1..n : loc[k].price # price
    BY <1>8, <1>10
  <2>2. ~(s <= n /\ loc[s].price = price)
    <3>1. s <= n => s \in 1..n
      BY <1>4
    <3> QED BY <2>1, <3>1
  <2> QED BY <1>3, <1>6, <1>10, <2>2 DEF Known
<1>11. CASE known # {}
  <2>1. PICK item : item = (CHOOSE x \in known : TRUE) /\ item \in known
    BY <1>11
  <2>2. PICK k \in 1..n : loc[k] = item /\ loc[k].price = price
    BY <1>7, <2>1
  <2>3. k = s /\ s <= n
    BY <1>9, <2>2
  <2>4. Known(loc, s, price) = item.quantity
    BY <1>3, <2>2, <2>3 DEF Known
  <2> QED BY <1>6, <1>11, <2>1, <2>4
<1> QED BY <1>10, <1>11
\* Where the walk is, and what it has added up.
Walks(n) == [j : 1..(n + 1), dot : Nat, server : Nat, local : Nat]

Start == [j |-> 1, dot |-> 0, server |-> 0, local |-> 0]

LEMMA NatProduct ==
  ASSUME NEW a \in Nat, NEW b \in Nat
  PROVE  a * b \in Nat
OBVIOUS

\* What a turn makes of the walk that stops at s.
Turned(loc, n, walk, item, s) ==
  LET q == Known(loc, s, item.price)
      next == Compare(loc, walk, item)
  IN  /\ s \in 1..(n + 1) /\ q \in Nat
      /\ next \in Walks(n) /\ next.j = s
      /\ next.dot = walk.dot + q * item.quantity
      /\ next.server = walk.server + item.quantity * item.quantity
      /\ next.local = walk.local + q * q

\* One turn of the walk.
LEMMA CompareIs ==
  ASSUME NEW loc, NEW n \in Nat, Len(loc) = n, Climbs(loc, n), NEW walk \in Walks(n),
         NEW item, item.price \in Nat, item.quantity \in Nat
  PROVE  Turned(loc, n, walk, item, StopAt(loc, walk.j, item.price))
<1>1. PICK s : s = StopAt(loc, walk.j, item.price)
  OBVIOUS
<1>2. PICK q : q = Known(loc, s, item.price)
  OBVIOUS
<1>3. /\ walk.j \in Nat \ {0} /\ walk.dot \in Nat /\ walk.server \in Nat /\ walk.local \in Nat
  BY DEF Walks
<1>4. \A k \in 1..n : loc[k].price \in Nat
  BY DEF Climbs
<1>5. s \in 1..(n + 1)
  BY <1>3, <1>4, <1>1, StopIs
<1>6. q \in Nat
  BY <1>5, <1>2, KnownType
<1>7. PICK a \in Nat, b \in Nat, c \in Nat :
        a = q * item.quantity /\ b = item.quantity * item.quantity /\ c = q * q
  BY <1>6, NatProduct
<1>8. Compare(loc, walk, item) = [j |-> s, dot |-> walk.dot + a,
                                  server |-> walk.server + b, local |-> walk.local + c]
  BY <1>7, <1>1, <1>2 DEF Compare, Known
<1>9. walk.dot + a \in Nat /\ walk.server + b \in Nat /\ walk.local + c \in Nat
  <2>1. \A x \in Nat : \A y \in Nat : x + y \in Nat
    OBVIOUS
  <2> QED BY <1>3, <2>1
<1>10. Compare(loc, walk, item) \in Walks(n)
  BY <1>5, <1>8, <1>9 DEF Walks
<1>11. /\ Compare(loc, walk, item).j = s /\ Compare(loc, walk, item).dot = walk.dot + a
      /\ Compare(loc, walk, item).server = walk.server + b
      /\ Compare(loc, walk, item).local = walk.local + c
  BY <1>8
<1>12. Turned(loc, n, walk, item, s)
  BY <1>5, <1>6, <1>7, <1>10, <1>11, <1>2 DEF Turned
<1> QED BY <1>12, <1>1

\* W are the turns of the walk along the first m items of the server's.
Turns(W, loc, n, srv, m) ==
  /\ W \in [0..m -> Walks(n)]
  /\ W[0] = Start
  /\ \A i \in 1..m : W[i] = Compare(loc, W[i - 1], srv[i])

LEMMA WalkIs ==
  ASSUME NEW side, NEW local_items, NEW server_items, NEW m \in Nat, NEW n \in Nat,
         NEW loc, loc = Increasing(side, local_items), Len(loc) = n, Climbs(loc, n),
         NEW srv, srv = Increasing(side, server_items), Climbs(srv, m)
  PROVE  \E W : /\ Turns(W, loc, n, srv, m)
                /\ EstimateOrderBookItemsLevels(side, local_items, server_items, m) = W[m]
<1>1. Start \in Walks(n)
  BY DEF Start, Walks
<1>2. ASSUME NEW i \in 1..m, NEW walk \in Walks(n) PROVE Compare(loc, walk, srv[i]) \in Walks(n)
  <2>1. srv[i].price \in Nat /\ srv[i].quantity \in Nat
    BY DEF Climbs
  <2> QED BY <2>1, CompareIs DEF Turned
<1> DEFINE Step == [i \in 1..m |-> [walk \in Walks(n) |-> Compare(loc, walk, srv[i])]]
           Goes(f) == f = [i \in 0..m |-> IF i = 0 THEN [j |-> 1, dot |-> 0, server |-> 0, local |-> 0]
                                          ELSE Compare(loc, f[i - 1], srv[i])]
           walked == CHOOSE f : Goes(f)
<1>3. Step \in [1..m -> [Walks(n) -> Walks(n)]]
  BY <1>2
<1>4. ASSUME NEW i \in 1..m, NEW walk \in Walks(n)
      PROVE  Step[i][walk] = Compare(loc, walk, srv[i])
  OBVIOUS
<1> HIDE DEF Step
<1>5. PICK F \in [0..m -> Walks(n)] : Recurs(F, m, Start, Step)
  BY <1>1, <1>3, Recursion
<1>6. ASSUME NEW i \in 1..m PROVE F[i] = Compare(loc, F[i - 1], srv[i])
  <2>1. i - 1 \in 0..m
    OBVIOUS
  <2>2. F[i - 1] \in Walks(n)
    BY <2>1
  <2> QED BY <1>4, <1>5, <2>2 DEF Recurs
<1>7. F[0] = Start
  BY <1>5 DEF Recurs
<1>8. Goes(F)
  <2>1. \A i \in 0..m : F[i] = IF i = 0 THEN [j |-> 1, dot |-> 0, server |-> 0, local |-> 0]
                               ELSE Compare(loc, F[i - 1], srv[i])
    <3> SUFFICES ASSUME NEW i \in 0..m
                 PROVE  F[i] = IF i = 0 THEN [j |-> 1, dot |-> 0, server |-> 0, local |-> 0]
                               ELSE Compare(loc, F[i - 1], srv[i])
      OBVIOUS
    <3>1. CASE i = 0
      BY <1>7, <3>1 DEF Start
    <3>2. CASE i # 0
      <4>1. i \in 1..m
        BY <3>2
      <4> QED BY <1>6, <3>2, <4>1
    <3> QED BY <3>1, <3>2
  <2>2. F = [i \in 0..m |-> F[i]]
    OBVIOUS
  <2> QED BY <2>1, <2>2
<1>9. Goes(walked)
  <2> HIDE DEF Goes
  <2> QED BY <1>8
<1>10. EstimateOrderBookItemsLevels(side, local_items, server_items, m) = walked[m]
  BY DEF EstimateOrderBookItemsLevels
<1> HIDE DEF walked
<1>11. walked[0] = Start
  BY <1>9 DEF Start
<1>12. ASSUME NEW i \in 1..m PROVE walked[i] = Compare(loc, walked[i - 1], srv[i])
  <2>1. i \in 0..m /\ i # 0
    OBVIOUS
  <2> QED BY <1>9, <2>1
<1> HIDE DEF Goes
<1> DEFINE P == {i \in 0..m : walked[i] = F[i]}
<1>13. 0 \in P
  BY <1>7, <1>11
<1>14. ASSUME NEW i \in 1..m, i - 1 \in P PROVE i \in P
  BY <1>6, <1>12, <1>14
<1>15. \A i \in 0..m : i \in P
  <2> HIDE DEF P
  <2> QED BY <1>13, <1>14, Upward
<1>16. walked[m] = F[m]
  BY <1>15
<1>17. Turns(F, loc, n, srv, m)
  BY <1>6, <1>7 DEF Turns
<1> QED BY <1>10, <1>16, <1>17
\* Each turn leaves behind exactly the local items below the server's, ...
LEMMA WalkSplits ==
  ASSUME NEW loc, NEW n \in Nat, Len(loc) = n, Climbs(loc, n), NEW m \in Nat, NEW srv, Climbs(srv, m),
         NEW W, Turns(W, loc, n, srv, m)
  PROVE  \A i \in 1..m : \A k \in 1..n :
           k < StopAt(loc, W[i - 1].j, srv[i].price) <=> loc[k].price < srv[i].price
<1>1. /\ \A i \in 1..m : srv[i].price \in Nat /\ srv[i].quantity \in Nat
      /\ \A i \in 1..m : \A k \in 1..m : k < i => srv[k].price < srv[i].price
      /\ \A k \in 1..n : loc[k].price \in Nat
  BY DEF Climbs
<1>2. W[0].j = 1
  BY DEF Turns, Start
<1>3. \A i \in 0..m : W[i] \in Walks(n)
  BY DEF Turns
<1>4. ASSUME NEW i \in 1..m
      PROVE  /\ i - 1 \in 0..m /\ W[i - 1] \in Walks(n) /\ W[i - 1].j \in Nat \ {0}
             /\ W[i].j = StopAt(loc, W[i - 1].j, srv[i].price)
  <2>1. i - 1 \in 0..m
    OBVIOUS
  <2>2. W[i - 1] \in Walks(n)
    BY <1>3, <2>1
  <2>3. W[i - 1].j \in Nat \ {0}
    BY <2>2 DEF Walks
  <2>4. Compare(loc, W[i - 1], srv[i]).j = StopAt(loc, W[i - 1].j, srv[i].price)
    <3>1. PICK walk \in Walks(n) : walk = W[i - 1]
      BY <2>2
    <3>2. PICK item : item = srv[i] /\ item.price \in Nat /\ item.quantity \in Nat
      BY <1>1
    <3>3. Turned(loc, n, walk, item, StopAt(loc, walk.j, item.price))
      BY <3>2, CompareIs
    <3> QED BY <3>1, <3>2, <3>3 DEF Turned
  <2>5. W[i] = Compare(loc, W[i - 1], srv[i])
    BY DEF Turns
  <2> QED BY <2>1, <2>2, <2>3, <2>4, <2>5
<1> DEFINE Splits(i) == \A k \in 1..n : k < W[i].j <=> loc[k].price < srv[i].price
           P == {i \in 0..m : i # 0 => Splits(i)}
<1>5. 0 \in P
  OBVIOUS
<1>6. ASSUME NEW i \in 1..m, i - 1 \in P PROVE Splits(i)
  <2>1. ASSUME NEW k \in 1..n, k < W[i - 1].j PROVE loc[k].price < srv[i].price
    <3>1. i # 1
      <4> SUFFICES ASSUME i = 1 PROVE FALSE
        OBVIOUS
      <4>1. W[i - 1].j = 1
        BY <1>2
      <4> QED BY <2>1, <4>1
    <3>2. i - 1 \in 1..m /\ i - 1 < i
      BY <3>1
    <3>3. Splits(i - 1)
      BY <1>6, <3>2
    <3>4. loc[k].price < srv[i - 1].price
      BY <2>1, <3>3
    <3>5. srv[i - 1].price < srv[i].price
      BY <1>1, <3>2
    <3>6. loc[k].price \in Nat /\ srv[i - 1].price \in Nat /\ srv[i].price \in Nat
      BY <1>1, <3>2
    <3> QED BY <3>4, <3>5, <3>6
  <2>2. PICK j \in Nat \ {0} : j = W[i - 1].j
    BY <1>4
  <2>3. PICK price \in Nat : price = srv[i].price
    BY <1>1
  <2>4. \A k \in 1..n : k < j => loc[k].price < price
    BY <2>1, <2>2, <2>3
  <2>5. \A k \in 1..n : k < StopAt(loc, j, price) <=> loc[k].price < price
    BY <2>4, StopSplits
  <2> QED BY <1>4, <2>2, <2>3, <2>5
<1>7. ASSUME NEW i \in 1..m, i - 1 \in P PROVE i \in P
  <2> HIDE DEF Splits
  <2> QED BY <1>6, <1>7
<1>8. \A i \in 0..m : i \in P
  <2> HIDE DEF P
  <2> QED BY <1>5, <1>7, Upward
<1>9. ASSUME NEW i \in 1..m PROVE Splits(i)
  <2>1. i \in 0..m /\ i # 0
    OBVIOUS
  <2> HIDE DEF Splits
  <2> QED BY <1>8, <2>1
<1> QED BY <1>4, <1>9

\* ... so it adds the product and the squares of the two books' quantities.
LEMMA WalkAdds ==
  ASSUME IInv, NEW side \in Sides, NEW n \in Nat, NEW loc, loc = Increasing(side, Items(side)),
         Len(loc) = n, Climbs(loc, n), NEW m \in Nat, NEW srv, Climbs(srv, m),
         NEW W, Turns(W, loc, n, srv, m), NEW i \in 1..m, NEW q, q = LocalQuantity(side, srv[i].price)
  PROVE  /\ q \in Nat /\ srv[i].quantity \in Nat
         /\ W[i].dot = W[i - 1].dot + q * srv[i].quantity
         /\ W[i].server = W[i - 1].server + srv[i].quantity * srv[i].quantity
         /\ W[i].local = W[i - 1].local + q * q
<1>1. srv[i].price \in Nat /\ srv[i].quantity \in Nat
  BY DEF Climbs
<1>2. PICK walk \in Walks(n) : walk = W[i - 1]
  <2>1. i - 1 \in 0..m
    OBVIOUS
  <2> QED BY <2>1 DEF Turns
<1>3. PICK item : item = srv[i]
  OBVIOUS
<1>4. W[i] = Compare(loc, walk, item)
  BY <1>2, <1>3 DEF Turns
<1>5. PICK s : s = StopAt(loc, walk.j, item.price)
  OBVIOUS
<1>6. \A k \in 1..n : k < s <=> loc[k].price < item.price
  BY <1>2, <1>3, <1>5, WalkSplits
<1>7. PICK known : known = Known(loc, s, item.price)
  OBVIOUS
<1>8. /\ s \in 1..(n + 1) /\ known \in Nat
      /\ Compare(loc, walk, item).dot = walk.dot + known * item.quantity
      /\ Compare(loc, walk, item).server = walk.server + item.quantity * item.quantity
      /\ Compare(loc, walk, item).local = walk.local + known * known
  <2>1. item.price \in Nat /\ item.quantity \in Nat
    BY <1>1, <1>3
  <2>2. Turned(loc, n, walk, item, s)
    BY <1>5, <2>1, CompareIs
  <2> QED BY <1>7, <2>2 DEF Turned
<1>9. known = q
  <2>1. s \in 1..(Len(loc) + 1) /\ \A k \in 1..Len(loc) : k < s <=> loc[k].price < item.price
    BY <1>6, <1>8
  <2>2. Known(loc, s, item.price) = LocalQuantity(side, item.price)
    BY <1>1, <1>3, <2>1, KnownIs
  <2> QED BY <1>3, <1>7, <2>2
<1> QED BY <1>1, <1>2, <1>3, <1>4, <1>8, <1>9
\* What the walk has added up at its end are the sums over the m items.
LEMMA SumsAre ==
  ASSUME IInv, NEW side \in Sides, NEW n \in Nat, NEW loc, loc = Increasing(side, Items(side)),
         Len(loc) = n, Climbs(loc, n), NEW m \in Nat, NEW srv, Climbs(srv, m),
         NEW W, Turns(W, loc, n, srv, m),
         NEW dots, dots = [i \in 1..m |-> LocalQuantity(side, srv[i].price) * srv[i].quantity],
         NEW squares, squares = [i \in 1..m |-> LocalQuantity(side, srv[i].price)
                                                  * LocalQuantity(side, srv[i].price)]
  PROVE  /\ dots \in [1..m -> Int] /\ Total(dots) = W[m].dot
         /\ squares \in [1..m -> Int] /\ Total(squares) = W[m].local
<1>1. ASSUME NEW i \in 1..m
      PROVE  /\ dots[i] \in Nat /\ squares[i] \in Nat
             /\ W[i].dot = W[i - 1].dot + dots[i] /\ W[i].local = W[i - 1].local + squares[i]
  <2>1. PICK q : q = LocalQuantity(side, srv[i].price)
    OBVIOUS
  <2>2. /\ q \in Nat /\ srv[i].quantity \in Nat
        /\ W[i].dot = W[i - 1].dot + q * srv[i].quantity
        /\ W[i].local = W[i - 1].local + q * q
    BY <2>1, WalkAdds
  <2>3. dots[i] = q * srv[i].quantity /\ squares[i] = q * q
    BY <2>1
  <2>4. q * srv[i].quantity \in Nat /\ q * q \in Nat
    BY <2>2, NatProduct
  <2> QED BY <2>2, <2>3, <2>4
<1>2. /\ \A i \in 0..m : W[i].dot \in Nat /\ W[i].local \in Nat
      /\ W[0].dot = 0 /\ W[0].local = 0
  <2>1. \A i \in 0..m : W[i] \in Walks(n)
    BY DEF Turns
  <2>2. \A i \in 0..m : W[i].dot \in Nat /\ W[i].local \in Nat
    BY <2>1 DEF Walks
  <2>3. W[0] = Start
    BY DEF Turns
  <2> QED BY <2>2, <2>3 DEF Start
<1>3. /\ dots = [i \in 1..m |-> dots[i]] /\ dots \in [1..m -> Int]
      /\ squares = [i \in 1..m |-> squares[i]] /\ squares \in [1..m -> Int]
  <2>1. dots = [i \in 1..m |-> dots[i]] /\ squares = [i \in 1..m |-> squares[i]]
    OBVIOUS
  <2>2. \A i \in 1..m : dots[i] \in Int /\ squares[i] \in Int
    BY <1>1
  <2>3. dots \in [1..m -> Int]
    BY <2>1, <2>2
  <2>4. squares \in [1..m -> Int]
    BY <2>1, <2>2
  <2> QED BY <2>1, <2>3, <2>4
<1>4. Len(dots) = m /\ Len(squares) = m
  OBVIOUS
<1> DEFINE F == [i \in 0..m |-> W[i].dot]
           G == [i \in 0..m |-> W[i].local]
<1>5. \A i \in 1..m : i - 1 \in 0..m /\ i \in 0..m
  OBVIOUS
<1>6. AddsUp(F, m, dots)
  BY <1>1, <1>2, <1>5 DEF AddsUp
<1>7. AddsUp(G, m, squares)
  BY <1>1, <1>2, <1>5 DEF AddsUp
<1>8. F[m] = W[m].dot /\ G[m] = W[m].local
  OBVIOUS
<1> HIDE DEF F, G
<1>9. Total(dots) = F[m] /\ Total(squares) = G[m]
  BY <1>4, <1>6, <1>7, TotalIs
<1> QED BY <1>3, <1>8, <1>9

\* What the provider was told of a level is what it has, unless it has cut
\* something off.
LEMMA LocalIsTold ==
  ASSUME IInv, ~truncated, NEW side \in Sides, NEW price \in Prices, told[side][price] # 0
  PROVE  LocalQuantity(side, price) = told[side][price]
<1>1. PICK items : items = Items(side)
  OBVIOUS
<1>2. /\ \A k \in DOMAIN items : items[k].quantity = told[side][items[k].price]
      /\ \E k \in DOMAIN items : items[k].price = price
  BY <1>1 DEF IInv, BookInv, BookIsTold
<1> DEFINE known == {item \in ToSet(items) : item.price = price}
<1>3. \A item \in known : item.quantity = told[side][price]
  BY <1>2 DEF ToSet
<1>4. known # {}
  BY <1>2 DEF ToSet
<1>5. LocalQuantity(side, price) = IF known = {} THEN 0 ELSE (CHOOSE item \in known : TRUE).quantity
  BY <1>1 DEF LocalQuantity
<1> HIDE DEF known
<1>6. (CHOOSE item \in known : TRUE) \in known
  BY <1>4
<1> QED BY <1>3, <1>4, <1>5, <1>6

\* A walk along two books with the same quantities adds up the same three sums.
LEMMA WalkIsFull ==
  ASSUME IInv, NEW side \in Sides, NEW n \in Nat, NEW loc, loc = Increasing(side, Items(side)),
         Len(loc) = n, Climbs(loc, n), NEW m \in Nat \ {0}, NEW srv, Climbs(srv, m),
         NEW W, Turns(W, loc, n, srv, m),
         \A i \in 1..m : srv[i].quantity # 0 /\ LocalQuantity(side, srv[i].price) = srv[i].quantity
  PROVE  IsFull(W[m])
<1>1. \A i \in 0..m : W[i].dot \in Nat /\ W[i].local \in Nat /\ W[i].server \in Nat
  <2>1. \A i \in 0..m : W[i] \in Walks(n)
    BY DEF Turns
  <2> QED BY <2>1 DEF Walks
<1>2. W[0].dot = 0 /\ W[0].local = 0 /\ W[0].server = 0
  BY DEF Turns, Start
<1>3. ASSUME NEW i \in 1..m
      PROVE  \E d \in Nat \ {0} : /\ W[i].dot = W[i - 1].dot + d /\ W[i].local = W[i - 1].local + d
                                  /\ W[i].server = W[i - 1].server + d
  <2>1. PICK q : q = LocalQuantity(side, srv[i].price) /\ q = srv[i].quantity /\ q # 0
    OBVIOUS
  <2>2. /\ q \in Nat /\ W[i].dot = W[i - 1].dot + q * srv[i].quantity
        /\ W[i].local = W[i - 1].local + q * q
        /\ W[i].server = W[i - 1].server + srv[i].quantity * srv[i].quantity
    BY <2>1, WalkAdds
  <2>3. q * q \in Nat \ {0}
    BY <2>1, <2>2
  <2> QED BY <2>1, <2>2, <2>3
<1> DEFINE Same(i) == W[i].dot = W[i].local /\ W[i].dot = W[i].server /\ (i # 0 => W[i].dot # 0)
           P == {i \in 0..m : Same(i)}
<1>4. 0 \in P
  BY <1>2
<1>5. ASSUME NEW i \in 1..m, i - 1 \in P PROVE i \in P
  <2>1. i \in 0..m /\ i - 1 \in 0..m /\ Same(i - 1)
    BY <1>5
  <2>2. PICK a \in Nat : a = W[i - 1].dot /\ a = W[i - 1].local /\ a = W[i - 1].server
    BY <1>1, <2>1
  <2>3. PICK d \in Nat \ {0} : W[i].dot = a + d /\ W[i].local = a + d /\ W[i].server = a + d
    BY <1>3, <2>2
  <2>4. a + d # 0
    OBVIOUS
  <2>5. Same(i)
    BY <2>3, <2>4
  <2> HIDE DEF Same
  <2> QED BY <2>1, <2>5
<1>6. \A i \in 0..m : i \in P
  <2> HIDE DEF P
  <2> QED BY <1>4, <1>5, Upward
<1>7. PICK d \in Nat : d = W[m].dot /\ d = W[m].local /\ d = W[m].server /\ d # 0
  BY <1>1, <1>6
<1> QED BY <1>7 DEF IsFull
\* The items compared are those the walk goes along, for the bids backwards.
LEMMA AsksCompared ==
  ASSUME NEW server, NEW size \in Nat, Len(server) = size, NEW m \in 1..size
  PROVE  /\ DOMAIN SubSeq(server, 1, m) = 1..m
         /\ \A k \in 1..m : SubSeq(server, 1, m)[k] = server[k]
<1>1. SubSeq(server, 1, m) = [k \in 1..((m - 1) + 1) |-> server[(1 + k) - 1]]
  BY SMT
<1>2. (m - 1) + 1 = m /\ \A k \in 1..m : (1 + k) - 1 = k
  OBVIOUS
<1> QED BY <1>1, <1>2

Backward(server, last, items, m) ==
  /\ DOMAIN items = 1..m
  /\ \A k \in 1..m : items[k] = Reverse(server)[last - k]

LEMMA BidsCompared ==
  ASSUME NEW server, NEW size \in Nat, Len(server) = size, NEW m \in 1..size,
         NEW first \in Nat, first = size - m + 1, NEW last \in Nat, last = m + 1
  PROVE  Backward(server, last, SubSeq(server, first, size), m)
<1>1. SubSeq(server, first, size) = [k \in 1..m |-> server[(size - m) + k]]
  <2>1. SubSeq(server, first, size) = [k \in 1..((size - first) + 1) |-> server[(first + k) - 1]]
    BY SMT
  <2>2. (size - first) + 1 = m /\ \A k \in 1..m : (first + k) - 1 = (size - m) + k
    OBVIOUS
  <2> QED BY <2>1, <2>2
<1>2. Reverse(server) = [i \in 1..size |-> server[(size - i) + 1]]
  BY DEF Reverse
<1>3. ASSUME NEW k \in 1..m
      PROVE  SubSeq(server, first, size)[k] = Reverse(server)[last - k]
  <2>1. SubSeq(server, first, size)[k] = server[(size - m) + k]
    BY <1>1
  <2>2. PICK i \in 1..size : i = last - k /\ (size - i) + 1 = (size - m) + k
    OBVIOUS
  <2>3. Reverse(server)[i] = server[(size - i) + 1]
    BY <1>2
  <2> QED BY <2>1, <2>2, <2>3
<1>4. DOMAIN SubSeq(server, first, size) = 1..m
  BY <1>1
<1> QED BY <1>3, <1>4 DEF Backward

\* In either direction the sum is the same.
LEMMA EitherWay ==
  ASSUME NEW side \in Sides, NEW m \in Nat, NEW numbers \in [1..m -> Int],
         NEW other, other = [k \in 1..m |-> numbers[IF side = "asks" THEN k ELSE m + 1 - k]]
  PROVE  Total(other) = Total(numbers)
<1>1. CASE side = "asks"
  <2>1. other = [k \in 1..m |-> numbers[k]]
    BY <1>1
  <2>2. numbers = [k \in 1..m |-> numbers[k]]
    OBVIOUS
  <2>3. other = numbers
    BY <2>1, <2>2
  <2> QED BY <2>3
<1>2. CASE side # "asks"
  <2>1. other = [k \in 1..m |-> numbers[m + 1 - k]]
    BY <1>2
  <2>2. \A k \in 1..m : m + 1 - k \in 1..m
    OBVIOUS
  <2>3. other \in [1..m -> Int] /\ \A k \in 1..m : other[k] = numbers[m + 1 - k]
    BY <2>1, <2>2
  <2> QED BY <2>3, TotalReverse
<1> QED BY <1>1, <1>2

\* What the comparison says of a side.
Agrees(server, m, side) ==
  LET compared == IF side = "asks" THEN SubSeq(server, 1, m)
                  ELSE SubSeq(server, Len(server) - m + 1, Len(server))
      local == [k \in DOMAIN compared |-> LocalQuantity(side, compared[k].price)]
      estimate == EstimateOrderBookItemsLevels(side, Items(side), server, m)
  IN  /\ estimate.dot = Total([k \in DOMAIN local |-> local[k] * compared[k].quantity])
      /\ estimate.local = Total([k \in DOMAIN local |-> local[k] * local[k]])
      /\ handled = Len(stream) /\ ~truncated => IsFull(estimate)

LEMMA SideAgrees ==
  ASSUME IInv, ToldInv, NEW side \in Sides, NEW server, server = ServerItems(side),
         NEW m \in Nat \ {0}, m <= Len(server)
  PROVE  Agrees(server, m, side)
<1>1. PICK size : size = Len(server)
  OBVIOUS
<1>2. PICK compared : compared = IF side = "asks" THEN SubSeq(server, 1, m)
                                  ELSE SubSeq(server, size - m + 1, size)
  OBVIOUS
<1>3. PICK local : local = [k \in DOMAIN compared |-> LocalQuantity(side, compared[k].price)]
  OBVIOUS
<1>4. PICK estimate : estimate = EstimateOrderBookItemsLevels(side, Items(side), server, m)
  OBVIOUS
<1>5. PICK items : items = Items(side) /\ items \in Seq(Level) /\ Ordered(side, items)
  <2>1. Ordered(side, Items(side)) /\ Items(side) \in Seq(Level)
    BY DEF IInv, BookInv, Books, Items, Sides
  <2> QED BY <2>1
<1>6. PICK n \in Nat : Len(items) = n
  BY <1>5
<1>7. PICK loc : /\ loc = Increasing(side, items) /\ loc = Increasing(side, Items(side))
                 /\ Len(loc) = n /\ Climbs(loc, n)
  <2>1. items \in Seq(Level) /\ Ordered(side, items) /\ Len(items) = n
    BY <1>5, <1>6
  <2>2. Len(Increasing(side, items)) = n /\ Climbs(Increasing(side, items), n)
    BY <2>1, LocalClimbs
  <2> QED BY <1>5, <2>2
<1>8. PICK srv : srv = Increasing(side, server)
  OBVIOUS
<1>9. PICK N : N = Cardinality(Listed(ServerLevels(side)))
  OBVIOUS
<1>10. /\ N \in Nat /\ Len(ServerItems(side)) = N
      /\ \A k \in 1..N : Increasing(side, ServerItems(side))[k] =
           [price |-> ServerPrice(side, k), quantity |-> ServerLevels(side)[ServerPrice(side, k)]]
  BY <1>9, ServerItemsAre
<1>11. /\ Climbs(Increasing(side, ServerItems(side)), N)
      /\ \A k \in 1..N : /\ ServerPrice(side, k) \in Prices
                         /\ Increasing(side, ServerItems(side))[k].quantity # 0
  BY <1>9, ServerClimbs
<1>12. /\ size = N /\ size \in Nat /\ m \in 1..size /\ Len(server) = size
  BY <1>10, <1>1
<1>13. Climbs(srv, m)
  <2>1. Climbs(srv, N)
    BY <1>8, <1>11
  <2>2. \A k \in 1..m : k \in 1..N
    BY <1>12
  <2> QED BY <2>1, <2>2 DEF Climbs
<1>14. PICK W : Turns(W, loc, n, srv, m) /\ estimate = W[m]
  <2>1. m \in Nat
    OBVIOUS
  <2>2. \E W : /\ Turns(W, loc, n, srv, m)
               /\ EstimateOrderBookItemsLevels(side, items, server, m) = W[m]
    <3>1. loc = Increasing(side, items) /\ Len(loc) = n /\ Climbs(loc, n)
      BY <1>7
    <3>2. srv = Increasing(side, server) /\ Climbs(srv, m)
      BY <1>8, <1>13
    <3> QED BY ONLY n \in Nat, <2>1, <3>1, <3>2, WalkIs
  <2> QED BY <1>5, <1>4, <2>2
<1> DEFINE dots == [i \in 1..m |-> LocalQuantity(side, srv[i].price) * srv[i].quantity]
           squares == [i \in 1..m |-> LocalQuantity(side, srv[i].price) * LocalQuantity(side, srv[i].price)]
           Place(k) == IF side = "asks" THEN k ELSE m + 1 - k
<1>15. /\ dots \in [1..m -> Int] /\ Total(dots) = estimate.dot
       /\ squares \in [1..m -> Int] /\ Total(squares) = estimate.local
  <2>1. m \in Nat
    OBVIOUS
  <2> HIDE DEF dots, squares
  <2>2. /\ dots \in [1..m -> Int] /\ Total(dots) = W[m].dot
        /\ squares \in [1..m -> Int] /\ Total(squares) = W[m].local
    BY <1>7, <1>13, <1>14, <2>1, SumsAre DEF dots, squares
  <2> QED BY <1>14, <2>2
<1>16. DOMAIN compared = 1..m /\ \A k \in 1..m : compared[k] = srv[Place(k)]
  <2>1. size \in Nat /\ Len(server) = size /\ m \in 1..size
    BY <1>12
  <2>2. CASE side = "asks"
    <3>1. compared = SubSeq(server, 1, m) /\ srv = server
      BY <1>2, <1>8, <2>2 DEF Increasing
    <3>2. /\ DOMAIN SubSeq(server, 1, m) = 1..m
          /\ \A k \in 1..m : SubSeq(server, 1, m)[k] = server[k]
      BY ONLY <2>1, AsksCompared
    <3> QED BY <2>2, <3>1, <3>2
  <2>3. CASE side # "asks"
    <3>1. PICK first \in Nat, last \in Nat : first = size - m + 1 /\ last = m + 1
      BY <2>1
    <3>2. compared = SubSeq(server, first, size) /\ srv = Reverse(server)
      BY <1>2, <1>8, <2>3, <3>1 DEF Increasing
    <3>3. Backward(server, last, compared, m)
      BY <2>1, <3>1, <3>2, BidsCompared
    <3>4. /\ DOMAIN compared = 1..m
          /\ \A k \in 1..m : compared[k] = srv[last - k]
      BY <3>2, <3>3 DEF Backward
    <3> QED BY <2>3, <3>1, <3>4
  <2> QED BY <2>2, <2>3
<1>17. DOMAIN local = 1..m /\ \A k \in 1..m : local[k] = LocalQuantity(side, srv[Place(k)].price)
  BY <1>16, <1>3
<1>18. \A k \in 1..m : Place(k) \in 1..m
  OBVIOUS
<1>19. /\ [k \in DOMAIN local |-> local[k] * compared[k].quantity] = [k \in 1..m |-> dots[Place(k)]]
       /\ [k \in DOMAIN local |-> local[k] * local[k]] = [k \in 1..m |-> squares[Place(k)]]
  <2>1. ASSUME NEW k \in 1..m
        PROVE  local[k] * compared[k].quantity = dots[Place(k)] /\ local[k] * local[k] = squares[Place(k)]
    <3>1. PICK i \in 1..m : i = Place(k)
      BY <1>18
    <3>2. local[k] = LocalQuantity(side, srv[i].price) /\ compared[k] = srv[i]
      BY <1>16, <1>17, <3>1
    <3>3. dots[i] = LocalQuantity(side, srv[i].price) * srv[i].quantity
      OBVIOUS
    <3>4. squares[i] = LocalQuantity(side, srv[i].price) * LocalQuantity(side, srv[i].price)
      OBVIOUS
    <3> HIDE DEF dots, squares
    <3> QED BY <3>1, <3>2, <3>3, <3>4
  <2> HIDE DEF dots, squares, Place
  <2> QED BY <1>17, <2>1
<1>20. /\ Total([k \in DOMAIN local |-> local[k] * compared[k].quantity]) = Total(dots)
       /\ Total([k \in DOMAIN local |-> local[k] * local[k]]) = Total(squares)
  <2> HIDE DEF dots, squares
  <2>1. m \in Nat
    OBVIOUS
  <2>2. \A numbers \in [1..m -> Int] : \A other :
          other = [k \in 1..m |-> numbers[Place(k)]] => Total(other) = Total(numbers)
    BY ONLY side \in Sides, <2>1, EitherWay
  <2> HIDE DEF Place
  <2>3. Total([k \in 1..m |-> dots[Place(k)]]) = Total(dots)
    BY <1>15, <2>2
  <2>4. Total([k \in 1..m |-> squares[Place(k)]]) = Total(squares)
    BY <1>15, <2>2
  <2> QED BY <1>19, <2>3, <2>4
<1>21. ASSUME handled = Len(stream), ~truncated PROVE IsFull(estimate)
  <2>1. told[side] = ServerLevels(side)
    BY <1>21 DEF ToldInv, ServerLevels
  <2>2. ASSUME NEW i \in 1..m
        PROVE  srv[i].quantity # 0 /\ LocalQuantity(side, srv[i].price) = srv[i].quantity
    <3>1. i \in 1..N
      BY <1>12
    <3>2. PICK price \in Prices : price = ServerPrice(side, i)
      BY <1>11, <3>1
    <3>3. srv[i] = [price |-> price, quantity |-> told[side][price]] /\ srv[i].quantity # 0
      BY <1>8, <1>10, <1>11, <2>1, <3>1, <3>2
    <3>4. srv[i].price = price /\ srv[i].quantity = told[side][price]
      BY <3>3
    <3>5. LocalQuantity(side, price) = told[side][price]
      BY <1>21, <3>3, <3>4, LocalIsTold
    <3> QED BY <3>3, <3>4, <3>5
  <2>3. IsFull(W[m])
    BY <1>7, <1>13, <1>14, <2>2, WalkIsFull
  <2> QED BY <1>14, <2>3
<1>22. /\ estimate.dot = Total([k \in DOMAIN local |-> local[k] * compared[k].quantity])
       /\ estimate.local = Total([k \in DOMAIN local |-> local[k] * local[k]])
  BY <1>15, <1>20
<1> QED BY <1>21, <1>1, <1>2, <1>3, <1>4, <1>22 DEF Agrees

\* At any time, for all books and numbers of levels, the one walk along both
\* lists finds every common price and no other, and a book that is not behind
\* and has lost nothing compares as 100 % (benchmark_manager.cc:64-109, 114-122).
THEOREM ComparisonCorrect == Spec => []ComparisonAgrees
<1>1. IInv /\ ToldInv => ComparisonAgrees
  <2> SUFFICES ASSUME IInv, ToldInv PROVE ComparisonAgrees
    OBVIOUS
  <2> DEFINE server_ob == [bids |-> ServerItems("bids"), asks |-> ServerItems("asks")]
  <2>1. \A side \in Sides : server_ob[side] = ServerItems(side)
    BY DEF Sides
  <2>2. ASSUME NEW m \in LevelsCounts, Comparable(server_ob, m), NEW side \in Sides
        PROVE  Agrees(server_ob[side], m, side)
    <3> HIDE DEF server_ob
    <3>1. m \in Nat \ {0}
      BY ComparisonConstants DEF ComparisonConstants
    <3>2. PICK server : server = server_ob[side] /\ server = ServerItems(side) /\ m <= Len(server)
      BY <2>1, <2>2 DEF Comparable
    <3>3. Agrees(server, m, side)
      BY <3>1, <3>2, SideAgrees
    <3> QED BY <3>2, <3>3
  <2> QED BY <2>2 DEF ComparisonAgrees, Agrees
<1> QED BY <1>1, ToldFollows, PTL

=============================================================================
