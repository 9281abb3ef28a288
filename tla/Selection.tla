------------------------------ MODULE Selection ------------------------------
(***************************************************************************)
(* Loops that copy, in order, the elements that pass a test, and loops     *)
(* that add up: SelectSeq, SetToSortSeq and FoldLeft(+, 0, s) in a         *)
(* first-order form, which can be reasoned about.                          *)
(***************************************************************************)
EXTENDS Integers, Sequences, FiniteSets

\* The i-th of a set of numbers, from the least up.
Nth(numbers, i) == CHOOSE n \in numbers : Cardinality({m \in numbers : m <= n}) = i

SelectAt(s, positions) == [i \in 1..Cardinality(positions) |-> s[Nth(positions, i)]]
Select(s, Test(_)) == SelectAt(s, {k \in DOMAIN s : Test(s[k])})

Total(numbers) ==
  LET total[k \in 0..Len(numbers)] == IF k = 0 THEN 0 ELSE total[k - 1] + numbers[k]
  IN  total[Len(numbers)]

=============================================================================
