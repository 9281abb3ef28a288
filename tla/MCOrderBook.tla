----------------------------- MODULE MCOrderBook -----------------------------
(* Updates whose two sides mirror each other: whole books, and updates that   *)
(* change, add and take away levels before, at, between and after those of a *)
(* book that is full or not; the first is a book, or, for a provider that    *)
(* subscribed late, takes away levels it does not have.                      *)
EXTENDS BenchmarkManager

Asks(levels) ==
  [k \in 1..Cardinality(DOMAIN levels) |->
     [price |-> Nth(DOMAIN levels, k), quantity |-> levels[Nth(DOMAIN levels, k)]]]

Mirrored(levels) == [bids |-> Reverse(Asks(levels)), asks |-> Asks(levels)]

MCBooks == {Mirrored(1 :> 1 @@ 2 :> 1)}
MCFirstUpdates == MCBooks \cup {Mirrored(1 :> 0 @@ 3 :> 0)}
MCUpdates ==
  MCFirstUpdates \cup
  {Mirrored(1 :> 0), Mirrored(2 :> 0), Mirrored(2 :> 2), Mirrored(3 :> 1),
   Mirrored(1 :> 0 @@ 3 :> 1), Mirrored(1 :> 2 @@ 2 :> 0 @@ 3 :> 1)}
=============================================================================
