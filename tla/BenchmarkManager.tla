--------------------------- MODULE BenchmarkManager ---------------------------
(***************************************************************************)
(* analyzer::BenchmarkManager: now and then the local order book is        *)
(* compared with the one the exchange answers to a depth request.  The     *)
(* answer is as of the latest event, which the provider may not have       *)
(* handled yet.  Nothing is changed by it: these are operators on the      *)
(* provider's state.                                                       *)
(***************************************************************************)
EXTENDS OrderBookSnapshotProvider, Selection

CONSTANT LevelsCounts     \* kLevelsCounts: 50, 100, 1000 and 4000 in the code

ASSUME ComparisonConstants == LevelsCounts \subseteq Nat \ {0}

\* What the first n events tell of the levels of a side.
LevelsTold(events, side) ==
  LET levels[n \in 0..Len(events)] ==
        IF n = 0 THEN EmptySide
        ELSE IF events[n].update = NoUpdate THEN levels[n - 1]
        ELSE Tell(levels[n - 1], events[n].update[1][side])
  IN  levels

Listed(levels) == {price \in Prices : levels[price] # 0}

\* A side of the exchange's book: what the events tell, in the book's order.
ServerItems(side) ==
  LET levels == LevelsTold(stream, side)[Len(stream)]
      listed == Listed(levels)
      size == Cardinality(listed)
      price == [k \in 1..size |-> Nth(listed, IF side = "asks" THEN k ELSE size + 1 - k)]
  IN  [k \in 1..size |-> [price |-> price[k], quantity |-> levels[price[k]]]]

\* Mutant: the bids are compared as they are listed.
MutantIncreasing(side, items) == items

\* The copy the walk goes along: prices increase, the bids are reversed.
Increasing(side, items) == IF side = "asks" THEN items ELSE Reverse(items)

\* Where the walk along the local items stops for a price: at the first item,
\* from the j-th on, that is not below it.
StopAt(local_items, j, price) ==
  Min({k \in j..Len(local_items) : local_items[k].price >= price} \cup {Len(local_items) + 1})

\* One turn of the walk, for an item of the server's: the product of its
\* quantity and the local one of the same price, and the squares of both.
Compare(local, walk, item) ==
  LET j == StopAt(local, walk.j, item.price)
      known == IF j <= Len(local) /\ local[j].price = item.price THEN local[j].quantity ELSE 0
  IN  [j |-> j,
       dot |-> walk.dot + known * item.quantity,
       server |-> walk.server + item.quantity * item.quantity,
       local |-> walk.local + known * known]

EstimateOrderBookItemsLevels(side, local_items, server_items, levels_count) ==
  LET local == Increasing(side, local_items)
      server == Increasing(side, server_items)
      walk[i \in 0..levels_count] ==
        IF i = 0 THEN [j |-> 1, dot |-> 0, server |-> 0, local |-> 0]
        ELSE Compare(local, walk[i - 1], server[i])
  IN  walk[levels_count]

\* EstimateOrderBookHandle compares as many levels as both sides have.
Comparable(server_ob, levels_count) == \A side \in Sides : levels_count <= Len(server_ob[side])

\* The cosine of the vectors, dot / (length * length), is 1: 100 %.
IsFull(estimate) == estimate.dot > 0 /\ estimate.dot * estimate.dot = estimate.server * estimate.local

-----------------------------------------------------------------------------
(* Properties.                                                             *)

LocalQuantity(side, price) ==
  LET known == {item \in ToSet(Items(side)) : item.price = price}
  IN  IF known = {} THEN 0 ELSE (CHOOSE item \in known : TRUE).quantity

\* One walk along both lists finds every common price, whatever is missing,
\* added or empty on either side: the asks' best levels are compared, and of
\* the bids, although the report says "first", the deepest.  A book the
\* provider is not behind of and has cut nothing off compares as 100 %
\* (benchmark_manager.cc:64-109, 114-122).
ComparisonAgrees ==
  LET server_ob == [bids |-> ServerItems("bids"), asks |-> ServerItems("asks")]
  IN  \A levels_count \in LevelsCounts : Comparable(server_ob, levels_count) =>
        \A side \in Sides :
          LET server == server_ob[side]
              compared == IF side = "asks" THEN SubSeq(server, 1, levels_count)
                          ELSE SubSeq(server, Len(server) - levels_count + 1, Len(server))
              local == [k \in DOMAIN compared |-> LocalQuantity(side, compared[k].price)]
              estimate == EstimateOrderBookItemsLevels(side, Items(side), server, levels_count)
          IN  /\ estimate.dot = Total([k \in DOMAIN local |-> local[k] * compared[k].quantity])
              /\ estimate.local = Total([k \in DOMAIN local |-> local[k] * local[k]])
              /\ handled = Len(stream) /\ ~truncated => IsFull(estimate)
=============================================================================
