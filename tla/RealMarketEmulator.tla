-------------------------- MODULE RealMarketEmulator -------------------------
(***************************************************************************)
(* analyzer::RealMarketEmulator: the simulated exchange.  Its operations   *)
(* run under mutex_ and so are single steps: PlaceOrder and CancelOrder,   *)
(* called by the order plan thread through OrderManager, and the handler   *)
(* of a new order book snapshot, called by the order book queue's thread.  *)
(*                                                                         *)
(* An order is its id; info keeps what was ordered, orders the ids still   *)
(* in the list orders_, result what the order_result promise was set to.   *)
(* Of a snapshot the emulator reads the two best prices only.              *)
(***************************************************************************)
EXTENDS Integers, FiniteSets

CONSTANTS
  MaxOrders,     \* bound: how many orders are ever placed
  Prices,        \* the prices that occur
  Books,         \* the best prices a snapshot can have, <<bid, ask>>
  OrderInfos     \* what a client may order: [side, type, price]

NoPrice == -1    \* last_max_buy_, last_min_sell_ before the first snapshot

Sides == {"BUY", "SELL"}
Types == {"MARKET", "LIMIT"}

ASSUME EmulatorConstants ==
  /\ MaxOrders \in Nat
  /\ Prices \subseteq Nat
  /\ Books \subseteq Prices \X Prices
  /\ OrderInfos \subseteq [side : Sides, type : Types, price : Nat]

OrderIds == 1..MaxOrders
NoInfo == [side |-> "BUY", type |-> "LIMIT", price |-> 0]
NoResult == [status |-> "none", price |-> 0]
Ok(p) == [status |-> "kOk", price |-> p]
Canceled(p) == [status |-> "kCanceled", price |-> p]

VARIABLES
  unique_id_iterator,   \* the last id given out
  info,                 \* Order::info of every order placed
  orders,               \* ids of orders_
  result,               \* the value of every order_result promise
  last_max_buy,         \* last_max_buy_
  last_min_sell,        \* last_min_sell_
  promise_error,        \* a promise was set twice: future_error ended the program
  seen                  \* history: the best prices processed while an order was listed

emulator_vars == <<unique_id_iterator, info, orders, result, last_max_buy, last_min_sell,
                   promise_error, seen>>

EmulatorInit ==
  /\ unique_id_iterator = 0
  /\ info = [id \in OrderIds |-> NoInfo]
  /\ orders = {}
  /\ result = [id \in OrderIds |-> NoResult]
  /\ last_max_buy = NoPrice
  /\ last_min_sell = NoPrice
  /\ promise_error = FALSE
  /\ seen = [id \in OrderIds |-> {}]

\* The results once the orders in the domain of answers have got theirs.
Answered(answers) ==
  [id \in OrderIds |-> IF id \in DOMAIN answers THEN answers[id] ELSE result[id]]

-----------------------------------------------------------------------------
\* Mutant: the test of the type is missing.
MutantProcessMarketTypeOrders(os, infos, max_buy, min_sell) ==
  {id \in os : max_buy >= 0 /\ min_sell >= 0}

\* The orders ProcessMarketTypeOrders answers among os, at the last prices.
ProcessMarketTypeOrders(os, infos, max_buy, min_sell) ==
  {id \in os : infos[id].type = "MARKET" /\ max_buy >= 0 /\ min_sell >= 0}

MarketPrice(order_info, max_buy, min_sell) ==
  IF order_info.side = "BUY" THEN max_buy ELSE min_sell

\* Mutant: a better price than the limit does not fill an order.
MutantCrosses(id, max_buy, min_sell) ==
  \/ info[id].side = "BUY" /\ info[id].price = max_buy
  \/ info[id].side = "SELL" /\ info[id].price = min_sell

\* The test CheckAndUpdateOrders makes of every order in the list, market
\* orders included.
Crosses(id, max_buy, min_sell) ==
  \/ info[id].side = "BUY" /\ info[id].price >= max_buy
  \/ info[id].side = "SELL" /\ info[id].price <= min_sell

\* Mutant: the id is taken before the iterator is incremented.
MutantPlaceOrder(order_info) ==
  /\ unique_id_iterator < MaxOrders
  /\ unique_id_iterator' = unique_id_iterator + 1
  /\ info' = [info EXCEPT ![unique_id_iterator'] = order_info]
  /\ orders' = orders \cup {unique_id_iterator}
  /\ UNCHANGED <<result, last_max_buy, last_min_sell, promise_error, seen>>

PlaceOrder(order_info) ==
  LET id == unique_id_iterator + 1
      infos == [info EXCEPT ![id] = order_info]
      listed == orders \cup {id}
      done == ProcessMarketTypeOrders(listed, infos, last_max_buy, last_min_sell)
  IN  /\ id \in OrderIds
      /\ unique_id_iterator' = id
      /\ info' = infos
      /\ orders' = listed \ done
      /\ result' = Answered([i \in done |-> Ok(MarketPrice(infos[i], last_max_buy, last_min_sell))])
      /\ UNCHANGED <<last_max_buy, last_min_sell, promise_error, seen>>

\* Mutant: a canceled order stays in the list.
MutantCancelOrder(id) ==
  /\ result' = Answered([i \in {id} \cap orders |-> Canceled(info[i].price)])
  /\ UNCHANGED <<unique_id_iterator, info, orders, last_max_buy, last_min_sell, promise_error, seen>>

\* CancelOrderById: an order that is not in the list any more is left alone.
CancelOrder(id) ==
  /\ result' = Answered([i \in {id} \cap orders |-> Canceled(info[i].price)])
  /\ orders' = orders \ {id}
  /\ UNCHANGED <<unique_id_iterator, info, last_max_buy, last_min_sell, promise_error, seen>>

\* A market order that was waiting for the first snapshot is answered by
\* ProcessMarketTypeOrders and still goes through the price test; if it
\* passes, its promise is set again, std::future_error leaves the queue's
\* thread and the program is over.
OnOrderBookStreamEvent(max_buy, min_sell) ==
  LET market == ProcessMarketTypeOrders(orders, info, max_buy, min_sell)
      crossing == {id \in orders : Crosses(id, max_buy, min_sell)}
      done == market \cup crossing
      Fill(i) == Ok(IF i \in market THEN MarketPrice(info[i], max_buy, min_sell) ELSE info[i].price)
  IN  IF market \cap crossing # {}
      THEN /\ promise_error' = TRUE
           /\ UNCHANGED <<unique_id_iterator, info, orders, result, last_max_buy, last_min_sell, seen>>
      ELSE /\ last_max_buy' = max_buy
           /\ last_min_sell' = min_sell
           /\ orders' = orders \ done
           /\ result' = Answered([i \in done |-> Fill(i)])
           /\ seen' = [id \in OrderIds |->
                         IF id \in orders THEN seen[id] \cup {<<max_buy, min_sell>>} ELSE seen[id]]
           /\ UNCHANGED <<unique_id_iterator, info, promise_error>>

-----------------------------------------------------------------------------
(* The emulator on its own, with a client that orders anything.            *)

EmulatorNext ==
  \/ /\ ~promise_error
     /\ \/ \E order_info \in OrderInfos : PlaceOrder(order_info)
        \/ \E id \in 1..unique_id_iterator : CancelOrder(id)
        \/ \E book \in Books : OnOrderBookStreamEvent(book[1], book[2])
  \/ promise_error /\ UNCHANGED emulator_vars

EmulatorSpec == EmulatorInit /\ [][EmulatorNext]_emulator_vars

Placed == 1..unique_id_iterator

\* The types of the emulator's variables; ids are given out in order.
EmulatorTypeOK ==
  /\ unique_id_iterator \in 0..MaxOrders
  /\ info \in [OrderIds -> [side : Sides, type : Types, price : Nat]]
  /\ orders \subseteq Placed
  /\ result \in [OrderIds -> [status : {"none", "kOk", "kCanceled"}, price : Nat]]
  /\ last_max_buy \in Prices \cup {NoPrice}
  /\ last_min_sell \in Prices \cup {NoPrice}
  /\ (last_max_buy = NoPrice) <=> (last_min_sell = NoPrice)
  /\ promise_error \in BOOLEAN
  /\ seen \in [OrderIds -> SUBSET Books]

\* No order leaves the list without an answer and none keeps being matched
\* after it got one (real_market_emulator.cc:136-145, 153-166).
AnsweredIffGone ==
  \A id \in Placed : id \in orders <=> result[id] = NoResult

\* The emulator is the abstract exchange: two passes over one list, the prices
\* of the last snapshot and promises that each can be set once come to orders
\* that are open, filled or canceled, whatever is placed, canceled or seen in
\* between (real_market_emulator.cc:23-166).
Market == INSTANCE Exchange WITH
  placed <- unique_id_iterator, open <- orders, answer <- result,
  bid <- last_max_buy, ask <- last_min_sell
ImplementsExchange == Market!Spec

\* The books among bs that reach an order's limit.
Reaching(order_info, bs) ==
  {book \in bs : IF order_info.side = "BUY" THEN book[1] <= order_info.price
                                           ELSE order_info.price <= book[2]}

\* A limit order is filled by the first snapshot that reaches its limit, at
\* its own price, and by no other: one that is still waiting, or was
\* canceled, has seen none (real_market_emulator.cc:114-134, 153-166).
FilledByFirstCrossing ==
  \A id \in Placed :
    info[id].type = "LIMIT" =>
      IF result[id].status = "kOk"
      THEN Cardinality(Reaching(info[id], seen[id])) = 1 /\ result[id].price = info[id].price
      ELSE Reaching(info[id], seen[id]) = {}

\* A market order waits only for the first snapshot (real_market_emulator.cc:91-112).
NoMarketOrderWaits ==
  \A id \in orders : info[id].type = "MARKET" => last_max_buy = NoPrice

\* A promise is set twice at the first snapshot only, and only of a market
\* order that waited for it with a price the snapshot reaches too: the second
\* pass does not look at the type (real_market_emulator.cc:91-134).  The market
\* orders of real_market_emulator_tests.cc:49-56, placed before a snapshot,
\* have prices none of its snapshots reaches.
SetTwiceOnlyAtFirst ==
  /\ NoMarketOrderWaits
  /\ promise_error => \E id \in orders, book \in Books :
                        info[id].type = "MARKET" /\ Crosses(id, book[1], book[2])

=============================================================================
