---------------------------- MODULE EmulatorProofs ----------------------------
(***************************************************************************)
(* What is proved of RealMarketEmulator for any number of orders and any   *)
(* prices: its types, that a market order waits for the first snapshot     *)
(* only and no other promise is set twice, when a limit order is filled,   *)
(* and that it implements Exchange.                                        *)
(***************************************************************************)
EXTENDS RealMarketEmulator, FiniteSetTheorems, TLAPS

\* The ids that were not given out yet have no answer and no past.
FreshIds ==
  \A id \in OrderIds : id > unique_id_iterator => result[id] = NoResult /\ seen[id] = {}

\* The inductive invariant.
IInv ==
  /\ EmulatorTypeOK
  /\ FreshIds
  /\ AnsweredIffGone
  /\ NoMarketOrderWaits
  /\ FilledByFirstCrossing

-----------------------------------------------------------------------------
(* The parts of a state and of a step.                                     *)

\* Ids given out are order ids.
LEMMA PlacedIds ==
  ASSUME EmulatorTypeOK
  PROVE  Placed \subseteq OrderIds /\ orders \subseteq OrderIds
BY EmulatorConstants DEF EmulatorConstants, EmulatorTypeOK, Placed, OrderIds

\* The answers there can be: no price of an answer is negative and no answer
\* is taken for the lack of one.
LEMMA Answers ==
  ASSUME NEW p \in Nat
  PROVE  /\ Ok(p) \in [status : {"none", "kOk", "kCanceled"}, price : Nat]
         /\ Canceled(p) \in [status : {"none", "kOk", "kCanceled"}, price : Nat]
         /\ Ok(p) # NoResult /\ Ok(p).status = "kOk" /\ Ok(p).price = p
         /\ Canceled(p) # NoResult /\ Canceled(p).status = "kCanceled"
BY DEF Ok, Canceled, NoResult

\* A book's prices are prices.
LEMMA BookPrices ==
  ASSUME NEW book \in Books
  PROVE  /\ book[1] \in Prices /\ book[2] \in Prices
         /\ book[1] \in Nat /\ book[2] \in Nat
         /\ book = <<book[1], book[2]>>
<1>1. book \in Prices \X Prices
  BY EmulatorConstants DEF EmulatorConstants
<1>2. Prices \subseteq Nat
  BY EmulatorConstants DEF EmulatorConstants
<1>3. book[1] \in Prices /\ book[2] \in Prices /\ book = <<book[1], book[2]>>
  BY <1>1
<1> QED BY <1>2, <1>3

\* A price is known when it is not negative.
LEMMA KnownPrices ==
  ASSUME EmulatorTypeOK
  PROVE  /\ last_max_buy >= 0 <=> last_max_buy # NoPrice
         /\ last_min_sell >= 0 <=> last_max_buy # NoPrice
         /\ last_max_buy # NoPrice => last_max_buy \in Nat /\ last_min_sell \in Nat
BY EmulatorConstants DEF EmulatorConstants, EmulatorTypeOK, NoPrice

\* An emulator that was just constructed.
LEMMA InitIInv == EmulatorInit => IInv
<1> SUFFICES ASSUME EmulatorInit PROVE IInv
  OBVIOUS
<1>1. EmulatorTypeOK
  <2>1. unique_id_iterator \in 0..MaxOrders
    BY EmulatorConstants DEF EmulatorConstants, EmulatorInit
  <2>2. orders \subseteq Placed /\ promise_error \in BOOLEAN
    BY DEF EmulatorInit
  <2>3. NoInfo \in [side : Sides, type : Types, price : Nat]
    BY DEF NoInfo, Sides, Types
  <2>4. NoResult \in [status : {"none", "kOk", "kCanceled"}, price : Nat]
    BY DEF NoResult
  <2>5. /\ info \in [OrderIds -> [side : Sides, type : Types, price : Nat]]
        /\ result \in [OrderIds -> [status : {"none", "kOk", "kCanceled"}, price : Nat]]
        /\ seen \in [OrderIds -> SUBSET Books]
    BY <2>3, <2>4 DEF EmulatorInit
  <2>6. last_max_buy = NoPrice /\ last_min_sell = NoPrice
    BY DEF EmulatorInit
  <2> QED BY <2>1, <2>2, <2>5, <2>6 DEF EmulatorTypeOK
<1>2. Placed = {}
  BY DEF EmulatorInit, Placed
<1>3. FreshIds
  BY DEF EmulatorInit, FreshIds
<1> QED BY <1>1, <1>2, <1>3
    DEF IInv, AnsweredIffGone, NoMarketOrderWaits, FilledByFirstCrossing, EmulatorInit

-----------------------------------------------------------------------------
(* PlaceOrder.                                                             *)

\* What is answered at once: the new order, if it is a market order and the
\* market is known, because no other market order is listed then.
LEMMA AnsweredAtOnce ==
  ASSUME IInv, NEW order \in [side : Sides, type : Types, price : Nat],
         unique_id_iterator + 1 \in OrderIds
  PROVE  LET id == unique_id_iterator + 1
             infos == [info EXCEPT ![id] = order]
         IN  ProcessMarketTypeOrders(orders \cup {id}, infos, last_max_buy, last_min_sell)
               = IF order.type = "MARKET" /\ last_max_buy # NoPrice THEN {id} ELSE {}
<1> DEFINE id == unique_id_iterator + 1
           infos == [info EXCEPT ![id] = order]
<1>1. EmulatorTypeOK /\ NoMarketOrderWaits
  BY DEF IInv
<1>2. infos[id] = order /\ \A i \in orders : infos[i] = info[i]
  BY <1>1, PlacedIds DEF EmulatorTypeOK, Placed
<1>3. last_max_buy >= 0 /\ last_min_sell >= 0 <=> last_max_buy # NoPrice
  BY <1>1, KnownPrices
<1>4. last_max_buy # NoPrice => \A i \in orders : info[i].type # "MARKET"
  BY <1>1 DEF NoMarketOrderWaits
<1> HIDE DEF id, infos
<1>5. ProcessMarketTypeOrders(orders \cup {id}, infos, last_max_buy, last_min_sell)
        = IF order.type = "MARKET" /\ last_max_buy # NoPrice THEN {id} ELSE {}
  BY <1>2, <1>3, <1>4 DEF ProcessMarketTypeOrders
<1> QED BY <1>5 DEF id, infos

\* Placing an order, without the lists: one id more, and its answer or not.
LEMMA PlaceOrderStep ==
  ASSUME IInv, NEW order \in [side : Sides, type : Types, price : Nat], PlaceOrder(order)
  PROVE  LET id == unique_id_iterator + 1
         IN  /\ id \in OrderIds /\ id \notin orders
             /\ unique_id_iterator' = id
             /\ info' = [info EXCEPT ![id] = order]
             /\ IF order.type = "MARKET" /\ last_max_buy # NoPrice
                THEN /\ orders' = orders
                     /\ result' = [result EXCEPT ![id] =
                                     Ok(MarketPrice(order, last_max_buy, last_min_sell))]
                ELSE orders' = orders \cup {id} /\ result' = result
             /\ UNCHANGED <<last_max_buy, last_min_sell, promise_error, seen>>
<1> DEFINE id == unique_id_iterator + 1
           infos == [info EXCEPT ![id] = order]
           done == ProcessMarketTypeOrders(orders \cup {id}, infos, last_max_buy, last_min_sell)
<1>1. /\ id \in OrderIds
      /\ unique_id_iterator' = id
      /\ info' = infos
      /\ orders' = (orders \cup {id}) \ done
      /\ result' = Answered([i \in done |-> Ok(MarketPrice(infos[i], last_max_buy, last_min_sell))])
      /\ UNCHANGED <<last_max_buy, last_min_sell, promise_error, seen>>
  BY DEF PlaceOrder
<1>2. done = IF order.type = "MARKET" /\ last_max_buy # NoPrice THEN {id} ELSE {}
  BY <1>1, AnsweredAtOnce
<1>3. EmulatorTypeOK
  BY DEF IInv
<1>4. id \notin orders
  BY <1>3 DEF EmulatorTypeOK, Placed
<1>5. result = [i \in OrderIds |-> result[i]] /\ infos[id] = order
  BY <1>1, <1>3 DEF EmulatorTypeOK
<1> HIDE DEF id, infos, done
<1>6. CASE order.type = "MARKET" /\ last_max_buy # NoPrice
  <2>1. done = {id}
    BY <1>2, <1>6
  <2>2. orders' = orders
    BY <1>1, <1>4, <2>1
  <2>3. result' = [i \in OrderIds |->
                     IF i = id THEN Ok(MarketPrice(order, last_max_buy, last_min_sell))
                               ELSE result[i]]
    BY <1>1, <1>5, <2>1 DEF Answered
  <2>4. result' = [result EXCEPT ![id] = Ok(MarketPrice(order, last_max_buy, last_min_sell))]
    BY <1>5, <2>3
  <2> QED BY <1>1, <1>4, <1>6, <2>2, <2>4 DEF id, infos
<1>7. CASE ~(order.type = "MARKET" /\ last_max_buy # NoPrice)
  <2>1. done = {}
    BY <1>2, <1>7
  <2>2. orders' = orders \cup {id} /\ result' = result
    BY <1>1, <1>5, <2>1 DEF Answered
  <2> QED BY <1>1, <1>4, <1>7, <2>2 DEF id, infos
<1> QED BY <1>6, <1>7

\* A placed order gets an id of its own and, if it is answered, its answer.
LEMMA PlaceOrderInv ==
  ASSUME IInv, NEW order \in [side : Sides, type : Types, price : Nat], PlaceOrder(order)
  PROVE  IInv'
<1> DEFINE id == unique_id_iterator + 1
           at_once == order.type = "MARKET" /\ last_max_buy # NoPrice
           price == MarketPrice(order, last_max_buy, last_min_sell)
<1>1. /\ id \in OrderIds /\ id \notin orders
      /\ unique_id_iterator' = id
      /\ info' = [info EXCEPT ![id] = order]
      /\ UNCHANGED <<last_max_buy, last_min_sell, promise_error, seen>>
  BY PlaceOrderStep
<1>2. at_once => orders' = orders /\ result' = [result EXCEPT ![id] = Ok(price)]
  BY PlaceOrderStep
<1>3. ~at_once => orders' = orders \cup {id} /\ result' = result
  BY PlaceOrderStep
<1>4. EmulatorTypeOK /\ FreshIds /\ AnsweredIffGone /\ NoMarketOrderWaits /\ FilledByFirstCrossing
  BY DEF IInv
<1>6. at_once => price \in Nat
  BY <1>4, KnownPrices DEF MarketPrice
<1>7. at_once => /\ Ok(price) \in [status : {"none", "kOk", "kCanceled"}, price : Nat]
                 /\ Ok(price) # NoResult
  BY <1>6, Answers
<1>8. Placed' = Placed \cup {id} /\ id \notin Placed /\ Placed \subseteq OrderIds
  <2>1. unique_id_iterator \in Int
    BY <1>4 DEF EmulatorTypeOK
  <2>2. 1..(unique_id_iterator + 1) = (1..unique_id_iterator) \cup {unique_id_iterator + 1}
    BY <1>4 DEF EmulatorTypeOK
  <2>3. Placed' = Placed \cup {id}
    BY <1>1, <2>2 DEF Placed
  <2>4. id \notin Placed
    BY <2>1 DEF Placed
  <2> QED BY <1>4, <2>3, <2>4, PlacedIds
<1>9. result[id] = NoResult /\ seen[id] = {}
  BY <1>1, <1>4 DEF FreshIds, EmulatorTypeOK
<1>10. /\ info'[id] = order
       /\ \A i \in Placed : info'[i] = info[i] /\ result'[i] = result[i]
       /\ result'[id] = IF at_once THEN Ok(price) ELSE NoResult
  BY <1>1, <1>2, <1>3, <1>4, <1>8, <1>9 DEF EmulatorTypeOK
<1> HIDE DEF id, at_once, price
<1>11. EmulatorTypeOK'
  <2>1. info' \in [OrderIds -> [side : Sides, type : Types, price : Nat]]
    BY <1>1, <1>4 DEF EmulatorTypeOK
  <2>2. result' \in [OrderIds -> [status : {"none", "kOk", "kCanceled"}, price : Nat]]
    BY <1>2, <1>3, <1>4, <1>7 DEF EmulatorTypeOK
  <2>3. unique_id_iterator' \in 0..MaxOrders
    BY <1>1, EmulatorConstants DEF EmulatorConstants, OrderIds
  <2>4. orders' \subseteq Placed'
    BY <1>2, <1>3, <1>4, <1>8 DEF EmulatorTypeOK
  <2> QED BY <1>1, <1>4, <2>1, <2>2, <2>3, <2>4 DEF EmulatorTypeOK
<1>12. FreshIds'
  <2> SUFFICES ASSUME NEW i \in OrderIds, i > id
               PROVE  result'[i] = NoResult /\ seen[i] = {}
    BY <1>1 DEF FreshIds
  <2>1. i > unique_id_iterator /\ i # id
    BY <1>4 DEF EmulatorTypeOK, OrderIds, id
  <2>2. result'[i] = result[i]
    BY <1>2, <1>3, <1>4, <2>1 DEF EmulatorTypeOK
  <2> QED BY <1>4, <2>1, <2>2 DEF FreshIds
<1>13. AnsweredIffGone'
  BY <1>1, <1>2, <1>3, <1>4, <1>7, <1>8, <1>10 DEF AnsweredIffGone
<1>14. NoMarketOrderWaits'
  BY <1>1, <1>2, <1>3, <1>4, <1>8, <1>10 DEF NoMarketOrderWaits, EmulatorTypeOK, at_once
<1>15. FilledByFirstCrossing'
  <2>1. order.type = "LIMIT" => ~at_once
    BY DEF at_once
  <2>2. Reaching(order, {}) = {} /\ NoResult.status # "kOk"
    BY DEF Reaching, NoResult
  <2>3. order.type = "LIMIT" => result'[id].status # "kOk"
    BY <1>10, <2>1, <2>2
  <2>4. Reaching(info'[id], seen'[id]) = {}
    BY <1>1, <1>9, <1>10, <2>2
  <2> DEFINE Right(o, r, s) ==
        IF r.status = "kOk" THEN Cardinality(Reaching(o, s)) = 1 /\ r.price = o.price
                            ELSE Reaching(o, s) = {}
  <2> SUFFICES ASSUME NEW i \in Placed', info'[i].type = "LIMIT"
               PROVE  Right(info'[i], result'[i], seen'[i])
    BY DEF FilledByFirstCrossing
  <2>5. CASE i = id
    <3>1. result'[i].status # "kOk"
      BY <1>10, <2>3, <2>5
    <3> QED BY <2>4, <2>5, <3>1
  <2>6. CASE i \in Placed
    <3>1. info'[i] = info[i] /\ result'[i] = result[i] /\ seen' = seen
      BY <1>1, <1>10, <2>6
    <3>2. Right(info[i], result[i], seen[i])
      BY <1>4, <2>6, <3>1 DEF FilledByFirstCrossing
    <3> QED BY <3>1, <3>2
  <2> QED BY <1>8, <2>5, <2>6
<1> QED BY <1>11, <1>12, <1>13, <1>14, <1>15 DEF IInv

-----------------------------------------------------------------------------
(* CancelOrder.                                                            *)

\* An order in the list leaves it canceled; any other is left alone.
LEMMA CancelOrderStep ==
  ASSUME IInv, NEW id \in Placed, CancelOrder(id)
  PROVE  /\ UNCHANGED <<unique_id_iterator, info, last_max_buy, last_min_sell, promise_error, seen>>
         /\ orders' = orders \ {id}
         /\ id \in orders => result' = [result EXCEPT ![id] = Canceled(info[id].price)]
         /\ id \notin orders => UNCHANGED <<orders, result>>
<1>1. EmulatorTypeOK
  BY DEF IInv
<1>2. result = [i \in OrderIds |-> result[i]]
  BY <1>1 DEF EmulatorTypeOK
<1>3. /\ UNCHANGED <<unique_id_iterator, info, last_max_buy, last_min_sell, promise_error, seen>>
      /\ orders' = orders \ {id}
      /\ result' = Answered([i \in {id} \cap orders |-> Canceled(info[i].price)])
  BY DEF CancelOrder
<1>4. CASE id \in orders
  <2>1. {id} \cap orders = {id}
    BY <1>4
  <2>2. result' = [i \in OrderIds |-> IF i = id THEN Canceled(info[id].price) ELSE result[i]]
    BY <1>3, <2>1 DEF Answered
  <2> QED BY <1>2, <1>3, <1>4, <2>2
<1>5. CASE id \notin orders
  <2>1. {id} \cap orders = {}
    BY <1>5
  <2>2. result' = [i \in OrderIds |-> result[i]]
    BY <1>3, <2>1 DEF Answered
  <2> QED BY <1>2, <1>3, <1>5, <2>2
<1> QED BY <1>4, <1>5

\* A canceled order was not filled, and the others are as they were.
LEMMA CancelOrderInv ==
  ASSUME IInv, NEW id \in Placed, CancelOrder(id)
  PROVE  IInv'
<1>1. /\ UNCHANGED <<unique_id_iterator, info, last_max_buy, last_min_sell, promise_error, seen>>
      /\ orders' = orders \ {id}
      /\ id \in orders => result' = [result EXCEPT ![id] = Canceled(info[id].price)]
      /\ id \notin orders => UNCHANGED <<orders, result>>
  BY CancelOrderStep
<1>2. EmulatorTypeOK /\ FreshIds /\ AnsweredIffGone /\ NoMarketOrderWaits /\ FilledByFirstCrossing
  BY DEF IInv
<1>3. Placed' = Placed /\ id \in OrderIds /\ Placed \subseteq OrderIds
  BY <1>1, <1>2, PlacedIds DEF Placed
<1>4. info[id].price \in Nat
  BY <1>2, <1>3 DEF EmulatorTypeOK
<1>5. /\ Canceled(info[id].price) \in [status : {"none", "kOk", "kCanceled"}, price : Nat]
      /\ Canceled(info[id].price) # NoResult
      /\ Canceled(info[id].price).status # "kOk"
  BY <1>4, Answers
<1>6. \A i \in OrderIds : i # id => result'[i] = result[i]
  BY <1>1, <1>2 DEF EmulatorTypeOK
<1>7. id \in orders => result'[id] = Canceled(info[id].price)
  BY <1>1, <1>2, <1>3 DEF EmulatorTypeOK
<1>8. EmulatorTypeOK'
  <2>1. result' \in [OrderIds -> [status : {"none", "kOk", "kCanceled"}, price : Nat]]
    BY <1>1, <1>2, <1>5 DEF EmulatorTypeOK
  <2> QED BY <1>1, <1>2, <1>3, <2>1 DEF EmulatorTypeOK
<1>9. FreshIds'
  <2>1. unique_id_iterator \in Nat /\ id \in Nat /\ id <= unique_id_iterator
    BY <1>2 DEF EmulatorTypeOK, Placed
  <2>2. \A i \in OrderIds : i > unique_id_iterator => i # id
    BY <2>1
  <2> QED BY <1>1, <1>2, <1>6, <2>2 DEF FreshIds
<1>10. AnsweredIffGone'
  BY <1>1, <1>2, <1>3, <1>5, <1>6, <1>7 DEF AnsweredIffGone
<1>11. NoMarketOrderWaits'
  BY <1>1, <1>2 DEF NoMarketOrderWaits
<1>12. FilledByFirstCrossing'
  <2>1. id \in orders => result[id].status # "kOk"
    BY <1>2, <1>3 DEF AnsweredIffGone, NoResult
  <2> QED BY <1>1, <1>2, <1>3, <1>5, <1>6, <1>7, <2>1 DEF FilledByFirstCrossing
<1> QED BY <1>8, <1>9, <1>10, <1>11, <1>12 DEF IInv

-----------------------------------------------------------------------------
(* A snapshot.                                                             *)

\* The listed orders a snapshot answers.
Satisfied(book) ==
  {id \in orders : info[id].type = "MARKET" \/ Crosses(id, book[1], book[2])}

FillPrice(id, book) ==
  IF info[id].type = "MARKET" THEN MarketPrice(info[id], book[1], book[2]) ELSE info[id].price

\* A snapshot that does not end the program answers, once, the market orders
\* and the limit orders it satisfies.
LEMMA SnapshotStep ==
  ASSUME IInv, NEW book \in Books, OnOrderBookStreamEvent(book[1], book[2])
  PROVE  \/ /\ promise_error'
            /\ UNCHANGED <<unique_id_iterator, info, orders, result, last_max_buy, last_min_sell, seen>>
         \/ /\ UNCHANGED <<unique_id_iterator, info, promise_error>>
            /\ last_max_buy' = book[1] /\ last_min_sell' = book[2]
            /\ orders' = orders \ Satisfied(book)
            /\ result' = [id \in OrderIds |->
                            IF id \in Satisfied(book) THEN Ok(FillPrice(id, book)) ELSE result[id]]
            /\ seen' = [id \in OrderIds |->
                          IF id \in orders THEN seen[id] \cup {book} ELSE seen[id]]
<1> DEFINE market == ProcessMarketTypeOrders(orders, info, book[1], book[2])
           crossing == {id \in orders : Crosses(id, book[1], book[2])}
           answers == [i \in market \cup crossing |->
                         Ok(IF i \in market THEN MarketPrice(info[i], book[1], book[2])
                                            ELSE info[i].price)]
<1>1. book[1] \in Nat /\ book[2] \in Nat /\ book = <<book[1], book[2]>>
  BY BookPrices
<1>2. market = {id \in orders : info[id].type = "MARKET"}
  BY <1>1 DEF ProcessMarketTypeOrders
<1>3. market \cup crossing = Satisfied(book)
  BY <1>2 DEF Satisfied
<1>4. CASE market \cap crossing # {}
  BY <1>4 DEF OnOrderBookStreamEvent
<1>5. CASE market \cap crossing = {}
  <2>1. /\ UNCHANGED <<unique_id_iterator, info, promise_error>>
        /\ last_max_buy' = book[1] /\ last_min_sell' = book[2]
        /\ orders' = orders \ (market \cup crossing)
        /\ result' = Answered(answers)
        /\ seen' = [id \in OrderIds |->
                      IF id \in orders THEN seen[id] \cup {<<book[1], book[2]>>} ELSE seen[id]]
    BY <1>5 DEF OnOrderBookStreamEvent
  <2>2. \A id \in Satisfied(book) : answers[id] = Ok(FillPrice(id, book))
    BY <1>2, <1>3 DEF FillPrice, Satisfied
  <2>3. DOMAIN answers = Satisfied(book)
    BY <1>3
  <2> HIDE DEF answers, market, crossing
  <2>4. result' = [id \in OrderIds |->
                     IF id \in Satisfied(book) THEN Ok(FillPrice(id, book)) ELSE result[id]]
    BY <2>1, <2>2, <2>3 DEF Answered
  <2> QED BY <1>1, <1>3, <2>1, <2>4
<1> QED BY <1>4, <1>5

\* A snapshot leaves no market order, and fills a limit order if and only if it
\* is the first to reach its limit.
LEMMA SnapshotInv ==
  ASSUME IInv, NEW book \in Books, OnOrderBookStreamEvent(book[1], book[2])
  PROVE  IInv'
<1>1. EmulatorTypeOK /\ FreshIds /\ AnsweredIffGone /\ NoMarketOrderWaits /\ FilledByFirstCrossing
  BY DEF IInv
<1>2. /\ book[1] \in Prices /\ book[2] \in Prices
      /\ book[1] \in Nat /\ book[2] \in Nat
  BY BookPrices
<1>3. CASE /\ promise_error'
           /\ UNCHANGED <<unique_id_iterator, info, orders, result, last_max_buy, last_min_sell, seen>>
  <2>1. Placed' = Placed
    BY <1>3 DEF Placed
  <2> QED
    BY <1>1, <1>3, <2>1
    DEF IInv, EmulatorTypeOK, FreshIds, AnsweredIffGone, NoMarketOrderWaits, FilledByFirstCrossing
<1>4. CASE /\ UNCHANGED <<unique_id_iterator, info, promise_error>>
           /\ last_max_buy' = book[1] /\ last_min_sell' = book[2]
           /\ orders' = orders \ Satisfied(book)
           /\ result' = [id \in OrderIds |->
                           IF id \in Satisfied(book) THEN Ok(FillPrice(id, book)) ELSE result[id]]
           /\ seen' = [id \in OrderIds |->
                         IF id \in orders THEN seen[id] \cup {book} ELSE seen[id]]
  <2>1. /\ Placed' = Placed /\ Placed \subseteq OrderIds
        /\ orders \subseteq Placed /\ Satisfied(book) \subseteq orders
    BY <1>1, <1>4, PlacedIds DEF Placed, EmulatorTypeOK, Satisfied
  <2>2. \A id \in Satisfied(book) : FillPrice(id, book) \in Nat
    BY <1>1, <1>2, <2>1 DEF FillPrice, MarketPrice, EmulatorTypeOK
  <2>3. \A id \in Satisfied(book) :
           /\ Ok(FillPrice(id, book)) \in [status : {"none", "kOk", "kCanceled"}, price : Nat]
           /\ Ok(FillPrice(id, book)) # NoResult
           /\ Ok(FillPrice(id, book)).status = "kOk"
           /\ Ok(FillPrice(id, book)).price = FillPrice(id, book)
    BY <2>2, Answers
  <2>4. \A id \in OrderIds :
          result'[id] = IF id \in Satisfied(book) THEN Ok(FillPrice(id, book)) ELSE result[id]
    BY <1>4
  <2>5. \A id \in OrderIds : seen'[id] = IF id \in orders THEN seen[id] \cup {book} ELSE seen[id]
    BY <1>4
  <2>6. EmulatorTypeOK'
    <3>1. result' \in [OrderIds -> [status : {"none", "kOk", "kCanceled"}, price : Nat]]
      BY <1>1, <1>4, <2>3 DEF EmulatorTypeOK
    <3>2. seen' \in [OrderIds -> SUBSET Books]
      BY <1>1, <1>4 DEF EmulatorTypeOK
    <3>3. book[1] # NoPrice /\ book[2] # NoPrice
      BY <1>2 DEF NoPrice
    <3> QED BY <1>1, <1>2, <1>4, <2>1, <3>1, <3>2, <3>3 DEF EmulatorTypeOK
  <2>7. FreshIds'
    <3>1. \A id \in OrderIds : id > unique_id_iterator => id \notin orders
      BY <1>1 DEF EmulatorTypeOK, Placed, OrderIds
    <3> QED BY <1>1, <1>4, <2>1, <2>4, <2>5, <3>1 DEF FreshIds
  <2>8. AnsweredIffGone'
    BY <1>1, <1>4, <2>1, <2>3, <2>4 DEF AnsweredIffGone
  <2>9. NoMarketOrderWaits'
    BY <1>4 DEF NoMarketOrderWaits, Satisfied
  <2>10. FilledByFirstCrossing'
    <3> SUFFICES ASSUME NEW id \in Placed, info[id].type = "LIMIT"
                 PROVE  IF result'[id].status = "kOk"
                        THEN /\ Cardinality(Reaching(info[id], seen'[id])) = 1
                             /\ result'[id].price = info[id].price
                        ELSE Reaching(info[id], seen'[id]) = {}
      BY <1>4, <2>1 DEF FilledByFirstCrossing
    <3>1. CASE id \notin orders
      BY <1>1, <2>1, <2>4, <2>5, <3>1 DEF FilledByFirstCrossing
    <3>2. CASE id \in orders
      <4>1. result[id].status # "kOk"
        BY <1>1, <3>2 DEF AnsweredIffGone, NoResult
      <4>2. Reaching(info[id], seen[id]) = {}
        BY <1>1, <4>1 DEF FilledByFirstCrossing
      <4>3. seen'[id] = seen[id] \cup {book}
        BY <2>1, <2>5, <3>2
      <4>4. info[id].side \in Sides /\ info[id].price \in Nat
        BY <1>1, <2>1 DEF EmulatorTypeOK
      <4>5. Reaching(info[id], seen'[id]) = IF id \in Satisfied(book) THEN {book} ELSE {}
        BY <1>2, <3>2, <4>2, <4>3, <4>4 DEF Reaching, Satisfied, Crosses, Sides
      <4>6. Cardinality({book}) = 1
        BY FS_Singleton
      <4>7. FillPrice(id, book) = info[id].price
        BY DEF FillPrice
      <4> QED BY <2>1, <2>3, <2>4, <4>1, <4>5, <4>6, <4>7
    <3> QED BY <3>1, <3>2
  <2> QED BY <2>6, <2>7, <2>8, <2>9, <2>10 DEF IInv
<1> QED BY <1>3, <1>4, SnapshotStep

-----------------------------------------------------------------------------
(* The theorems.                                                           *)

\* Every step keeps the inductive invariant.
LEMMA NextIInv == IInv /\ [EmulatorNext]_emulator_vars => IInv'
<1> SUFFICES ASSUME IInv, [EmulatorNext]_emulator_vars PROVE IInv'
  OBVIOUS
<1>1. ASSUME NEW order \in OrderInfos, PlaceOrder(order) PROVE IInv'
  BY <1>1, PlaceOrderInv, EmulatorConstants DEF EmulatorConstants
<1>2. ASSUME NEW id \in 1..unique_id_iterator, CancelOrder(id) PROVE IInv'
  BY <1>2, CancelOrderInv DEF Placed
<1>3. ASSUME NEW book \in Books, OnOrderBookStreamEvent(book[1], book[2]) PROVE IInv'
  BY <1>3, SnapshotInv
<1>4. CASE UNCHANGED emulator_vars
  <2>1. Placed' = Placed
    BY <1>4 DEF Placed, emulator_vars
  <2> QED
    BY <1>4, <2>1
    DEF IInv, EmulatorTypeOK, FreshIds, AnsweredIffGone, NoMarketOrderWaits,
        FilledByFirstCrossing, emulator_vars
<1> QED BY <1>1, <1>2, <1>3, <1>4 DEF EmulatorNext

\* The invariant behind the theorems below holds in every reachable state.
LEMMA EmulatorInv == EmulatorSpec => []IInv
BY InitIInv, NextIInv, PTL DEF EmulatorSpec

\* The emulator's variables keep their types and ids are given out in order
\* (real_market_emulator.cc:51-70).
THEOREM EmulatorTypeCorrect == EmulatorSpec => []EmulatorTypeOK
<1>1. IInv => EmulatorTypeOK
  BY DEF IInv
<1> QED BY <1>1, EmulatorInv, PTL

\* An error of a promise is a listed market order's, with a price some book
\* reaches: no step makes another one, and after it there is none.
LEMMA ErrorIsMarketOrders ==
  ASSUME IInv, SetTwiceOnlyAtFirst, [EmulatorNext]_emulator_vars
  PROVE  SetTwiceOnlyAtFirst'
<1>1. NoMarketOrderWaits'
  BY NextIInv DEF IInv
<1>2. ASSUME ~promise_error, NEW order \in OrderInfos, PlaceOrder(order) PROVE ~promise_error'
  BY <1>2 DEF PlaceOrder
<1>3. ASSUME ~promise_error, NEW id \in 1..unique_id_iterator, CancelOrder(id) PROVE ~promise_error'
  BY <1>3 DEF CancelOrder
<1>4. ASSUME NEW book \in Books, OnOrderBookStreamEvent(book[1], book[2]), ~promise_error, promise_error'
      PROVE  SetTwiceOnlyAtFirst'
  <2> DEFINE market == ProcessMarketTypeOrders(orders, info, book[1], book[2])
  <2>1. /\ UNCHANGED <<info, orders>>
        /\ market \cap {id \in orders : Crosses(id, book[1], book[2])} # {}
    BY <1>4 DEF OnOrderBookStreamEvent
  <2>2. PICK id \in market : Crosses(id, book[1], book[2])
    BY <2>1
  <2>3. id \in orders /\ info[id].type = "MARKET"
    BY <2>2 DEF ProcessMarketTypeOrders
  <2>4. Crosses(id, book[1], book[2])'
    BY <2>1, <2>2 DEF Crosses
  <2> QED BY <1>1, <2>1, <2>3, <2>4 DEF SetTwiceOnlyAtFirst
<1>5. CASE UNCHANGED emulator_vars
  BY <1>1, <1>5 DEF SetTwiceOnlyAtFirst, Crosses, emulator_vars
<1>6. ~promise_error' => SetTwiceOnlyAtFirst'
  BY <1>1 DEF SetTwiceOnlyAtFirst
<1> QED BY <1>2, <1>3, <1>4, <1>5, <1>6 DEF EmulatorNext

\* However many orders are listed, a market order waits for the first snapshot
\* only, and none but a market order that waited, with a price the market
\* reaches, can have its promise set twice (real_market_emulator.cc:91-134).
THEOREM SetTwiceOnlyAtFirstCorrect == EmulatorSpec => []SetTwiceOnlyAtFirst
<1>1. EmulatorInit => SetTwiceOnlyAtFirst
  BY InitIInv DEF EmulatorInit, SetTwiceOnlyAtFirst, IInv
<1>2. IInv /\ SetTwiceOnlyAtFirst /\ [EmulatorNext]_emulator_vars => SetTwiceOnlyAtFirst'
  BY ErrorIsMarketOrders
<1> QED BY <1>1, <1>2, EmulatorInv, PTL DEF EmulatorSpec

\* Whatever the prices and the other orders are, a limit order is filled by the
\* first snapshot that reaches its limit, at its own price
\* (real_market_emulator.cc:114-134, 153-166).
THEOREM LimitOrdersFillFirst == EmulatorSpec => []FilledByFirstCrossing
<1>1. IInv => FilledByFirstCrossing
  BY DEF IInv
<1> QED BY <1>1, EmulatorInv, PTL

\* A new emulator is an exchange where nothing was ordered.
LEMMA MarketInit == EmulatorInit => Market!Init
BY DEF EmulatorInit, Market!Init, OrderIds, Market!OrderIds, NoInfo, Market!NoOrder,
       NoResult, Market!NoAnswer, NoPrice, Market!Unknown

\* Placing an order places it on the exchange.
LEMMA MarketPlaces ==
  ASSUME IInv, NEW order \in [side : Sides, type : Types, price : Nat], PlaceOrder(order)
  PROVE  Market!Place(order)
<1>1. order.type \in Types /\ order.side \in Sides
  OBVIOUS
<1>2. order.type = "MARKET" =>
        Ok(MarketPrice(order, last_max_buy, last_min_sell))
          = Market!Filled(order, last_max_buy, last_min_sell)
  BY DEF Ok, MarketPrice, Market!Filled, Market!Price
<1>3. unique_id_iterator < MaxOrders
  BY PlaceOrderStep, EmulatorConstants DEF EmulatorConstants, OrderIds, IInv, EmulatorTypeOK
<1> QED BY <1>1, <1>2, <1>3, PlaceOrderStep DEF Market!Place, Market!Unknown, NoPrice

\* Canceling cancels an open order, or does nothing.
LEMMA MarketCancels ==
  ASSUME IInv, NEW id \in Placed, CancelOrder(id)
  PROVE  \/ id \in orders /\ Market!Cancel(id)
         \/ UNCHANGED Market!exchange
BY CancelOrderStep DEF Market!Cancel, Market!exchange, Canceled

\* A snapshot moves the market, or ends the program.
LEMMA MarketMoves ==
  ASSUME IInv, NEW book \in Books, OnOrderBookStreamEvent(book[1], book[2])
  PROVE  Market!Move(book[1], book[2]) \/ UNCHANGED Market!exchange
<1>1. \A id \in orders : info[id].type \in Types /\ info[id].side \in Sides
  BY PlacedIds DEF IInv, EmulatorTypeOK
<1>2. Satisfied(book) = {id \in orders : Market!Satisfied(info[id], book[1], book[2])}
  BY DEF Satisfied, Crosses, Market!Satisfied
<1>3. \A id \in Satisfied(book) :
        Ok(FillPrice(id, book)) = Market!Filled(info[id], book[1], book[2])
  BY <1>1 DEF Ok, FillPrice, MarketPrice, Types, Market!Filled, Market!Price, Satisfied
<1>4. CASE UNCHANGED <<unique_id_iterator, info, orders, result, last_max_buy, last_min_sell, seen>>
  BY <1>4 DEF Market!exchange
<1>5. CASE /\ UNCHANGED <<unique_id_iterator, info, promise_error>>
           /\ last_max_buy' = book[1] /\ last_min_sell' = book[2]
           /\ orders' = orders \ Satisfied(book)
           /\ result' = [id \in OrderIds |->
                           IF id \in Satisfied(book) THEN Ok(FillPrice(id, book)) ELSE result[id]]
  <2>1. result' = [id \in OrderIds |->
                     IF id \in Satisfied(book) THEN Market!Filled(info[id], book[1], book[2])
                                               ELSE result[id]]
    BY <1>3, <1>5
  <2> QED BY <1>2, <1>5, <2>1 DEF Market!Move, OrderIds, Market!OrderIds
<1> QED BY <1>4, <1>5, SnapshotStep

\* The emulator implements the abstract exchange for any orders and prices: its
\* list, its two passes and its promises are not to be told from orders that are
\* open, filled or canceled (real_market_emulator.cc:23-166).
THEOREM EmulatorIsExchange == EmulatorSpec => ImplementsExchange
<1>1. IInv /\ [EmulatorNext]_emulator_vars => [Market!Next]_Market!exchange
  <2> SUFFICES ASSUME IInv, [EmulatorNext]_emulator_vars
               PROVE  Market!Next \/ UNCHANGED Market!exchange
    OBVIOUS
  <2>1. ASSUME NEW order \in OrderInfos, PlaceOrder(order) PROVE Market!Next
    BY <2>1, MarketPlaces, EmulatorConstants DEF EmulatorConstants, Market!Next
  <2>2. ASSUME NEW id \in 1..unique_id_iterator, CancelOrder(id)
        PROVE  Market!Next \/ UNCHANGED Market!exchange
    BY <2>2, MarketCancels DEF Placed, Market!Next
  <2>3. ASSUME NEW book \in Books, OnOrderBookStreamEvent(book[1], book[2])
        PROVE  Market!Next \/ UNCHANGED Market!exchange
    BY <2>3, MarketMoves DEF Market!Next
  <2>4. CASE UNCHANGED emulator_vars
    BY <2>4 DEF emulator_vars, Market!exchange
  <2> QED BY <2>1, <2>2, <2>3, <2>4 DEF EmulatorNext
<1> QED BY <1>1, MarketInit, EmulatorInv, PTL DEF EmulatorSpec, ImplementsExchange, Market!Spec
=============================================================================
