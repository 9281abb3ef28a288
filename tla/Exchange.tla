------------------------------ MODULE Exchange ------------------------------
(***************************************************************************)
(* What analyzer::RealMarketEmulator promises the thread that trades: an   *)
(* order placed is open until it is answered, once: filled by the first    *)
(* best prices that satisfy it, a limit order at its own price and a       *)
(* market order at the market's, or canceled.  There are no lists, passes  *)
(* or promises here.                                                       *)
(***************************************************************************)
EXTENDS Integers

CONSTANTS MaxOrders, Books, OrderInfos

OrderIds == 1..MaxOrders
Unknown == -1
NoOrder == [side |-> "BUY", type |-> "LIMIT", price |-> 0]
NoAnswer == [status |-> "none", price |-> 0]

VARIABLES
  placed,      \* how many orders have been placed
  info,        \* what was ordered
  open,        \* the orders without an answer
  answer,      \* the answers
  bid, ask     \* the best prices, Unknown at first

exchange == <<placed, info, open, answer, bid, ask>>

Init ==
  /\ placed = 0
  /\ info = [id \in OrderIds |-> NoOrder]
  /\ open = {}
  /\ answer = [id \in OrderIds |-> NoAnswer]
  /\ bid = Unknown /\ ask = Unknown

Price(order, best_bid, best_ask) ==
  IF order.type = "LIMIT" THEN order.price ELSE IF order.side = "BUY" THEN best_bid ELSE best_ask

Filled(order, best_bid, best_ask) == [status |-> "kOk", price |-> Price(order, best_bid, best_ask)]

Satisfied(order, best_bid, best_ask) ==
  \/ order.type = "MARKET"
  \/ order.side = "BUY" /\ order.price >= best_bid
  \/ order.side = "SELL" /\ order.price <= best_ask

\* Only a market order is filled at once, if there is a market.
Place(order) ==
  /\ placed < MaxOrders
  /\ placed' = placed + 1
  /\ info' = [info EXCEPT ![placed + 1] = order]
  /\ IF order.type = "MARKET" /\ bid # Unknown
     THEN answer' = [answer EXCEPT ![placed + 1] = Filled(order, bid, ask)] /\ UNCHANGED open
     ELSE open' = open \cup {placed + 1} /\ UNCHANGED answer
  /\ UNCHANGED <<bid, ask>>

Cancel(id) ==
  /\ open' = open \ {id}
  /\ answer' = [answer EXCEPT ![id] = [status |-> "kCanceled", price |-> info[id].price]]
  /\ UNCHANGED <<placed, info, bid, ask>>

Move(best_bid, best_ask) ==
  LET satisfied == {id \in open : Satisfied(info[id], best_bid, best_ask)}
  IN  /\ bid' = best_bid /\ ask' = best_ask
      /\ open' = open \ satisfied
      /\ answer' = [id \in OrderIds |->
                      IF id \in satisfied THEN Filled(info[id], best_bid, best_ask) ELSE answer[id]]
      /\ UNCHANGED <<placed, info>>

Next ==
  \/ \E order \in OrderInfos : Place(order)
  \/ \E id \in open : Cancel(id)
  \/ \E book \in Books : Move(book[1], book[2])

Spec == Init /\ [][Next]_exchange
=============================================================================
