------------------------------ MODULE MCEmulator ------------------------------
(* The emulator alone: two ticks of the order book on three prices, limit    *)
(* orders at every price, market orders with and without a price.            *)
EXTENDS RealMarketEmulator

MCBooks == {<<b, a>> \in Prices \X Prices : b < a}
MCOrderInfos ==
  [side : Sides, type : {"LIMIT"}, price : Prices] \cup
  [side : Sides, type : {"MARKET"}, price : {0, 2}]
=============================================================================
