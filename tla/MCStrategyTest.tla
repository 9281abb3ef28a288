--------------------------- MODULE MCStrategyTest ---------------------------
(* Recordings of up to three events: a book, and then updates and trades, of *)
(* which some are at a time the strategy plans at; in one of them such a     *)
(* trade is the last event, with no book as new as it.                       *)
EXTENDS StrategyTest

At(kind, ts) == [kind |-> kind, received_timestamp |-> ts]

MCEndsOnTrade == {<<At("update", 1), At("trade", 3)>>}
MCRecordings ==
  {<<At("update", 2), At("trade", 3), At("update", 3)>>,
   <<At("update", 1), At("update", 3)>>} \cup MCEndsOnTrade
MCPlanTimes == {1, 3}
=============================================================================
