---------------------------- MODULE MCOrderPlans ----------------------------
(* Order plans around a spread that moves by one tick: a plan may be stale   *)
(* when it arrives (expiration 0), its buy or its sale may be out of time    *)
(* when its turn comes or run out of time while it waits.                    *)
EXTENDS OrderPlanManager

MCBooks == {<<1, 2>>, <<2, 3>>}
MCOrderInfos == {}
MCPlans ==
  [buy : {1}, sell : {3}, expiration : {0, 2}, expiration_buy : {0, 1, 2}, expiration_sell : {1, 2}]
MCFewPlans ==
  [buy : {1}, sell : {3}, expiration : {2}, expiration_buy : {1}, expiration_sell : {2}]
=============================================================================
