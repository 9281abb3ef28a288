--------------------------- MODULE OrderPlanManager ---------------------------
(***************************************************************************)
(* analyzer::OrderPlanManager on top of OrderManager (which only forwards) *)
(* and RealMarketEmulator: how an order plan of the strategy becomes       *)
(* orders on the emulated exchange and a report.  Four threads meet here:  *)
(*   - the analyzer queue's thread hands a plan over                       *)
(*     (OnOrderPlanStreamEvent), if none is in process;                    *)
(*   - the plan thread (OrderPlansProcessThread) buys, sells and reports;  *)
(*   - the order book queue's thread feeds snapshots to the emulator;      *)
(*   - the clock goes on.                                                  *)
(* The plan thread's steps are separated wherever it lets go of everything *)
(* between two reads or calls, so the other threads come in between.       *)
(***************************************************************************)
EXTENDS RealMarketEmulator, BenchmarkDataCollector

CONSTANTS
  MaxPlans,    \* bound: how many plans the strategy dispatches
  MaxTime,     \* bound: when the clock stops
  Plans        \* the plans that occur

ASSUME PlanConstants ==
  /\ MaxPlans \in Nat
  /\ MaxTime \in Nat
  /\ Plans \subseteq [buy : Prices, sell : Prices, expiration : Nat,
                      expiration_buy : Nat, expiration_sell : Nat]
  /\ Unit \in Nat
  /\ \A price \in Prices : price > 0 /\ Unit % price = 0

NoOrder == 0

VARIABLES
  now,               \* GlobalClock::Now()
  order_plan_info,   \* order_plan_info_: a sequence of at most one plan
  event_pc,          \* OnOrderPlanStreamEvent: idle, or set and about to notify
  received,          \* history: plans the strategy dispatched
  accepted,          \* history: plans handed over rather than dropped
  pc,                \* where the plan thread is
  stage,             \* the ExecOrder call it is in: BUY, SELL or MARKET
  order_plan_start_time, \* when the plan thread took the plan up
  order,             \* the id of the order it deals with
  buy_price,         \* buy_order_result.price
  sold_price,        \* sell_order_result.price
  reports,           \* BenchmarkDataCollector::reports_
  plan_of,           \* history: the accepted plan an order was placed for
  late               \* history: orders found filled when they had timed out

plan_vars == <<now, order_plan_info, event_pc, received, accepted, pc, stage,
               order_plan_start_time, order, buy_price, sold_price, reports, plan_of, late>>
vars == <<plan_vars, emulator_vars>>

Init ==
  /\ EmulatorInit
  /\ now = 0
  /\ order_plan_info = <<>>
  /\ event_pc = "idle"
  /\ received = 0
  /\ accepted = 0
  /\ pc = "check"
  /\ stage = "BUY"
  /\ order_plan_start_time = 0
  /\ order = NoOrder
  /\ buy_price = 0
  /\ sold_price = 0
  /\ reports = <<>>
  /\ plan_of = [id \in OrderIds |-> 0]
  /\ late = {}

Plan == order_plan_info[1]

-----------------------------------------------------------------------------
(* The analyzer queue's thread.                                            *)

\* A plan is kept if none is in process, and dropped otherwise.  Neither the
\* test nor the store is made under mutex_.
OnOrderPlanStreamEvent(plan) ==
  /\ event_pc = "idle"
  /\ received < MaxPlans
  /\ received' = received + 1
  /\ IF order_plan_info = <<>>
     THEN order_plan_info' = <<plan>> /\ event_pc' = "notify" /\ accepted' = accepted + 1
     ELSE UNCHANGED <<order_plan_info, event_pc, accepted>>
  /\ UNCHANGED <<now, pc, stage, order, buy_price, sold_price, reports, plan_of, order_plan_start_time, late, emulator_vars>>

NotifyPlan ==
  /\ event_pc = "notify"
  /\ event_pc' = "idle"
  /\ pc' = IF pc = "waiting" THEN "check" ELSE pc
  /\ UNCHANGED <<now, order_plan_info, received, accepted, stage, order, buy_price, sold_price,
                 reports, plan_of, order_plan_start_time, late, emulator_vars>>

-----------------------------------------------------------------------------
(* The plan thread: waiting for a plan.                                    *)

Goto(from, to) == pc = from /\ pc' = to

\* The wait predicate is evaluated under mutex_; a plan starts ProcessOrderPlan.
TakePlan ==
  /\ order_plan_info # <<>>
  /\ Goto("check", "start")
  /\ UNCHANGED <<now, order_plan_info, event_pc, received, accepted, stage, order, buy_price,
                 sold_price, reports, plan_of, order_plan_start_time, late, emulator_vars>>

FindNoPlan ==
  /\ order_plan_info = <<>>
  /\ Goto("check", "toBlock")
  /\ UNCHANGED <<now, order_plan_info, event_pc, received, accepted, stage, order, buy_price,
                 sold_price, reports, plan_of, order_plan_start_time, late, emulator_vars>>

Block ==
  /\ Goto("toBlock", "waiting")
  /\ UNCHANGED <<now, order_plan_info, event_pc, received, accepted, stage, order, buy_price,
                 sold_price, reports, plan_of, order_plan_start_time, late, emulator_vars>>

WakeSpuriously ==
  /\ Goto("waiting", "check")
  /\ UNCHANGED <<now, order_plan_info, event_pc, received, accepted, stage, order, buy_price,
                 sold_price, reports, plan_of, order_plan_start_time, late, emulator_vars>>

-----------------------------------------------------------------------------
(* ProcessOrderPlan and ExecOrder.                                         *)

SendReport(status, bought, sold, start) ==
  reports' = Append(reports, [plan |-> accepted, status |-> status, buy |-> bought, sold |-> sold,
                              start |-> start, duration |-> now - start])

StartPlan ==
  /\ pc = "start"
  /\ order_plan_start_time' = now
  /\ IF Plan.expiration <= now
     THEN SendReport("kPlanExpired", 0, 0, now) /\ pc' = "release" /\ UNCHANGED stage
     ELSE pc' = "exec" /\ stage' = "BUY" /\ UNCHANGED reports
  /\ UNCHANGED <<now, order_plan_info, event_pc, received, accepted, order, buy_price, sold_price,
                 plan_of, late, emulator_vars>>

Expiration ==
  CASE stage = "BUY" -> Plan.expiration_buy
    [] stage = "SELL" -> Plan.expiration_sell
    [] stage = "MARKET" -> 0

OrderInfo ==
  CASE stage = "BUY" -> [side |-> "BUY", type |-> "LIMIT", price |-> Plan.buy]
    [] stage = "SELL" -> [side |-> "SELL", type |-> "LIMIT", price |-> Plan.sell]
    [] stage = "MARKET" -> [side |-> "SELL", type |-> "MARKET", price |-> 0]

\* Mutant: whatever failed, what was to be bought is sold.
MutantOrderFailed ==
  /\ stage' = "MARKET"
  /\ pc' = "exec"
  /\ UNCHANGED reports

\* What ProcessOrderPlan does when ExecOrder returned false.
OrderFailed ==
  \/ /\ stage = "BUY"
     /\ SendReport("kFailedToBuy", 0, 0, order_plan_start_time)
     /\ pc' = "release"
     /\ UNCHANGED stage
  \/ /\ stage = "SELL"
     /\ stage' = "MARKET"
     /\ pc' = "exec"
     /\ UNCHANGED reports

\* The first lines of ExecOrder: the order may have expired already.
CheckExpiration ==
  /\ pc = "exec"
  /\ IF stage # "MARKET" /\ now >= Expiration
     THEN OrderFailed
     ELSE pc' = "place" /\ UNCHANGED <<stage, reports>>
  /\ UNCHANGED <<now, order_plan_info, event_pc, received, accepted, order, buy_price, sold_price,
                 plan_of, order_plan_start_time, late, emulator_vars>>

Place ==
  /\ Goto("place", "await")
  /\ PlaceOrder(OrderInfo)
  /\ order' = unique_id_iterator'
  /\ plan_of' = [plan_of EXCEPT ![order'] = accepted]
  /\ UNCHANGED <<now, order_plan_info, event_pc, received, accepted, stage, buy_price, sold_price,
                 reports, order_plan_start_time, late>>

\* Mutant: the buy's success is reported as the whole plan's.
MutantOrderDone ==
  /\ pc = "await"
  /\ result[order] # NoResult
  /\ stage # "MARKET"
  /\ buy_price' = result[order].price
  /\ SendReport("kOk", result[order].price, Plan.sell, order_plan_start_time)
  /\ pc' = "release"
  /\ UNCHANGED <<now, order_plan_info, event_pc, received, accepted, stage, sold_price, order, plan_of,
                 order_plan_start_time, late, emulator_vars>>

\* order_result became ready before the time was up: ExecOrder returns true.
OrderDone ==
  /\ pc = "await"
  /\ result[order] # NoResult
  /\ \/ /\ stage = "BUY"
        /\ buy_price' = result[order].price
        /\ stage' = "SELL"
        /\ pc' = "exec"
        /\ UNCHANGED <<sold_price, reports>>
     \/ /\ stage # "BUY"
        /\ sold_price' = result[order].price
        /\ SendReport(IF stage = "SELL" THEN "kOk" ELSE "kFailedToProfitSell",
                      buy_price, result[order].price, order_plan_start_time)
        /\ pc' = "release"
        /\ UNCHANGED <<stage, buy_price>>
  /\ UNCHANGED <<now, order_plan_info, event_pc, received, accepted, order, plan_of, order_plan_start_time, late, emulator_vars>>

\* Mutant: the sale is waited for without a time limit.
MutantOrderTimeout ==
  /\ Goto("await", "cancel")
  /\ stage = "BUY"
  /\ now >= Expiration
  /\ result[order] = NoResult
  /\ UNCHANGED <<now, order_plan_info, event_pc, received, accepted, stage, order, buy_price,
                 sold_price, reports, plan_of, order_plan_start_time, late, emulator_vars>>

\* wait_for gave up: not before the expiration, and with no answer then.
OrderTimeout ==
  /\ Goto("await", "cancel")
  /\ stage # "MARKET"
  /\ now >= Expiration
  /\ result[order] = NoResult
  /\ UNCHANGED <<now, order_plan_info, event_pc, received, accepted, stage, order, buy_price,
                 sold_price, reports, plan_of, order_plan_start_time, late, emulator_vars>>

\* Mutant: the order is left on the exchange.
MutantCancel ==
  /\ Goto("cancel", "collect")
  /\ UNCHANGED <<now, order_plan_info, event_pc, received, accepted, stage, order, buy_price,
                 sold_price, reports, plan_of, order_plan_start_time, late, emulator_vars>>

Cancel ==
  /\ Goto("cancel", "collect")
  /\ CancelOrder(order)
  /\ UNCHANGED <<now, order_plan_info, event_pc, received, accepted, stage, order, buy_price,
                 sold_price, reports, plan_of, order_plan_start_time, late>>

\* The result is taken and ExecOrder returns false whatever it is: an order
\* filled between the timeout and the cancel only gets a warning.
CollectCanceled ==
  /\ pc = "collect"
  /\ result[order] # NoResult
  /\ IF stage = "BUY" THEN buy_price' = result[order].price /\ UNCHANGED sold_price
                      ELSE sold_price' = result[order].price /\ UNCHANGED buy_price
  /\ late' = IF result[order].status = "kCanceled" THEN late ELSE late \cup {order}
  /\ OrderFailed
  /\ UNCHANGED <<now, order_plan_info, event_pc, received, accepted, order, plan_of,
                 order_plan_start_time, emulator_vars>>

\* Mutant: the plan stays, and is executed again.
MutantReleasePlan ==
  /\ Goto("release", "check")
  /\ UNCHANGED <<now, order_plan_info, event_pc, received, accepted, stage, order, buy_price, sold_price,
                 reports, plan_of, order_plan_start_time, late, emulator_vars>>

\* order_plan_info_ = nullptr and the next turn of the thread's loop.  Plans
\* that came since TakePlan were dropped, those that come now are kept.
ReleasePlan ==
  /\ Goto("release", "check")
  /\ order_plan_info' = <<>>
  /\ UNCHANGED <<now, event_pc, received, accepted, stage, order, buy_price, sold_price,
                 reports, plan_of, order_plan_start_time, late, emulator_vars>>

PlanThread ==
  \/ TakePlan \/ FindNoPlan \/ Block
  \/ StartPlan \/ CheckExpiration \/ Place \/ OrderDone \/ OrderTimeout
  \/ Cancel \/ CollectCanceled \/ ReleasePlan

-----------------------------------------------------------------------------
(* The order book queue's thread and the clock.                            *)

Snapshot(book) == OnOrderBookStreamEvent(book[1], book[2]) /\ UNCHANGED plan_vars

\* On the clock of an online test time goes on.  A replay's MockTimeProvider may
\* also set it back (mock_time_provider.cc:38-43): that is StrategyTest's.
Tick ==
  /\ now < MaxTime
  /\ now' = now + 1
  /\ UNCHANGED <<order_plan_info, event_pc, received, accepted, pc, stage, order, buy_price,
                 sold_price, reports, plan_of, order_plan_start_time, late, emulator_vars>>

Next ==
  \/ /\ ~promise_error
     /\ \/ \E plan \in Plans : OnOrderPlanStreamEvent(plan)
        \/ NotifyPlan
        \/ PlanThread
        \/ WakeSpuriously
        \/ \E book \in Books : Snapshot(book)
        \/ Tick

\* The threads are scheduled and the clock goes on; nothing obliges the
\* strategy to make a plan, the market to move or a wait to end spuriously.
Fairness == WF_vars(NotifyPlan) /\ WF_vars(PlanThread) /\ WF_vars(Tick)

Spec == Init /\ [][Next]_vars
FairSpec == Spec /\ Fairness

-----------------------------------------------------------------------------
(* Properties.                                                             *)

Working == {"start", "exec", "place", "await", "cancel", "collect", "release"}

\* The types of the emulator's and the manager's variables.
TypeOK ==
  /\ EmulatorTypeOK
  /\ now \in 0..MaxTime
  /\ order_plan_info = <<>> \/ order_plan_info \in {<<plan>> : plan \in Plans}
  /\ event_pc \in {"idle", "notify"}
  /\ received \in 0..MaxPlans
  /\ accepted \in 0..received
  /\ pc \in {"check", "toBlock", "waiting"} \cup Working
  /\ stage \in {"BUY", "SELL", "MARKET"}
  /\ order_plan_start_time \in 0..now
  /\ order \in 0..unique_id_iterator
  /\ buy_price \in Nat
  /\ sold_price \in Nat
  /\ reports \in Seq([plan : 1..MaxPlans, status : Statuses, buy : Nat, sold : Nat,
                      start : Nat, duration : Nat])
  /\ plan_of \in [OrderIds -> 0..MaxPlans]
  /\ late \subseteq Placed

\* At most one order is ever on the exchange, it is the one the plan thread
\* is waiting for or about to cancel, and none is left behind by a plan.  A
\* canceled order has its answer by the time it is collected, so the 60 s wait
\* never runs out and get() never blocks (order_plan_manager.cc:108-149).
OneLiveOrder ==
  /\ orders # {} => orders = {order} /\ pc \in {"await", "cancel"}
  /\ pc = "collect" => result[order] # NoResult

\* Accepted plans are reported at most once, in the order of acceptance, and a
\* plan is accepted only when the one before it has its report: all but the
\* one in process have theirs; that it gets its own is PlansEnd's
\* (order_plan_manager.cc:34-48, 165-184).
OneReportPerPlan ==
  /\ \A k \in DOMAIN reports : reports[k].plan = k
  /\ accepted = Len(reports) + (IF order_plan_info # <<>> /\ pc # "release" THEN 1 ELSE 0)

Filled(n, side) == {id \in Placed : plan_of[id] = n /\ info[id].side = side /\ result[id].status = "kOk"}

\* A report tells what was traded for its plan but for the orders filled
\* between their timeout and their cancel, of which it tells nothing: a plan
\* reported as kFailedToBuy, at no prices, may have bought in such an order, and
\* one reported with a forced sale may have sold in such an order before.  But
\* for those, kOk and kFailedToProfitSell stand for one purchase and one sale
\* at the prices named, the sale in the latter a market order's; an expired
\* plan placed no order (order_plan_manager.cc:57-62, 69-102, 130-146).
ReportsAreHonest ==
  \A k \in DOMAIN reports :
    LET r == reports[k]
        bought == Filled(k, "BUY")
        sold == Filled(k, "SELL")
    IN  CASE r.status = "kPlanExpired" -> \A id \in Placed : plan_of[id] # k
          [] r.status = "kFailedToBuy" ->
               bought \subseteq late /\ sold = {} /\ r.buy = 0 /\ r.sold = 0
          [] r.status = "kOk" ->
               \E b \in bought \ late, s \in sold \ late :
                 bought = {b} /\ sold = {s} /\ r.buy = result[b].price /\ r.sold = result[s].price
          [] r.status = "kFailedToProfitSell" ->
               \E b \in bought \ late, s \in sold \ late :
                 /\ bought = {b} /\ r.buy = result[b].price
                 /\ sold \ late = {s} /\ info[s].type = "MARKET" /\ r.sold = result[s].price

\* The plans' orders never make the emulator set a promise twice, as a market
\* order placed before the first snapshot can: a plan places its market order
\* after its buy was filled, when the market is known, so that the order is
\* answered at once and no snapshot's two passes meet it
\* (order_plan_manager.cc:84-94, real_market_emulator.cc:91-134).
PromiseSetOnce == ~promise_error

\* Between plans every asset bought has been sold, once, but for the orders
\* that were filled between their timeout and their cancel: those are the
\* only leak (order_plan_manager.cc:130-146).
FlatButForLateFills ==
  pc \in {"release", "check", "toBlock", "waiting"} =>
    \A n \in 1..Len(reports) :
      Cardinality(Filled(n, "BUY") \ late) = Cardinality(Filled(n, "SELL") \ late)

\* A plan is taken up when the one before it has been reported.
PlansFollow ==
  \A k \in 2..Len(reports) : reports[k - 1].start + reports[k - 1].duration <= reports[k].start

\* Whatever became of the plans, the total report does not end the program: an
\* executed plan has a price it bought at and no status goes back in time.
\* Plans follow one another, and each is counted once, by its status and, if
\* it was executed, as a gain or a loss (order_plan_manager.cc:50-106,
\* benchmark_data_collector.cc:86-106, 141-164).
TotalReportIsMade ==
  /\ ~ReportExits(reports)
  /\ PlansFollow
  /\ LET count == GetTotalReport(reports).total_count
     IN  count["kOk"] + count["kFailedToProfitSell"] + count["kFailedToBuy"] + count["kPlanExpired"]
         = Len(reports)
  /\ Len(Gains(reports)) + Len(Looses(reports)) = Len(Executed(reports))

\* Every plan the thread takes up comes to its report: no wait is without
\* end, not even the market order's, which has no timeout.
PlansEnd == pc \in Working ~> pc \notin Working

\* The only way an accepted plan is never taken up is that its notification
\* fell between the thread's look at order_plan_info_ and its wait
\* (order_plan_manager.cc:42-44 and 169).
LostWakeup == pc = "waiting" /\ order_plan_info # <<>> /\ event_pc = "idle"
ReportedOrLost == order_plan_info # <<>> ~> (order_plan_info = <<>> \/ LostWakeup)

\* order_plan_manager_tests.cc:103, WhenBuyExperied_ThenBuyOrderCanceled:
\* when a plan is reported as kFailedToBuy its buy order was canceled.
ExpiredBuyIsCanceled ==
  \A k \in DOMAIN reports : reports[k].status = "kFailedToBuy" => Filled(k, "BUY") = {}

=============================================================================
