---------------------------- MODULE OrderPlanProofs ----------------------------
(***************************************************************************)
(* What is proved of OrderPlanManager for any plans, prices and times: its *)
(* types, one live order, at most one report for each plan, and that no    *)
(* promise is set twice; then that reports tell what was traded and no     *)
(* asset is left over, both but for orders filled between their timeout    *)
(* and their cancel, and that the total report can be made of them.  The   *)
(* emulator's invariant is EmulatorProofs'.                                *)
(***************************************************************************)
EXTENDS OrderPlanManager, EmulatorProofs, SelectionProofs, SequenceTheorems

Reports == [plan : 1..MaxPlans, status : Statuses, buy : Nat, sold : Nat,
            start : Nat, duration : Nat]

Waiting == pc \in {"await", "cancel", "collect"}

\* Where the plan thread stands decides whether it has a plan and an order.
ThreadInv ==
  /\ pc \in Working => order_plan_info # <<>>
  /\ Waiting => order \in Placed
  /\ pc = "await" => result[order].status # "kCanceled"

\* The market is known from the first fill on, so a market order never waits
\* and only limit orders are listed.
MarketInv ==
  /\ stage # "BUY" => last_max_buy # NoPrice
  /\ \A id \in Placed :
       result[id] = NoResult \/ result[id].status = "kCanceled" \/ last_max_buy # NoPrice
  /\ \A id \in orders : info[id].type = "LIMIT"

\* The inductive invariant.
PlanInv ==
  /\ IInv
  /\ TypeOK
  /\ ThreadInv
  /\ MarketInv
  /\ OneLiveOrder
  /\ OneReportPerPlan
  /\ PromiseSetOnce

-----------------------------------------------------------------------------
(* Parts of steps.                                                         *)

\* The emulator's invariant does not depend on the plan thread.
LEMMA EmulatorKept ==
  ASSUME PlanInv, UNCHANGED emulator_vars
  PROVE  IInv' /\ EmulatorTypeOK' /\ PromiseSetOnce' /\ Placed' = Placed
<1>1. IInv'
  BY NextIInv DEF PlanInv
<1>2. PromiseSetOnce' /\ Placed' = Placed
  BY DEF PlanInv, PromiseSetOnce, Placed, emulator_vars
<1> QED BY <1>1, <1>2 DEF IInv

\* A stored plan is there.
LEMMA PlanStored ==
  ASSUME TypeOK, order_plan_info # <<>>
  PROVE  /\ order_plan_info \in {<<plan>> : plan \in Plans}
         /\ Plan \in Plans
         /\ Plan.buy \in Nat /\ Plan.sell \in Nat
<1>1. order_plan_info \in {<<plan>> : plan \in Plans}
  BY DEF TypeOK
<1>2. Plan \in Plans
  BY <1>1 DEF Plan
<1>3. Plan \in [buy : Prices, sell : Prices, expiration : Nat,
                expiration_buy : Nat, expiration_sell : Nat]
  BY <1>2, PlanConstants DEF PlanConstants
<1> QED BY <1>1, <1>2, <1>3, EmulatorConstants DEF EmulatorConstants

\* A report is about the plan in process, the first without one.
LEMMA ReportSent ==
  ASSUME PlanInv, pc \in Working, pc # "release",
         NEW status \in Statuses, NEW bought \in Nat, NEW sold \in Nat, NEW start \in 0..now,
         SendReport(status, bought, sold, start), pc' = "release",
         UNCHANGED <<order_plan_info, accepted>>
  PROVE  /\ reports' \in Seq(Reports)
         /\ Len(reports') = Len(reports) + 1
         /\ accepted = Len(reports) + 1
         /\ reports' = Append(reports, [plan |-> accepted, status |-> status, buy |-> bought,
                                        sold |-> sold, start |-> start, duration |-> now - start])
         /\ OneReportPerPlan'
<1> DEFINE r == [plan |-> accepted, status |-> status, buy |-> bought, sold |-> sold,
                 start |-> start, duration |-> now - start]
<1>1. TypeOK /\ OneReportPerPlan /\ order_plan_info # <<>>
  BY DEF PlanInv, ThreadInv
<1>2. reports \in Seq(Reports) /\ Len(reports) \in Nat
  BY <1>1, LenProperties DEF TypeOK, Reports
<1>3. accepted = Len(reports) + 1 /\ accepted \in 1..MaxPlans
  BY <1>1, <1>2, PlanConstants DEF OneReportPerPlan, TypeOK, PlanConstants
<1>4. now - start \in Nat /\ start \in Nat
  BY <1>1, PlanConstants DEF TypeOK, PlanConstants
<1>5. r \in Reports
  BY <1>3, <1>4 DEF Reports
<1>6. reports' = Append(reports, r)
  BY DEF SendReport
<1>7. r.plan = accepted
  OBVIOUS
<1> HIDE DEF r
<1>8. /\ reports' \in Seq(Reports)
      /\ Len(reports') = Len(reports) + 1
      /\ \A k \in 1..Len(reports) : reports'[k] = reports[k]
      /\ reports'[Len(reports) + 1] = r
  BY <1>2, <1>5, <1>6, AppendProperties
<1>9. DOMAIN reports = 1..Len(reports) /\ DOMAIN reports' = 1..(Len(reports) + 1)
  BY <1>2, <1>8, LenProperties
<1>10. OneReportPerPlan'
  <2>1. \A k \in DOMAIN reports' : reports'[k].plan = k
    BY <1>1, <1>2, <1>3, <1>7, <1>8, <1>9 DEF OneReportPerPlan
  <2>2. accepted' = Len(reports')
    BY <1>3, <1>8
  <2> QED BY <1>2, <1>8, <2>1, <2>2 DEF OneReportPerPlan
<1> QED BY <1>3, <1>6, <1>8, <1>10 DEF r

\* A step that leaves plan, reports and emulator alone keeps what is said of them.
LEMMA ReportsKept ==
  ASSUME OneReportPerPlan, UNCHANGED <<reports, accepted, order_plan_info>>,
         (pc = "release") <=> (pc' = "release")
  PROVE  OneReportPerPlan'
BY DEF OneReportPerPlan

-----------------------------------------------------------------------------
(* The initial state.                                                      *)

LEMMA InitPlanInv == Init => PlanInv
<1> SUFFICES ASSUME Init PROVE PlanInv
  OBVIOUS
<1>1. IInv /\ EmulatorTypeOK
  BY InitIInv DEF Init, IInv
<1>2. <<>> \in Seq(Reports) /\ Len(<<>>) = 0
  BY EmptySeq
<1>3. Placed = {} /\ orders = {} /\ unique_id_iterator = 0
  BY DEF Init, EmulatorInit, Placed
<1>4. TypeOK
  BY <1>1, <1>2, <1>3, PlanConstants DEF PlanConstants, Init, TypeOK, Reports, NoOrder, Placed
<1>5. ThreadInv /\ MarketInv /\ OneLiveOrder
  BY <1>3 DEF Init, ThreadInv, MarketInv, OneLiveOrder, Waiting, Working
<1>6. OneReportPerPlan /\ PromiseSetOnce
  BY <1>2 DEF Init, EmulatorInit, OneReportPerPlan, PromiseSetOnce
<1> QED BY <1>1, <1>4, <1>5, <1>6 DEF PlanInv

-----------------------------------------------------------------------------
(* The steps that leave the emulator alone.                                *)

\* Handing a plan over.
LEMMA PlanEventInv ==
  ASSUME PlanInv, NEW plan \in Plans, OnOrderPlanStreamEvent(plan)
  PROVE  PlanInv'
<1>1. TypeOK /\ ThreadInv /\ MarketInv /\ OneLiveOrder /\ OneReportPerPlan
  BY DEF PlanInv
<1>2. UNCHANGED emulator_vars
  BY DEF OnOrderPlanStreamEvent
<1>3. IInv' /\ EmulatorTypeOK' /\ PromiseSetOnce' /\ Placed' = Placed
  BY <1>2, EmulatorKept
<1>4. <<plan>> # <<>> /\ <<plan>> \in {<<p>> : p \in Plans}
  OBVIOUS
<1>5. TypeOK'
  BY <1>1, <1>2, <1>3, <1>4, PlanConstants
  DEF PlanConstants, OnOrderPlanStreamEvent, TypeOK, emulator_vars
<1>6. ThreadInv' /\ MarketInv' /\ OneLiveOrder'
  BY <1>1, <1>2, <1>3, <1>4
  DEF OnOrderPlanStreamEvent, ThreadInv, MarketInv, OneLiveOrder, Waiting, emulator_vars
<1>7. OneReportPerPlan'
  <2>1. UNCHANGED <<reports, pc>>
    BY DEF OnOrderPlanStreamEvent
  <2>2. CASE order_plan_info = <<>>
    <3>1. pc # "release" /\ accepted = Len(reports)
      BY <1>1, <2>2, LenProperties DEF ThreadInv, Working, OneReportPerPlan, TypeOK
    <3>2. order_plan_info' # <<>> /\ accepted' = accepted + 1
      BY <1>4, <2>2 DEF OnOrderPlanStreamEvent
    <3> QED BY <1>1, <2>1, <3>1, <3>2 DEF OneReportPerPlan
  <2>3. CASE order_plan_info # <<>>
    <3>1. UNCHANGED <<order_plan_info, accepted>>
      BY <2>3 DEF OnOrderPlanStreamEvent
    <3> QED BY <1>1, <2>1, <3>1, ReportsKept
  <2> QED BY <2>2, <2>3
<1> QED BY <1>3, <1>5, <1>6, <1>7 DEF PlanInv

\* Steps that only move the plan thread between its places, or the clock.
LEMMA MoveInv ==
  ASSUME PlanInv,
         NotifyPlan \/ TakePlan \/ FindNoPlan \/ Block \/ WakeSpuriously \/ OrderTimeout \/ Tick
  PROVE  PlanInv'
<1>1. TypeOK /\ ThreadInv /\ MarketInv /\ OneLiveOrder /\ OneReportPerPlan
  BY DEF PlanInv
<1>2. UNCHANGED <<order_plan_info, received, accepted, stage, order, buy_price, sold_price, reports,
                  plan_of, order_plan_start_time, late, emulator_vars>>
  BY DEF NotifyPlan, TakePlan, FindNoPlan, Block, WakeSpuriously, OrderTimeout, Tick
<1>3. IInv' /\ EmulatorTypeOK' /\ PromiseSetOnce' /\ Placed' = Placed
  BY <1>2, EmulatorKept
<1>4. /\ pc' # pc => \/ pc \notin Working /\ pc' \in {"check", "start", "toBlock", "waiting"}
                     \/ pc = "await" /\ pc' = "cancel"
      /\ pc' \in Working => order_plan_info # <<>>
  BY <1>1
  DEF NotifyPlan, TakePlan, FindNoPlan, Block, WakeSpuriously, OrderTimeout, Tick, Goto, Working,
      ThreadInv
<1>5. now' \in 0..MaxTime /\ now' >= now /\ event_pc' \in {"idle", "notify"}
  BY <1>1, PlanConstants
  DEF PlanConstants, TypeOK, NotifyPlan, TakePlan, FindNoPlan, Block, WakeSpuriously,
      OrderTimeout, Tick
<1>6. TypeOK'
  BY <1>1, <1>2, <1>3, <1>4, <1>5, PlanConstants
  DEF PlanConstants, TypeOK, Working, emulator_vars
<1>7. ThreadInv' /\ MarketInv' /\ OneLiveOrder'
  BY <1>1, <1>2, <1>3, <1>4
  DEF ThreadInv, MarketInv, OneLiveOrder, Waiting, Working, emulator_vars
<1>8. OneReportPerPlan'
  BY <1>1, <1>2, <1>4, ReportsKept DEF Working
<1> QED BY <1>3, <1>6, <1>7, <1>8 DEF PlanInv

\* A step of the plan thread that sends no report keeps the invariant if it does
\* what its place allows.
LEMMA NoReportInv ==
  ASSUME PlanInv, pc \in Working, pc' \in Working, pc # "release", pc' # "release",
         UNCHANGED <<now, order_plan_info, event_pc, received, accepted, order, reports,
                     plan_of, emulator_vars>>,
         stage' \in {"BUY", "SELL", "MARKET"},
         stage' # "BUY" => last_max_buy # NoPrice,
         order_plan_start_time' \in 0..now,
         buy_price' \in Nat, sold_price' \in Nat, late' \subseteq Placed,
         pc' \in {"exec", "place"},
         pc \in {"start", "exec", "collect"} \/ result[order] # NoResult
  PROVE  PlanInv'
<1>1. TypeOK /\ ThreadInv /\ MarketInv /\ OneLiveOrder /\ OneReportPerPlan
  BY DEF PlanInv
<1>2. IInv' /\ EmulatorTypeOK' /\ PromiseSetOnce' /\ Placed' = Placed
  BY EmulatorKept
<1>3. AnsweredIffGone
  BY DEF PlanInv, IInv
<1>4. TypeOK'
  BY <1>1, <1>2 DEF TypeOK, emulator_vars
<1>5. orders = {}
  <2>1. orders # {} => pc \in {"await", "cancel"} /\ orders = {order}
    BY <1>1 DEF OneLiveOrder
  <2>2. pc \in {"await", "cancel"} => result[order] # NoResult
    OBVIOUS
  <2>3. pc \in {"await", "cancel"} => order \in Placed
    BY <1>1 DEF ThreadInv, Waiting
  <2> QED BY <1>3, <2>1, <2>2, <2>3 DEF AnsweredIffGone
<1>6. ThreadInv' /\ MarketInv' /\ OneLiveOrder'
  BY <1>1, <1>2, <1>5 DEF ThreadInv, MarketInv, OneLiveOrder, Waiting, Working, emulator_vars
<1>7. OneReportPerPlan'
  BY <1>1, ReportsKept
<1> QED BY <1>2, <1>4, <1>6, <1>7 DEF PlanInv

\* A step of the plan thread that sends the report and goes to the release.
LEMMA ReportInv ==
  ASSUME PlanInv, pc \in {"start", "exec", "await", "collect"}, pc' = "release",
         NEW status \in Statuses, NEW bought \in Nat, NEW sold \in Nat, NEW start \in 0..now,
         SendReport(status, bought, sold, start),
         UNCHANGED <<now, order_plan_info, event_pc, received, accepted, order, stage,
                     plan_of, emulator_vars>>,
         order_plan_start_time' \in 0..now,
         buy_price' \in Nat, sold_price' \in Nat, late' \subseteq Placed,
         pc = "await" => result[order] # NoResult
  PROVE  PlanInv'
<1>1. TypeOK /\ ThreadInv /\ MarketInv /\ OneLiveOrder /\ OneReportPerPlan
  BY DEF PlanInv
<1>2. IInv' /\ EmulatorTypeOK' /\ PromiseSetOnce' /\ Placed' = Placed
  BY EmulatorKept
<1>3. AnsweredIffGone
  BY DEF PlanInv, IInv
<1>4. reports' \in Seq(Reports) /\ OneReportPerPlan'
  BY ReportSent DEF Working
<1>5. TypeOK'
  BY <1>1, <1>2, <1>4 DEF TypeOK, Reports, Working, emulator_vars
<1>6. orders = {}
  <2>1. orders # {} => pc = "await" /\ orders = {order}
    BY <1>1 DEF OneLiveOrder
  <2>2. pc = "await" => order \in Placed /\ result[order] # NoResult
    BY <1>1 DEF ThreadInv, Waiting
  <2> QED BY <1>3, <2>1, <2>2 DEF AnsweredIffGone
<1>7. ThreadInv' /\ MarketInv' /\ OneLiveOrder'
  BY <1>1, <1>2, <1>6 DEF ThreadInv, MarketInv, OneLiveOrder, Waiting, Working, emulator_vars
<1> QED BY <1>2, <1>4, <1>5, <1>7 DEF PlanInv

\* A failed purchase is the plan's end, a failed sale is made up for by a
\* market order.
LEMMA FailedInv ==
  ASSUME PlanInv, pc \in {"exec", "collect"}, OrderFailed,
         UNCHANGED <<now, order_plan_info, event_pc, received, accepted, order,
                     plan_of, order_plan_start_time, emulator_vars>>,
         buy_price' \in Nat, sold_price' \in Nat, late' \subseteq Placed
  PROVE  PlanInv'
<1>1. TypeOK /\ MarketInv
  BY DEF PlanInv
<1>2. order_plan_start_time \in 0..now
  BY <1>1 DEF TypeOK
<1>3. CASE stage = "BUY"
  <2>1. /\ SendReport("kFailedToBuy", 0, 0, order_plan_start_time)
        /\ pc' = "release" /\ UNCHANGED stage
    BY <1>3 DEF OrderFailed
  <2>2. "kFailedToBuy" \in Statuses
    BY DEF Statuses
  <2> QED BY <1>2, <2>1, <2>2, ReportInv
<1>4. CASE stage # "BUY"
  <2>1. stage = "SELL" /\ stage' = "MARKET" /\ pc' = "exec" /\ UNCHANGED reports
    BY <1>4 DEF OrderFailed
  <2>2. last_max_buy # NoPrice
    BY <1>1, <1>4 DEF MarketInv
  <2> QED BY <1>2, <2>1, <2>2, NoReportInv DEF Working
<1> QED BY <1>3, <1>4

\* Taking a plan up.
LEMMA StartPlanInv ==
  ASSUME PlanInv, StartPlan
  PROVE  PlanInv'
<1>1. TypeOK
  BY DEF PlanInv
<1>2. /\ pc = "start" /\ order_plan_start_time' = now /\ now \in 0..now
      /\ buy_price' \in Nat /\ sold_price' \in Nat /\ late' \subseteq Placed
      /\ UNCHANGED <<now, order_plan_info, event_pc, received, accepted, order, plan_of,
                     emulator_vars>>
  BY <1>1 DEF StartPlan, TypeOK
<1>3. CASE Plan.expiration <= now
  <2>1. SendReport("kPlanExpired", 0, 0, now) /\ pc' = "release" /\ UNCHANGED stage
    BY <1>3 DEF StartPlan
  <2>2. "kPlanExpired" \in Statuses
    BY DEF Statuses
  <2> QED BY <1>2, <2>1, <2>2, ReportInv
<1>4. CASE ~(Plan.expiration <= now)
  <2>1. pc' = "exec" /\ stage' = "BUY" /\ UNCHANGED reports
    BY <1>4 DEF StartPlan
  <2> QED BY <1>2, <2>1, NoReportInv DEF Working
<1> QED BY <1>3, <1>4

\* The look at the expiration before an order is placed.
LEMMA CheckExpirationInv ==
  ASSUME PlanInv, CheckExpiration
  PROVE  PlanInv'
<1>1. TypeOK /\ MarketInv
  BY DEF PlanInv
<1>2. /\ pc = "exec" /\ order_plan_start_time' \in 0..now
      /\ buy_price' \in Nat /\ sold_price' \in Nat /\ late' \subseteq Placed
      /\ UNCHANGED <<now, order_plan_info, event_pc, received, accepted, order, plan_of,
                     order_plan_start_time, emulator_vars>>
  BY <1>1 DEF CheckExpiration, TypeOK
<1>3. CASE stage # "MARKET" /\ now >= Expiration
  <2>1. OrderFailed
    BY <1>3 DEF CheckExpiration
  <2> QED BY <1>2, <2>1, FailedInv
<1>4. CASE ~(stage # "MARKET" /\ now >= Expiration)
  <2>1. pc' = "place" /\ UNCHANGED <<stage, reports>>
    BY <1>4 DEF CheckExpiration
  <2>2. stage' \in {"BUY", "SELL", "MARKET"} /\ (stage' # "BUY" => last_max_buy # NoPrice)
    BY <1>1, <2>1 DEF TypeOK, MarketInv
  <2> QED BY <1>2, <2>1, <2>2, NoReportInv DEF Working
<1> QED BY <1>3, <1>4

\* An order that was answered in time was filled: the purchase goes on to the
\* sale, the sale to the report.
LEMMA OrderDoneInv ==
  ASSUME PlanInv, OrderDone
  PROVE  PlanInv'
<1>1. TypeOK /\ MarketInv /\ ThreadInv /\ EmulatorTypeOK
  BY DEF PlanInv, TypeOK
<1>2. /\ pc = "await" /\ result[order] # NoResult /\ order_plan_start_time' \in 0..now
      /\ late' \subseteq Placed
      /\ UNCHANGED <<now, order_plan_info, event_pc, received, accepted, order, plan_of,
                     order_plan_start_time, emulator_vars>>
  BY <1>1 DEF OrderDone, TypeOK
<1>3. order \in Placed /\ order \in OrderIds /\ result[order].status # "kCanceled"
  BY <1>1, <1>2, PlacedIds DEF ThreadInv, Waiting
<1>4. /\ result[order] \in [status : {"none", "kOk", "kCanceled"}, price : Nat]
      /\ result[order].price \in Nat
  BY <1>1, <1>3 DEF EmulatorTypeOK
<1>5. buy_price \in Nat /\ sold_price \in Nat
  BY <1>1 DEF TypeOK
<1>6. CASE stage = "BUY"
  <2>1. /\ buy_price' = result[order].price /\ sold_price' = sold_price
        /\ stage' = "SELL" /\ pc' = "exec" /\ UNCHANGED reports
    BY <1>6 DEF OrderDone
  <2>2. last_max_buy # NoPrice
    BY <1>1, <1>2, <1>3 DEF MarketInv
  <2> QED BY <1>2, <1>4, <1>5, <2>1, <2>2, NoReportInv DEF Working
<1>7. CASE stage # "BUY"
  <2> DEFINE status == IF stage = "SELL" THEN "kOk" ELSE "kFailedToProfitSell"
  <2>1. /\ sold_price' = result[order].price /\ buy_price' = buy_price
        /\ SendReport(status, buy_price, result[order].price, order_plan_start_time)
        /\ pc' = "release" /\ UNCHANGED stage
    BY <1>7 DEF OrderDone
  <2>2. status \in Statuses
    BY DEF Statuses
  <2> HIDE DEF status
  <2> QED BY <1>2, <1>4, <1>5, <2>1, <2>2, ReportInv
<1> QED BY <1>6, <1>7

\* Taking the answer of an order that timed out.
LEMMA CollectInv ==
  ASSUME PlanInv, CollectCanceled
  PROVE  PlanInv'
<1>1. TypeOK /\ ThreadInv /\ EmulatorTypeOK
  BY DEF PlanInv, TypeOK
<1>2. /\ pc = "collect" /\ OrderFailed
      /\ UNCHANGED <<now, order_plan_info, event_pc, received, accepted, order, plan_of,
                     order_plan_start_time, emulator_vars>>
  BY DEF CollectCanceled
<1>3. order \in Placed /\ order \in OrderIds
  BY <1>1, <1>2, PlacedIds DEF ThreadInv, Waiting
<1>4. result[order].price \in Nat
  BY <1>1, <1>3 DEF EmulatorTypeOK
<1>5. buy_price' \in Nat /\ sold_price' \in Nat /\ late' \subseteq Placed
  BY <1>1, <1>3, <1>4 DEF CollectCanceled, TypeOK
<1> QED BY <1>2, <1>5, FailedInv

\* Letting the plan go.
LEMMA ReleaseInv ==
  ASSUME PlanInv, ReleasePlan
  PROVE  PlanInv'
<1>1. TypeOK /\ ThreadInv /\ MarketInv /\ OneLiveOrder /\ OneReportPerPlan
  BY DEF PlanInv
<1>2. /\ pc = "release" /\ pc' = "check" /\ order_plan_info' = <<>>
      /\ UNCHANGED <<now, event_pc, received, accepted, stage, order, buy_price, sold_price,
                     reports, plan_of, order_plan_start_time, late, emulator_vars>>
  BY DEF ReleasePlan, Goto
<1>3. IInv' /\ EmulatorTypeOK' /\ PromiseSetOnce' /\ Placed' = Placed
  BY <1>2, EmulatorKept
<1>4. TypeOK'
  BY <1>1, <1>2, <1>3 DEF TypeOK, emulator_vars
<1>5. ThreadInv' /\ MarketInv' /\ OneLiveOrder'
  BY <1>1, <1>2, <1>3 DEF ThreadInv, MarketInv, OneLiveOrder, Waiting, Working, emulator_vars
<1>6. OneReportPerPlan'
  BY <1>1, <1>2 DEF OneReportPerPlan
<1> QED BY <1>3, <1>4, <1>5, <1>6 DEF PlanInv

-----------------------------------------------------------------------------
(* The steps that go to the emulator.                                      *)

\* The order of each stage is one the emulator can take.
LEMMA OrderInfoType ==
  ASSUME PlanInv, pc \in Working
  PROVE  /\ OrderInfo \in [side : Sides, type : Types, price : Nat]
         /\ OrderInfo.type = "MARKET" <=> stage = "MARKET"
<1>1. TypeOK /\ order_plan_info # <<>>
  BY DEF PlanInv, ThreadInv
<1>2. stage \in {"BUY", "SELL", "MARKET"}
  BY <1>1 DEF TypeOK
<1>3. Plan.buy \in Nat /\ Plan.sell \in Nat
  BY <1>1, PlanStored
<1> QED BY <1>2, <1>3 DEF OrderInfo, Sides, Types

\* A market order is only placed on a known market, so it is answered at once;
\* a limit order is then the one that is listed.
LEMMA PlaceInv ==
  ASSUME PlanInv, Place
  PROVE  PlanInv'
<1> DEFINE id == unique_id_iterator + 1
           at_once == OrderInfo.type = "MARKET" /\ last_max_buy # NoPrice
           price == MarketPrice(OrderInfo, last_max_buy, last_min_sell)
<1>1. TypeOK /\ ThreadInv /\ MarketInv /\ OneLiveOrder /\ OneReportPerPlan /\ IInv /\ EmulatorTypeOK
  BY DEF PlanInv, IInv
<1>2. /\ pc = "place" /\ pc' = "await" /\ order' = unique_id_iterator'
      /\ PlaceOrder(OrderInfo)
      /\ plan_of' = [plan_of EXCEPT ![order'] = accepted]
      /\ UNCHANGED <<now, order_plan_info, event_pc, received, accepted, stage, buy_price,
                     sold_price, reports, order_plan_start_time, late>>
  BY DEF Place, Goto
<1>3. OrderInfo \in [side : Sides, type : Types, price : Nat]
  BY <1>2, OrderInfoType DEF Working
<1>4. IInv' /\ EmulatorTypeOK'
  BY <1>1, <1>2, <1>3, PlaceOrderInv DEF IInv
<1>5. /\ id \in OrderIds /\ id \notin orders
      /\ unique_id_iterator' = id
      /\ info' = [info EXCEPT ![id] = OrderInfo]
      /\ UNCHANGED <<last_max_buy, last_min_sell, promise_error, seen>>
  BY <1>1, <1>2, <1>3, PlaceOrderStep
<1>6. at_once => orders' = orders /\ result' = [result EXCEPT ![id] = Ok(price)]
  BY <1>1, <1>2, <1>3, PlaceOrderStep
<1>7. ~at_once => orders' = orders \cup {id} /\ result' = result
  BY <1>1, <1>2, <1>3, PlaceOrderStep
<1>8. orders = {}
  BY <1>1, <1>2 DEF OneLiveOrder
<1>9. ~at_once => OrderInfo.type = "LIMIT"
  BY <1>1, <1>2, <1>3, OrderInfoType DEF MarketInv, Working, Types
<1>10. Placed' = Placed \cup {id} /\ Placed \subseteq OrderIds /\ id \notin Placed
  <2>1. Placed \subseteq OrderIds
    BY <1>1, PlacedIds
  <2>2. unique_id_iterator \in Nat
    BY <1>1 DEF EmulatorTypeOK
  <2>3. 1..(unique_id_iterator + 1) = (1..unique_id_iterator) \cup {unique_id_iterator + 1}
    BY <2>2
  <2> QED BY <1>5, <2>1, <2>2, <2>3 DEF Placed
<1>11. /\ info'[id] = OrderInfo
       /\ \A i \in Placed : info'[i] = info[i] /\ result'[i] = result[i]
       /\ result'[id] = IF at_once THEN Ok(price) ELSE result[id]
  BY <1>1, <1>5, <1>6, <1>7, <1>10 DEF EmulatorTypeOK
<1>12. result[id] = NoResult
  BY <1>1, <1>5 DEF IInv, FreshIds, EmulatorTypeOK
<1>13. Ok(price).status = "kOk" /\ NoResult.status = "none"
  BY DEF Ok, NoResult
<1> HIDE DEF id, at_once, price
<1>14. TypeOK'
  <2>1. unique_id_iterator' \in Nat /\ order' \in 0..unique_id_iterator'
    BY <1>2, <1>4 DEF EmulatorTypeOK
  <2>2. accepted \in 0..MaxPlans
    BY <1>1, PlanConstants DEF TypeOK, PlanConstants
  <2>3. plan_of' \in [OrderIds -> 0..MaxPlans]
    BY <1>1, <1>2, <2>2 DEF TypeOK
  <2>4. late' \subseteq Placed'
    BY <1>1, <1>2, <1>10 DEF TypeOK
  <2> QED BY <1>1, <1>2, <1>4, <2>1, <2>3, <2>4 DEF TypeOK, Working
<1>15. ThreadInv'
  BY <1>1, <1>2, <1>5, <1>10, <1>11, <1>12, <1>13 DEF ThreadInv, Waiting, Working
<1>16. MarketInv'
  <2>1. at_once => last_max_buy # NoPrice
    BY DEF at_once
  <2>2. \A i \in orders' : info'[i].type = "LIMIT"
    BY <1>6, <1>7, <1>8, <1>9, <1>11
  <2> QED BY <1>1, <1>2, <1>5, <1>10, <1>11, <1>12, <2>1, <2>2 DEF MarketInv
<1>17. OneLiveOrder'
  BY <1>2, <1>5, <1>6, <1>7, <1>8 DEF OneLiveOrder
<1>18. OneReportPerPlan' /\ PromiseSetOnce'
  BY <1>1, <1>2, <1>5, ReportsKept DEF PromiseSetOnce, PlanInv
<1> QED BY <1>4, <1>14, <1>15, <1>16, <1>17, <1>18 DEF PlanInv

\* A canceled order has its answer: it was the one listed, or was filled before.
LEMMA CancelInv ==
  ASSUME PlanInv, Cancel
  PROVE  PlanInv'
<1>1. TypeOK /\ ThreadInv /\ MarketInv /\ OneLiveOrder /\ OneReportPerPlan /\ IInv /\ EmulatorTypeOK
  BY DEF PlanInv, IInv
<1>2. /\ pc = "cancel" /\ pc' = "collect" /\ CancelOrder(order)
      /\ UNCHANGED <<now, order_plan_info, event_pc, received, accepted, stage, order, buy_price,
                     sold_price, reports, plan_of, order_plan_start_time, late>>
  BY DEF Cancel, Goto
<1>3. order \in Placed /\ order \in OrderIds /\ Placed \subseteq OrderIds
  BY <1>1, <1>2, PlacedIds DEF ThreadInv, Waiting
<1>4. /\ UNCHANGED <<unique_id_iterator, info, last_max_buy, last_min_sell, promise_error, seen>>
      /\ orders' = orders \ {order}
      /\ order \in orders => result' = [result EXCEPT ![order] = Canceled(info[order].price)]
      /\ order \notin orders => UNCHANGED <<orders, result>>
  BY <1>1, <1>2, <1>3, CancelOrderStep
<1>5. IInv' /\ EmulatorTypeOK' /\ Placed' = Placed
  BY <1>1, <1>2, <1>3, <1>4, CancelOrderInv DEF IInv, Placed
<1>6. orders' = {}
  BY <1>1, <1>4 DEF OneLiveOrder
<1>7. \A id \in Placed : result'[id] = result[id] \/ result'[id].status = "kCanceled"
  BY <1>1, <1>3, <1>4 DEF EmulatorTypeOK, Canceled
<1>8. result'[order] # NoResult
  BY <1>3, <1>5, <1>6 DEF IInv, AnsweredIffGone
<1>9. TypeOK'
  BY <1>1, <1>2, <1>4, <1>5 DEF TypeOK, Working
<1>10. ThreadInv' /\ MarketInv' /\ OneLiveOrder'
  BY <1>1, <1>2, <1>3, <1>4, <1>5, <1>6, <1>7, <1>8
  DEF ThreadInv, MarketInv, OneLiveOrder, Waiting, Working
<1>11. OneReportPerPlan' /\ PromiseSetOnce'
  BY <1>1, <1>2, <1>4, ReportsKept DEF PromiseSetOnce, PlanInv
<1> QED BY <1>5, <1>9, <1>10, <1>11 DEF PlanInv

\* No market order is listed, so a snapshot's two passes never meet.
LEMMA PlanSnapshotInv ==
  ASSUME PlanInv, NEW book \in Books, Snapshot(book)
  PROVE  /\ PlanInv'
         /\ result' = [id \in OrderIds |->
                         IF id \in Satisfied(book) THEN Ok(FillPrice(id, book)) ELSE result[id]]
         /\ UNCHANGED <<unique_id_iterator, info>>
         /\ Placed' = Placed
<1>1. TypeOK /\ ThreadInv /\ MarketInv /\ OneLiveOrder /\ OneReportPerPlan /\ IInv /\ EmulatorTypeOK
  BY DEF PlanInv, IInv
<1>2. OnOrderBookStreamEvent(book[1], book[2]) /\ UNCHANGED plan_vars
  BY DEF Snapshot
<1>3. ~promise_error'
  <2>1. ProcessMarketTypeOrders(orders, info, book[1], book[2]) = {}
    BY <1>1 DEF ProcessMarketTypeOrders, MarketInv
  <2>2. UNCHANGED promise_error
    BY <1>2, <2>1 DEF OnOrderBookStreamEvent
  <2> QED BY <2>2 DEF PlanInv, PromiseSetOnce
<1>4. /\ UNCHANGED <<unique_id_iterator, info, promise_error>>
      /\ last_max_buy' = book[1] /\ last_min_sell' = book[2]
      /\ orders' = orders \ Satisfied(book)
      /\ result' = [id \in OrderIds |->
                      IF id \in Satisfied(book) THEN Ok(FillPrice(id, book)) ELSE result[id]]
  BY <1>1, <1>2, <1>3, SnapshotStep
<1>5. IInv' /\ EmulatorTypeOK' /\ Placed' = Placed
  BY <1>1, <1>2, <1>4, SnapshotInv DEF IInv, Placed
<1>6. book[1] # NoPrice
  BY BookPrices DEF NoPrice
<1>7. \A id \in OrderIds : result'[id] = result[id] \/ result'[id].status = "kOk"
  BY <1>4 DEF Ok
<1>8. TypeOK'
  BY <1>1, <1>2, <1>4, <1>5 DEF TypeOK, plan_vars
<1>9. ThreadInv'
  BY <1>1, <1>2, <1>5, <1>7, PlacedIds DEF ThreadInv, Waiting, plan_vars
<1>10. MarketInv'
  BY <1>1, <1>2, <1>4, <1>6 DEF MarketInv, plan_vars
<1>11. OneLiveOrder'
  <2>1. pc = "collect" => order \in Placed /\ order \notin orders
    BY <1>1 DEF OneLiveOrder, ThreadInv, Waiting
  <2>2. pc = "collect" => result'[order] # NoResult
    BY <1>1, <1>4, <1>5, <2>1 DEF IInv, AnsweredIffGone
  <2> QED BY <1>1, <1>2, <1>4, <2>2 DEF OneLiveOrder, plan_vars
<1>12. OneReportPerPlan' /\ PromiseSetOnce'
  BY <1>1, <1>2, <1>3, ReportsKept DEF PromiseSetOnce, plan_vars
<1> QED BY <1>4, <1>5, <1>8, <1>9, <1>10, <1>11, <1>12 DEF PlanInv

-----------------------------------------------------------------------------
(* The theorems.                                                           *)

\* Every step keeps the inductive invariant.
LEMMA NextPlanInv == PlanInv /\ [Next]_vars => PlanInv'
<1> SUFFICES ASSUME PlanInv, [Next]_vars PROVE PlanInv'
  OBVIOUS
<1>1. ASSUME NEW plan \in Plans, OnOrderPlanStreamEvent(plan) PROVE PlanInv'
  BY <1>1, PlanEventInv
<1>2. CASE NotifyPlan \/ TakePlan \/ FindNoPlan \/ Block \/ WakeSpuriously \/ OrderTimeout \/ Tick
  BY <1>2, MoveInv
<1>3. CASE StartPlan
  BY <1>3, StartPlanInv
<1>4. CASE CheckExpiration
  BY <1>4, CheckExpirationInv
<1>5. CASE Place
  BY <1>5, PlaceInv
<1>6. CASE OrderDone
  BY <1>6, OrderDoneInv
<1>7. CASE Cancel
  BY <1>7, CancelInv
<1>8. CASE CollectCanceled
  BY <1>8, CollectInv
<1>9. CASE ReleasePlan
  BY <1>9, ReleaseInv
<1>10. ASSUME NEW book \in Books, Snapshot(book) PROVE PlanInv'
  BY <1>10, PlanSnapshotInv
<1>11. CASE UNCHANGED vars
  <2>1. UNCHANGED emulator_vars /\ UNCHANGED plan_vars
    BY <1>11 DEF vars
  <2>2. IInv' /\ EmulatorTypeOK' /\ PromiseSetOnce' /\ Placed' = Placed
    BY <2>1, EmulatorKept
  <2> QED
    BY <2>1, <2>2
    DEF PlanInv, TypeOK, ThreadInv, MarketInv, OneLiveOrder, OneReportPerPlan, Waiting,
        plan_vars, emulator_vars
<1> QED
  BY <1>1, <1>2, <1>3, <1>4, <1>5, <1>6, <1>7, <1>8, <1>9, <1>10, <1>11 DEF Next, PlanThread

\* The invariant behind the theorems below holds in every reachable state.
LEMMA PlanInvariant == Spec => []PlanInv
BY InitPlanInv, NextPlanInv, PTL DEF Spec

\* The manager's and the emulator's variables keep their types
\* (order_plan_manager.cc:34-186).
THEOREM PlanTypeCorrect == Spec => []TypeOK
<1>1. PlanInv => TypeOK
  BY DEF PlanInv
<1> QED BY <1>1, PlanInvariant, PTL

\* Whatever the plans, the prices and the interleaving of the four threads,
\* at most one order is on the exchange, and a canceled order has its
\* answer when it is collected (order_plan_manager.cc:108-149).
THEOREM OneLiveOrderCorrect == Spec => []OneLiveOrder
<1>1. PlanInv => OneLiveOrder
  BY DEF PlanInv
<1> QED BY <1>1, PlanInvariant, PTL

\* A plan handed over gets at most one report, in order, and all but the one in
\* process have theirs, however many are dropped meanwhile
\* (order_plan_manager.cc:34-48, 165-184).
THEOREM OneReportCorrect == Spec => []OneReportPerPlan
<1>1. PlanInv => OneReportPerPlan
  BY DEF PlanInv
<1> QED BY <1>1, PlanInvariant, PTL

\* The orders of plans never make the emulator set a promise twice
\* (real_market_emulator.cc:91-134).
THEOREM PromiseCorrect == Spec => []PromiseSetOnce
<1>1. PlanInv => PromiseSetOnce
  BY DEF PlanInv
<1> QED BY <1>1, PlanInvariant, PTL

-----------------------------------------------------------------------------
(* Orders and what was traded: the invariant behind the reports.           *)

OrdersOf(n) == {id \in Placed : plan_of[id] = n}

InExec == pc \in {"exec", "place", "await", "cancel", "collect"}

\* The orders of the plan in process but the one that is waited for.
Past == OrdersOf(accepted) \ (IF Waiting THEN {order} ELSE {})

\* The purchase of the plan in process, and a sale it gave up.
Bought(id) ==
  /\ info[id].side = "BUY" /\ id \notin late
  /\ result[id].status = "kOk" /\ result[id].price = buy_price

GivenUp(id) ==
  /\ info[id].side = "SELL"
  /\ result[id].status = "kCanceled" \/ id \in late

\* Orders belong to plans handed over; a plan has none before it is started,
\* and the one waited for is what the stage orders.
PlanOrders ==
  /\ \A id \in Placed : plan_of[id] <= accepted
  /\ \A id \in Placed : result[id] = NoResult \/ result[id].status \in {"kOk", "kCanceled"}
  /\ (~InExec /\ pc # "release" /\ order_plan_info # <<>>) => OrdersOf(accepted) = {}
  /\ Waiting => plan_of[order] = accepted /\ info[order] = OrderInfo /\ order \notin late

\* What a plan has traded by the stage it is in.
StageInv ==
  InExec =>
    /\ stage = "BUY" => Past = {}
    /\ stage # "BUY" => \E b \in Past :
                          /\ Bought(b)
                          /\ \A id \in Past \ {b} : GivenUp(id)
                          /\ stage = "SELL" => Past = {b}

\* ReportsAreHonest for one report.
Honest(k, r) ==
  CASE r.status = "kPlanExpired" -> \A id \in Placed : plan_of[id] # k
    [] r.status = "kFailedToBuy" ->
         Filled(k, "BUY") \subseteq late /\ Filled(k, "SELL") = {} /\ r.buy = 0 /\ r.sold = 0
    [] r.status = "kOk" ->
         \E b \in Filled(k, "BUY") \ late, s \in Filled(k, "SELL") \ late :
           /\ Filled(k, "BUY") = {b} /\ Filled(k, "SELL") = {s}
           /\ r.buy = result[b].price /\ r.sold = result[s].price
    [] r.status = "kFailedToProfitSell" ->
         \E b \in Filled(k, "BUY") \ late, s \in Filled(k, "SELL") \ late :
           /\ Filled(k, "BUY") = {b} /\ r.buy = result[b].price
           /\ Filled(k, "SELL") \ late = {s}
           /\ info[s].type = "MARKET" /\ r.sold = result[s].price

\* FlatButForLateFills for one plan.
Flat(n) == Cardinality(Filled(n, "BUY") \ late) = Cardinality(Filled(n, "SELL") \ late)

ReportedInv == \A k \in 1..Len(reports) : Honest(k, reports[k]) /\ Flat(k)

\* The inductive invariant.
TradeInv == PlanInv /\ PlanOrders /\ StageInv /\ ReportedInv

-----------------------------------------------------------------------------
(* What stays as it is.                                                    *)

\* The orders of plan n are the same after a step, and so are their answers.
SameOrders(n) ==
  /\ OrdersOf(n)' = OrdersOf(n)
  /\ \A id \in OrdersOf(n) :
       /\ info'[id] = info[id] /\ result'[id] = result[id] /\ plan_of'[id] = plan_of[id]
       /\ id \in late' <=> id \in late

\* What was filled for a plan is said by its orders.
LEMMA FilledOrders ==
  ASSUME NEW n, NEW side
  PROVE  Filled(n, side) = {id \in OrdersOf(n) : info[id].side = side /\ result[id].status = "kOk"}
BY DEF Filled, OrdersOf

\* If a plan's orders are the same, what is true of its report stays true.
LEMMA SettledKept ==
  ASSUME NEW n, NEW r, r.status \in Statuses, SameOrders(n)
  PROVE  /\ Honest(n, r) => Honest(n, r)'
         /\ Flat(n) => Flat(n)'
<1>1. \A side : Filled(n, side)' = Filled(n, side)
  BY DEF SameOrders, Filled, OrdersOf
<1>2. \A side : (Filled(n, side) \ late)' = Filled(n, side) \ late
  BY <1>1 DEF SameOrders, Filled, OrdersOf
<1>3. \A side : \A id \in Filled(n, side) : info'[id] = info[id] /\ result'[id] = result[id]
  BY DEF SameOrders, Filled, OrdersOf
<1>4. (\A id \in Placed : plan_of[id] # n) => (\A id \in Placed : plan_of[id] # n)'
  BY DEF SameOrders, OrdersOf
<1>5. Honest(n, r) => Honest(n, r)'
  <2>1. CASE r.status = "kPlanExpired"
    BY <1>4, <2>1 DEF Honest
  <2>2. CASE r.status = "kFailedToBuy"
    <3>1. Filled(n, "BUY") \subseteq late <=> Filled(n, "BUY") \ late = {}
      OBVIOUS
    <3>2. Filled(n, "BUY")' \subseteq late' <=> Filled(n, "BUY")' \ late' = {}
      OBVIOUS
    <3> QED BY <1>1, <1>2, <2>2, <3>1, <3>2 DEF Honest
  <2>3. CASE r.status = "kOk"
    BY <1>1, <1>2, <1>3, <2>3 DEF Honest
  <2>4. CASE r.status = "kFailedToProfitSell"
    BY <1>1, <1>2, <1>3, <2>4 DEF Honest
  <2> QED BY <2>1, <2>2, <2>3, <2>4 DEF Statuses
<1>6. Flat(n) => Flat(n)'
  BY <1>2 DEF Flat
<1> QED BY <1>5, <1>6

\* While a plan is in process it is the one after those reported.
LEMMA InProcess ==
  ASSUME PlanInv
  PROVE  /\ reports \in Seq(Reports) /\ Len(reports) \in Nat
         /\ DOMAIN reports = 1..Len(reports)
         /\ accepted \in Nat /\ accepted >= Len(reports)
         /\ (pc \in Working /\ pc # "release") => accepted = Len(reports) + 1
<1>1. TypeOK /\ OneReportPerPlan /\ ThreadInv
  BY DEF PlanInv
<1>2. /\ reports \in Seq(Reports) /\ Len(reports) \in Nat
      /\ DOMAIN reports = 1..Len(reports)
  BY <1>1, LenProperties DEF TypeOK, Reports
<1>3. accepted = Len(reports) + (IF order_plan_info # <<>> /\ pc # "release" THEN 1 ELSE 0)
  BY <1>1 DEF OneReportPerPlan
<1>4. accepted \in Nat /\ accepted >= Len(reports)
  <2>1. accepted = Len(reports) \/ accepted = Len(reports) + 1
    BY <1>3
  <2>2. Len(reports) \in Nat
    BY <1>2
  <2> HIDE <1>2, <1>3
  <2> QED BY <2>1, <2>2
<1>5. (pc \in Working /\ pc # "release") => accepted = Len(reports) + 1
  BY <1>1, <1>3 DEF ThreadInv
<1> QED BY <1>2, <1>4, <1>5

\* Reports have a status.
LEMMA ReportStatus ==
  ASSUME PlanInv
  PROVE  \A k \in 1..Len(reports) : reports[k].status \in Statuses
<1> SUFFICES ASSUME NEW k \in 1..Len(reports) PROVE reports[k] \in Reports
  BY DEF Reports
<1> QED BY InProcess

\* A step that sends no report and leaves the reported plans' orders alone.
LEMMA ReportedKept ==
  ASSUME TradeInv, UNCHANGED reports, \A n \in 1..Len(reports) : SameOrders(n)
  PROVE  ReportedInv'
<1>1. \A k \in 1..Len(reports) : reports[k].status \in Statuses
  BY ReportStatus DEF TradeInv
<1> QED BY <1>1, SettledKept DEF TradeInv, ReportedInv

\* A step that leaves emulator and orders alone leaves every plan's alone.
LEMMA AllSame ==
  ASSUME UNCHANGED <<emulator_vars, plan_of, late>>
  PROVE  /\ Placed' = Placed
         /\ \A n : SameOrders(n)
<1>1. Placed' = Placed
  BY DEF Placed, emulator_vars
<1> QED BY <1>1 DEF SameOrders, OrdersOf, emulator_vars

\* The stage's invariant is about the orders behind the plan.
LEMMA StageKept ==
  ASSUME TradeInv, InExec, UNCHANGED <<stage, buy_price>>, Past' = Past,
         \A id \in Past : /\ info'[id] = info[id] /\ result'[id] = result[id]
                          /\ id \in late' <=> id \in late
  PROVE  StageInv'
BY DEF TradeInv, StageInv, Bought, GivenUp

\* The last report is about the plan in process, with what was traded for it.
LEMMA NewReport ==
  ASSUME TradeInv, pc \in Working, pc # "release", PlanInv',
         NEW status \in Statuses, NEW bought \in Nat, NEW sold \in Nat, NEW start \in 0..now,
         SendReport(status, bought, sold, start), pc' = "release",
         UNCHANGED <<order_plan_info, accepted>>,
         \A n \in 1..Len(reports) : SameOrders(n),
         Flat(accepted)',
         \A r : (r.status = status /\ r.buy = bought /\ r.sold = sold) => Honest(accepted, r)'
  PROVE  ReportedInv'
<1> DEFINE r == [plan |-> accepted, status |-> status, buy |-> bought, sold |-> sold,
                 start |-> start, duration |-> now - start]
<1>1. /\ reports' \in Seq(Reports) /\ Len(reports') = Len(reports) + 1
      /\ accepted = Len(reports) + 1
      /\ reports' = Append(reports, r)
  BY ReportSent DEF TradeInv
<1>2. reports \in Seq(Reports) /\ Len(reports) \in Nat
  BY InProcess DEF TradeInv
<1>3. r.status = status /\ r.buy = bought /\ r.sold = sold
  OBVIOUS
<1> HIDE DEF r
<1>4. /\ \A k \in 1..Len(reports) : reports'[k] = reports[k]
      /\ reports'[Len(reports) + 1] = r
  BY <1>1, <1>2
<1> SUFFICES ASSUME NEW k \in 1..Len(reports')
             PROVE  Honest(k, reports[k])' /\ Flat(k)'
  BY DEF ReportedInv
<1>5. CASE k \in 1..Len(reports)
  BY <1>4, <1>5, SettledKept, ReportStatus DEF TradeInv, ReportedInv
<1>6. CASE k = Len(reports) + 1
  BY <1>1, <1>3, <1>4, <1>6
<1> QED BY <1>1, <1>2, <1>5, <1>6

-----------------------------------------------------------------------------
(* The initial state.                                                      *)

LEMMA InitTradeInv == Init => TradeInv
<1> SUFFICES ASSUME Init PROVE TradeInv
  OBVIOUS
<1>1. PlanInv
  BY InitPlanInv
<1>2. Placed = {} /\ pc = "check" /\ order_plan_info = <<>> /\ reports = <<>>
  BY DEF Init, EmulatorInit, Placed
<1>3. PlanOrders /\ StageInv
  BY <1>2 DEF PlanOrders, StageInv, InExec, Waiting
<1>4. 1..Len(reports) = {}
  BY <1>2
<1>5. ReportedInv
  BY <1>4 DEF ReportedInv
<1> QED BY <1>1, <1>3, <1>5 DEF TradeInv

-----------------------------------------------------------------------------
(* The steps that leave the emulator alone.                                *)

\* A plan that is handed over has no order.
LEMMA PlanEventTrade ==
  ASSUME TradeInv, PlanInv', NEW plan \in Plans, OnOrderPlanStreamEvent(plan)
  PROVE  TradeInv'
<1>1. PlanInv /\ PlanOrders /\ StageInv /\ ThreadInv
  BY DEF TradeInv, PlanInv
<1>2. UNCHANGED <<pc, stage, order, buy_price, reports, plan_of, late, emulator_vars>>
  BY DEF OnOrderPlanStreamEvent
<1>3. Placed' = Placed /\ \A n : SameOrders(n)
  BY <1>2, AllSame
<1>4. ReportedInv'
  BY <1>2, <1>3, ReportedKept
<1>5. CASE order_plan_info # <<>>
  <2>1. UNCHANGED <<order_plan_info, accepted>>
    BY <1>5 DEF OnOrderPlanStreamEvent
  <2>2. PlanOrders'
    BY <1>1, <1>2, <1>3, <2>1
    DEF PlanOrders, OrdersOf, InExec, Waiting, OrderInfo, Plan, emulator_vars
  <2>3. StageInv'
    BY <1>1, <1>2, <1>3, <2>1
    DEF StageInv, InExec, Past, OrdersOf, Waiting, Bought, GivenUp, emulator_vars
  <2> QED BY <1>4, <2>2, <2>3 DEF TradeInv
<1>6. CASE order_plan_info = <<>>
  <2>1. ~InExec /\ ~InExec' /\ ~Waiting'
    BY <1>1, <1>2, <1>6 DEF ThreadInv, Working, InExec, Waiting
  <2>2. accepted' = accepted + 1 /\ accepted \in Nat
    BY <1>1, <1>6, InProcess DEF OnOrderPlanStreamEvent
  <2>3. plan_of \in [OrderIds -> 0..MaxPlans] /\ Placed \subseteq OrderIds
    BY <1>1, PlacedIds DEF PlanInv, TypeOK
  <2>4. \A id \in Placed : plan_of[id] \in Nat /\ plan_of[id] <= accepted
    BY <1>1, <2>3, PlanConstants DEF PlanConstants, PlanOrders
  <2>5. \A id \in Placed : plan_of[id] <= accepted + 1 /\ plan_of[id] # accepted + 1
    BY <2>2, <2>4
  <2>6. PlanOrders'
    BY <1>1, <1>2, <1>3, <2>1, <2>2, <2>5 DEF PlanOrders, OrdersOf, emulator_vars
  <2>7. StageInv'
    BY <2>1 DEF StageInv
  <2> QED BY <1>4, <2>6, <2>7 DEF TradeInv
<1> QED BY <1>5, <1>6

\* Moving the plan thread between its places, or the clock.
LEMMA MoveTrade ==
  ASSUME TradeInv, PlanInv',
         NotifyPlan \/ TakePlan \/ FindNoPlan \/ Block \/ WakeSpuriously \/ OrderTimeout \/ Tick
  PROVE  TradeInv'
<1>1. PlanInv /\ PlanOrders /\ StageInv
  BY DEF TradeInv
<1>2. UNCHANGED <<order_plan_info, accepted, stage, order, buy_price, reports, plan_of, late,
                  emulator_vars>>
  BY DEF NotifyPlan, TakePlan, FindNoPlan, Block, WakeSpuriously, OrderTimeout, Tick
<1>3. (InExec' <=> InExec) /\ (Waiting' <=> Waiting) /\ (pc' = "release" <=> pc = "release")
  BY DEF NotifyPlan, TakePlan, FindNoPlan, Block, WakeSpuriously, OrderTimeout, Tick, Goto,
         InExec, Waiting
<1>4. Placed' = Placed /\ \A n : SameOrders(n)
  BY <1>2, AllSame
<1>5. ReportedInv'
  BY <1>2, <1>4, ReportedKept
<1>6. PlanOrders'
  BY <1>1, <1>2, <1>3, <1>4 DEF PlanOrders, OrdersOf, OrderInfo, Plan, emulator_vars
<1>7. StageInv'
  BY <1>1, <1>2, <1>3, <1>4 DEF StageInv, Past, OrdersOf, Bought, GivenUp, emulator_vars
<1> QED BY <1>5, <1>6, <1>7 DEF TradeInv

\* What holds of a plan's orders once the thread has left ExecOrder.
LEMMA Reported ==
  ASSUME TradeInv, PlanInv', ReportedInv', pc' = "release", pc \in Working,
         UNCHANGED <<accepted, plan_of, emulator_vars>>
  PROVE  TradeInv'
<1>1. Placed' = Placed
  BY DEF Placed, emulator_vars
<1>2. ~InExec' /\ ~Waiting'
  BY DEF InExec, Waiting
<1>3. PlanOrders'
  BY <1>1, <1>2 DEF TradeInv, PlanOrders, emulator_vars
<1>4. StageInv'
  BY <1>2 DEF StageInv
<1> QED BY <1>3, <1>4 DEF TradeInv

\* A plan that is taken up has no order: it starts with none, or is reported
\* as expired.
LEMMA StartPlanTrade ==
  ASSUME TradeInv, PlanInv', StartPlan
  PROVE  TradeInv'
<1>1. PlanInv /\ PlanOrders /\ TypeOK /\ ThreadInv
  BY DEF TradeInv, PlanInv
<1>2. /\ pc = "start"
      /\ UNCHANGED <<now, order_plan_info, accepted, order, plan_of, late, emulator_vars>>
  BY DEF StartPlan
<1>3. Placed' = Placed /\ \A n : SameOrders(n)
  BY <1>2, AllSame
<1>4. OrdersOf(accepted) = {}
  BY <1>1, <1>2 DEF PlanOrders, InExec, ThreadInv, Working
<1>5. CASE Plan.expiration <= now
  <2>1. SendReport("kPlanExpired", 0, 0, now) /\ pc' = "release"
    BY <1>5 DEF StartPlan
  <2>2. "kPlanExpired" \in Statuses /\ now \in 0..now
    BY <1>1 DEF Statuses, TypeOK
  <2>3. OrdersOf(accepted)' = {}
    BY <1>2, <1>3, <1>4 DEF SameOrders
  <2>4. Flat(accepted)'
    BY <2>3 DEF Flat, Filled, OrdersOf
  <2>5. \A r : r.status = "kPlanExpired" => Honest(accepted, r)'
    BY <2>3 DEF Honest, OrdersOf
  <2>6. ReportedInv'
    BY <1>2, <1>3, <2>1, <2>2, <2>4, <2>5, NewReport DEF Working
  <2> QED BY <1>2, <2>1, <2>6, Reported DEF Working
<1>6. CASE ~(Plan.expiration <= now)
  <2>1. pc' = "exec" /\ stage' = "BUY" /\ UNCHANGED reports
    BY <1>6 DEF StartPlan
  <2>2. ~Waiting' /\ InExec'
    BY <2>1 DEF Waiting, InExec
  <2>3. PlanOrders'
    BY <1>1, <1>2, <1>3, <2>2 DEF PlanOrders, emulator_vars
  <2>4. StageInv'
    BY <1>2, <1>3, <1>4, <2>1 DEF StageInv, Past, SameOrders
  <2> QED BY <1>3, <2>1, <2>3, <2>4, ReportedKept DEF TradeInv
<1> QED BY <1>5, <1>6

\* Collecting an order makes no difference to the plans that were reported.
LEMMA OthersSame ==
  ASSUME TradeInv, Waiting, UNCHANGED <<plan_of, emulator_vars>>,
         late' \subseteq late \cup {order}, late \subseteq late'
  PROVE  /\ Placed' = Placed
         /\ \A n \in 1..Len(reports) : SameOrders(n)
<1>1. Placed' = Placed
  BY DEF Placed, emulator_vars
<1>2. plan_of[order] = Len(reports) + 1 /\ Len(reports) \in Nat
  BY InProcess DEF TradeInv, PlanOrders, Waiting, Working
<1>3. \A n \in 1..Len(reports) : \A id \in OrdersOf(n) : id # order
  BY <1>2 DEF OrdersOf
<1>4. \A n \in 1..Len(reports) : SameOrders(n)
  BY <1>1, <1>3 DEF SameOrders, OrdersOf, emulator_vars
<1> QED BY <1>1, <1>4

\* A purchase that failed leaves nothing, or an order filled too late; a
\* sale that failed is given up.
LEMMA FailedTrade ==
  ASSUME TradeInv, PlanInv', OrderFailed,
         UNCHANGED <<now, order_plan_info, accepted, order, plan_of, order_plan_start_time,
                     emulator_vars>>,
         stage # "BUY" => UNCHANGED buy_price,
         \/ pc = "exec" /\ UNCHANGED late
         \/ /\ pc = "collect" /\ result[order] # NoResult
            /\ late' = IF result[order].status = "kCanceled" THEN late ELSE late \cup {order}
  PROVE  TradeInv'
<1>1. PlanInv /\ PlanOrders /\ StageInv /\ TypeOK /\ ThreadInv
  BY DEF TradeInv, PlanInv
<1>2. Placed' = Placed /\ OrdersOf(accepted)' = OrdersOf(accepted)
  BY DEF Placed, OrdersOf, emulator_vars
<1>3. \A n \in 1..Len(reports) : SameOrders(n)
  <2>1. CASE pc = "exec"
    BY <2>1, AllSame
  <2>2. CASE pc = "collect"
    BY <2>2, OthersSame DEF Waiting
  <2> QED BY <2>1, <2>2
<1>4. InExec /\ pc \in Working /\ pc # "release"
  BY DEF InExec, Working
<1>5. pc = "collect" =>
        /\ order \in OrdersOf(accepted) /\ info[order] = OrderInfo /\ order \notin late
        /\ result[order].status = "kCanceled" \/ order \in late'
        /\ result[order].status = "kOk" => order \in late'
  BY <1>1 DEF ThreadInv, PlanOrders, Waiting, OrdersOf
<1>6. pc = "exec" => Past = OrdersOf(accepted)
  BY DEF Past, Waiting
<1>7. pc = "collect" => OrdersOf(accepted) = Past \cup {order} /\ order \notin Past
  BY <1>5 DEF Past, Waiting
<1>8. CASE stage = "BUY"
  <2>1. SendReport("kFailedToBuy", 0, 0, order_plan_start_time) /\ pc' = "release"
    BY <1>8 DEF OrderFailed
  <2>2. "kFailedToBuy" \in Statuses /\ order_plan_start_time \in 0..now
    BY <1>1 DEF Statuses, TypeOK
  <2>3. Past = {}
    BY <1>1, <1>4, <1>8 DEF StageInv
  <2>4. OrderInfo.side = "BUY"
    BY <1>8 DEF OrderInfo
  <2>5. \A id \in OrdersOf(accepted) :
           info[id].side = "BUY" /\ (result[id].status = "kOk" => id \in late')
    BY <1>5, <1>6, <1>7, <2>3, <2>4
  <2>6. Filled(accepted, "SELL")' = {} /\ (Filled(accepted, "BUY") \ late)' = {}
    BY <1>2, <2>5 DEF Filled, OrdersOf, emulator_vars
  <2>7. Flat(accepted)'
    BY <2>6 DEF Flat
  <2>8. \A r : r.status = "kFailedToBuy" /\ r.buy = 0 /\ r.sold = 0 => Honest(accepted, r)'
    <3>1. Filled(accepted, "BUY")' \subseteq late'
      BY <2>6
    <3> QED BY <2>6, <3>1 DEF Honest
  <2>9. ReportedInv'
    BY <1>3, <1>4, <2>1, <2>2, <2>7, <2>8, NewReport
  <2> QED BY <1>4, <2>1, <2>9, Reported
<1>9. CASE stage # "BUY"
  <2>1. stage = "SELL" /\ stage' = "MARKET" /\ pc' = "exec" /\ UNCHANGED reports
    BY <1>9 DEF OrderFailed
  <2>2. ~Waiting' /\ InExec'
    BY <2>1 DEF Waiting, InExec
  <2>3. Past' = OrdersOf(accepted)
    BY <1>2, <2>2 DEF Past
  <2>4. PICK b \in Past : Bought(b) /\ Past = {b}
    BY <1>1, <1>4, <2>1 DEF StageInv
  <2>5. Bought(b)'
    BY <1>7, <2>1, <2>4 DEF Bought, emulator_vars
  <2>6. OrderInfo.side = "SELL"
    BY <2>1 DEF OrderInfo
  <2>7. \A id \in Past' \ {b} : GivenUp(id)'
    BY <1>5, <1>6, <1>7, <2>3, <2>4, <2>6 DEF GivenUp, emulator_vars
  <2>8. StageInv'
    BY <1>6, <1>7, <2>1, <2>3, <2>4, <2>5, <2>7 DEF StageInv
  <2>9. PlanOrders'
    BY <1>1, <1>2, <2>2 DEF PlanOrders, emulator_vars
  <2> QED BY <1>3, <2>1, <2>8, <2>9, ReportedKept DEF TradeInv
<1> QED BY <1>8, <1>9

LEMMA CheckExpirationTrade ==
  ASSUME TradeInv, PlanInv', CheckExpiration
  PROVE  TradeInv'
<1>1. /\ pc = "exec"
      /\ UNCHANGED <<now, order_plan_info, accepted, order, plan_of, order_plan_start_time,
                     buy_price, late, emulator_vars>>
  BY DEF CheckExpiration
<1>2. CASE stage # "MARKET" /\ now >= Expiration
  <2>1. OrderFailed
    BY <1>2 DEF CheckExpiration
  <2> QED BY <1>1, <2>1, FailedTrade
<1>3. CASE ~(stage # "MARKET" /\ now >= Expiration)
  <2>1. pc' = "place" /\ UNCHANGED <<stage, reports>>
    BY <1>3 DEF CheckExpiration
  <2>2. InExec /\ InExec' /\ ~Waiting /\ ~Waiting'
    BY <1>1, <2>1 DEF InExec, Waiting
  <2>3. Placed' = Placed /\ \A n : SameOrders(n)
    BY <1>1, AllSame
  <2>4. PlanOrders'
    BY <1>1, <2>2, <2>3 DEF TradeInv, PlanOrders, emulator_vars
  <2>5. StageInv'
    <3>1. Past' = Past
      BY <1>1, <2>2, <2>3 DEF Past, SameOrders
    <3> QED BY <1>1, <2>1, <2>2, <3>1, StageKept DEF emulator_vars
  <2> QED BY <2>1, <2>3, <2>4, <2>5, ReportedKept DEF TradeInv
<1> QED BY <1>2, <1>3

LEMMA CollectTrade ==
  ASSUME TradeInv, PlanInv', CollectCanceled
  PROVE  TradeInv'
<1>1. /\ pc = "collect" /\ result[order] # NoResult /\ OrderFailed
      /\ stage # "BUY" => UNCHANGED buy_price
      /\ late' = IF result[order].status = "kCanceled" THEN late ELSE late \cup {order}
      /\ UNCHANGED <<now, order_plan_info, accepted, order, plan_of, order_plan_start_time,
                     emulator_vars>>
  BY DEF CollectCanceled
<1> QED BY <1>1, FailedTrade

\* A purchase that was answered in time is what the plan has bought; a sale that
\* was answered in time is its only one in time.
LEMMA OrderDoneTrade ==
  ASSUME TradeInv, PlanInv', OrderDone
  PROVE  TradeInv'
<1>1. PlanInv /\ PlanOrders /\ StageInv /\ TypeOK /\ ThreadInv
  BY DEF TradeInv, PlanInv
<1>2. /\ pc = "await" /\ result[order] # NoResult
      /\ UNCHANGED <<now, order_plan_info, accepted, order, plan_of, order_plan_start_time, late,
                     emulator_vars>>
  BY DEF OrderDone
<1>3. Placed' = Placed /\ \A n : SameOrders(n)
  BY <1>2, AllSame
<1>4. InExec /\ Waiting /\ pc \in Working /\ pc # "release"
  BY <1>2 DEF InExec, Waiting, Working
<1>5. /\ order \in Placed /\ order \in OrdersOf(accepted)
      /\ info[order] = OrderInfo /\ order \notin late
      /\ result[order].status = "kOk"
  BY <1>1, <1>2, <1>4 DEF ThreadInv, PlanOrders, OrdersOf
<1>6. OrdersOf(accepted) = Past \cup {order} /\ order \notin Past
  BY <1>4, <1>5 DEF Past
<1>7. OrdersOf(accepted)' = OrdersOf(accepted)
  BY <1>2, <1>3 DEF SameOrders
<1>8. CASE stage = "BUY"
  <2>1. buy_price' = result[order].price /\ stage' = "SELL" /\ pc' = "exec" /\ UNCHANGED reports
    BY <1>8 DEF OrderDone
  <2>2. ~Waiting' /\ InExec'
    BY <2>1 DEF Waiting, InExec
  <2>3. Past = {}
    BY <1>1, <1>4, <1>8 DEF StageInv
  <2>4. Past' = {order}
    BY <1>6, <1>7, <2>2, <2>3 DEF Past
  <2>5. info[order].side = "BUY"
    BY <1>5, <1>8 DEF OrderInfo
  <2>6. Bought(order)'
    BY <1>2, <1>5, <2>1, <2>5 DEF Bought, emulator_vars
  <2>7. StageInv'
    <3>1. order \in Past' /\ Past' = {order} /\ Past' \ {order} = {}
      BY <2>4
    <3>2. \E b \in Past' : /\ Bought(b)'
                           /\ \A id \in Past' \ {b} : GivenUp(id)'
                           /\ stage' = "SELL" => Past' = {b}
      BY <1>2, <2>6, <3>1
    <3> QED BY <2>1, <3>2 DEF StageInv
  <2>8. PlanOrders'
    BY <1>1, <1>2, <1>3, <2>2 DEF PlanOrders, emulator_vars
  <2> QED BY <1>3, <2>1, <2>7, <2>8, ReportedKept DEF TradeInv
<1>9. CASE stage # "BUY"
  <2> DEFINE status == IF stage = "SELL" THEN "kOk" ELSE "kFailedToProfitSell"
             bought == Filled(accepted, "BUY")
             sold == Filled(accepted, "SELL")
  <2>1. /\ SendReport(status, buy_price, result[order].price, order_plan_start_time)
        /\ pc' = "release"
    BY <1>9 DEF OrderDone
  <2>2. /\ status \in Statuses /\ order_plan_start_time \in 0..now
        /\ buy_price \in Nat /\ stage \in {"BUY", "SELL", "MARKET"}
    BY <1>1 DEF Statuses, TypeOK
  <2>3. result[order].price \in Nat
    BY <1>1, <1>5, PlacedIds DEF TypeOK, EmulatorTypeOK
  <2>4. PICK b \in Past : /\ Bought(b)
                          /\ \A id \in Past \ {b} : GivenUp(id)
                          /\ stage = "SELL" => Past = {b}
    BY <1>1, <1>4, <1>9 DEF StageInv
  <2>5. OrderInfo.side = "SELL" /\ (stage = "MARKET" => OrderInfo.type = "MARKET")
    BY <1>9, <2>2 DEF OrderInfo
  <2>6. /\ \A id \in OrdersOf(accepted) \ {b} : info[id].side = "SELL"
        /\ info[b].side = "BUY" /\ result[b].status = "kOk" /\ b \in OrdersOf(accepted)
        /\ b \notin late /\ result[b].price = buy_price
    BY <1>5, <1>6, <2>4, <2>5 DEF Bought, GivenUp
  <2>7. bought = {b}
    BY <2>6 DEF Filled, OrdersOf
  <2>8. order \in sold /\ sold \ late = {order}
    <3>1. order \in sold
      BY <1>5, <2>5 DEF Filled, OrdersOf
    <3>2. \A id \in sold : id = order \/ id \in late
      BY <1>6, <2>4, <2>6 DEF Filled, OrdersOf, GivenUp
    <3> QED BY <1>5, <3>1, <3>2
  <2>9. stage = "SELL" => sold = {order}
    BY <1>6, <2>4, <2>6, <2>8 DEF Filled, OrdersOf
  <2>10. bought \ late = {b}
    BY <2>6, <2>7
  <2> HIDE DEF bought, sold, status
  <2>11. bought' = bought /\ sold' = sold
    BY <1>2, <1>3 DEF bought, sold, Filled, emulator_vars
  <2>12. Flat(accepted)'
    <3>1. Cardinality({b}) = 1 /\ Cardinality({order}) = 1
      BY FS_Singleton
    <3> QED BY <1>2, <2>8, <2>10, <2>11, <3>1 DEF Flat, bought, sold
  <2>13. ASSUME NEW r, r.status = status, r.buy = buy_price, r.sold = result[order].price
         PROVE  Honest(accepted, r)'
    <3>1. UNCHANGED <<result, info, accepted, late>>
      BY <1>2 DEF emulator_vars
    <3>2. CASE stage = "SELL"
      BY <1>5, <2>6, <2>7, <2>9, <2>11, <2>13, <3>1, <3>2 DEF Honest, bought, sold, status
    <3>3. CASE stage = "MARKET"
      BY <1>5, <2>5, <2>6, <2>7, <2>8, <2>11, <2>13, <3>1, <3>3
      DEF Honest, bought, sold, status
    <3> QED BY <1>9, <2>2, <3>2, <3>3
  <2>14. ReportedInv'
    BY <1>2, <1>3, <1>4, <2>1, <2>2, <2>3, <2>12, <2>13, NewReport DEF status
  <2> QED BY <1>2, <1>4, <2>1, <2>14, Reported
<1> QED BY <1>8, <1>9

\* A plan that is let go has been reported.
LEMMA ReleaseTrade ==
  ASSUME TradeInv, PlanInv', ReleasePlan
  PROVE  TradeInv'
<1>1. /\ pc' = "check" /\ order_plan_info' = <<>>
      /\ UNCHANGED <<accepted, reports, plan_of, late, emulator_vars>>
  BY DEF ReleasePlan, Goto
<1>2. Placed' = Placed /\ \A n : SameOrders(n)
  BY <1>1, AllSame
<1>3. ~InExec' /\ ~Waiting'
  BY <1>1 DEF InExec, Waiting
<1>4. PlanOrders' /\ StageInv'
  BY <1>1, <1>2, <1>3 DEF TradeInv, PlanOrders, StageInv, emulator_vars
<1> QED BY <1>1, <1>2, <1>4, ReportedKept DEF TradeInv

-----------------------------------------------------------------------------
(* The steps that go to the emulator.                                      *)

\* A new order is the plan's, and the one waited for.
LEMMA PlaceTrade ==
  ASSUME TradeInv, PlanInv', Place
  PROVE  TradeInv'
<1> DEFINE id == unique_id_iterator + 1
<1>1. PlanInv /\ PlanOrders /\ StageInv /\ TypeOK /\ IInv /\ EmulatorTypeOK
  BY DEF TradeInv, PlanInv, IInv
<1>2. /\ pc = "place" /\ pc' = "await" /\ order' = unique_id_iterator'
      /\ PlaceOrder(OrderInfo)
      /\ plan_of' = [plan_of EXCEPT ![order'] = accepted]
      /\ UNCHANGED <<order_plan_info, accepted, stage, buy_price, reports, late>>
  BY DEF Place, Goto
<1>3. OrderInfo \in [side : Sides, type : Types, price : Nat]
  BY <1>1, <1>2, OrderInfoType DEF Working
<1>4. /\ id \in OrderIds /\ id = unique_id_iterator' /\ id = order'
      /\ info' = [info EXCEPT ![id] = OrderInfo]
      /\ result' = result \/ \E p : result' = [result EXCEPT ![id] = Ok(p)]
  BY <1>1, <1>2, <1>3, PlaceOrderStep
<1>5. Placed' = Placed \cup {id} /\ Placed \subseteq OrderIds /\ id \notin Placed
  <2>1. unique_id_iterator \in Nat
    BY <1>1 DEF EmulatorTypeOK
  <2>2. 1..(unique_id_iterator + 1) = (1..unique_id_iterator) \cup {unique_id_iterator + 1}
    BY <2>1
  <2> QED BY <1>1, <1>4, <2>1, <2>2, PlacedIds DEF Placed
<1>6. result[id] = NoResult /\ late \subseteq Placed
  BY <1>1, <1>4 DEF IInv, FreshIds, EmulatorTypeOK, TypeOK
<1> HIDE DEF id
<1>7. /\ info'[id] = OrderInfo /\ plan_of'[id] = accepted /\ id \notin late'
      /\ result'[id] = NoResult \/ result'[id].status = "kOk"
      /\ \A i \in Placed : info'[i] = info[i] /\ result'[i] = result[i] /\ plan_of'[i] = plan_of[i]
  BY <1>1, <1>2, <1>4, <1>5, <1>6 DEF EmulatorTypeOK, TypeOK, Ok
<1>8. accepted = Len(reports) + 1 /\ Len(reports) \in Nat
  BY <1>1, <1>2, InProcess DEF Working
<1>9. \A n : n # accepted => SameOrders(n)
  BY <1>2, <1>5, <1>7 DEF SameOrders, OrdersOf
<1>10. \A n \in 1..Len(reports) : SameOrders(n)
  BY <1>8, <1>9
<1>11. Waiting' /\ ~Waiting /\ InExec /\ InExec' /\ OrderInfo' = OrderInfo
  BY <1>2 DEF Waiting, InExec, OrderInfo, Plan
<1>12. OrdersOf(accepted)' = OrdersOf(accepted) \cup {id} /\ id \notin OrdersOf(accepted)
  BY <1>2, <1>5, <1>7 DEF OrdersOf
<1>13. Past' = Past
  BY <1>4, <1>11, <1>12 DEF Past
<1>14. StageInv'
  <2>1. \A i \in Past : i \in Placed
    BY DEF Past, OrdersOf
  <2> QED BY <1>2, <1>7, <1>11, <1>13, <2>1, StageKept
<1>15. PlanOrders'
  <2>1. \A i \in Placed' : plan_of'[i] <= accepted
    BY <1>1, <1>5, <1>7, <1>8 DEF PlanOrders
  <2>2. \A i \in Placed' : result'[i] = NoResult \/ result'[i].status \in {"kOk", "kCanceled"}
    BY <1>1, <1>5, <1>7 DEF PlanOrders
  <2> QED BY <1>2, <1>4, <1>7, <1>11, <2>1, <2>2 DEF PlanOrders
<1> QED BY <1>2, <1>10, <1>14, <1>15, ReportedKept DEF TradeInv

\* An answer given to the order that is waited for changes nothing of what the
\* plan, or another one, has traded before.
LEMMA AnswerTrade ==
  ASSUME TradeInv, PlanInv',
         UNCHANGED <<order_plan_info, accepted, stage, order, buy_price, reports, plan_of, late,
                     unique_id_iterator, info>>,
         (InExec' <=> InExec) /\ (Waiting' <=> Waiting) /\ (pc' = "release" <=> pc = "release"),
         \A id \in Placed : \/ result'[id] = result[id]
                            \/ /\ Waiting /\ id = order
                               /\ result'[id].status \in {"kOk", "kCanceled"}
  PROVE  TradeInv'
<1>1. PlanInv /\ PlanOrders /\ StageInv
  BY DEF TradeInv
<1>2. Placed' = Placed /\ \A n : OrdersOf(n)' = OrdersOf(n)
  BY DEF Placed, OrdersOf
<1>3. Waiting => plan_of[order] = Len(reports) + 1 /\ Len(reports) \in Nat
  BY <1>1, InProcess DEF PlanOrders, Waiting, Working
<1>4. \A n \in 1..Len(reports) : \A id \in OrdersOf(n) : id \in Placed /\ (Waiting => id # order)
  BY <1>3 DEF OrdersOf
<1>5. \A n \in 1..Len(reports) : SameOrders(n)
  BY <1>2, <1>4 DEF SameOrders
<1>6. PlanOrders'
  <2>1. OrderInfo' = OrderInfo
    BY DEF OrderInfo, Plan
  <2> QED BY <1>1, <1>2, <2>1 DEF PlanOrders
<1>7. StageInv'
  <2>1. Past' = Past
    BY <1>2 DEF Past
  <2>2. \A id \in Past : result'[id] = result[id]
    BY DEF Past, OrdersOf
  <2>3. CASE InExec
    BY <2>1, <2>2, <2>3, StageKept
  <2>4. CASE ~InExec
    BY <2>4 DEF StageInv
  <2> QED BY <2>3, <2>4
<1> QED BY <1>5, <1>6, <1>7, ReportedKept DEF TradeInv

LEMMA CancelTrade ==
  ASSUME TradeInv, PlanInv', Cancel
  PROVE  TradeInv'
<1>1. PlanInv /\ IInv /\ EmulatorTypeOK /\ ThreadInv
  BY DEF TradeInv, PlanInv, IInv
<1>2. /\ pc = "cancel" /\ pc' = "collect" /\ CancelOrder(order)
      /\ UNCHANGED <<order_plan_info, accepted, stage, order, buy_price, reports, plan_of, late>>
  BY DEF Cancel, Goto
<1>3. order \in Placed /\ Placed \subseteq OrderIds
  BY <1>1, <1>2, PlacedIds DEF ThreadInv, Waiting
<1>4. /\ UNCHANGED <<unique_id_iterator, info>>
      /\ \/ result' = [result EXCEPT ![order] = Canceled(info[order].price)]
         \/ result' = result
  BY <1>1, <1>2, <1>3, CancelOrderStep
<1>5. Waiting /\ Waiting' /\ InExec /\ InExec'
  BY <1>2 DEF Waiting, InExec
<1>6. \A id \in Placed : \/ result'[id] = result[id]
                         \/ Waiting /\ id = order /\ result'[id].status \in {"kOk", "kCanceled"}
  BY <1>1, <1>3, <1>4, <1>5 DEF EmulatorTypeOK, Canceled
<1> QED BY <1>2, <1>4, <1>5, <1>6, AnswerTrade

\* A snapshot answers no other order than the one that is waited for.
LEMMA SnapshotTrade ==
  ASSUME TradeInv, PlanInv', NEW book \in Books, Snapshot(book)
  PROVE  TradeInv'
<1>1. PlanInv /\ OneLiveOrder /\ EmulatorTypeOK
  BY DEF TradeInv, PlanInv, TypeOK
<1>2. /\ result' = [id \in OrderIds |->
                      IF id \in Satisfied(book) THEN Ok(FillPrice(id, book)) ELSE result[id]]
      /\ UNCHANGED <<unique_id_iterator, info>>
  BY <1>1, PlanSnapshotInv
<1>3. UNCHANGED <<order_plan_info, accepted, stage, order, buy_price, reports, plan_of, late, pc>>
  BY DEF Snapshot, plan_vars
<1>4. \A id \in Satisfied(book) : Waiting /\ id = order
  BY <1>1 DEF Satisfied, OneLiveOrder, Waiting
<1>5. \A id \in Placed : \/ result'[id] = result[id]
                         \/ Waiting /\ id = order /\ result'[id].status \in {"kOk", "kCanceled"}
  BY <1>1, <1>2, <1>4, PlacedIds DEF Ok
<1>6. (InExec' <=> InExec) /\ (Waiting' <=> Waiting) /\ (pc' = "release" <=> pc = "release")
  BY <1>3 DEF InExec, Waiting
<1> QED BY <1>2, <1>3, <1>5, <1>6, AnswerTrade

-----------------------------------------------------------------------------
(* The theorems.                                                           *)

\* Every step keeps the inductive invariant.
LEMMA NextTradeInv == TradeInv /\ [Next]_vars => TradeInv'
<1> SUFFICES ASSUME TradeInv, [Next]_vars PROVE TradeInv'
  OBVIOUS
<1> PlanInv'
  BY NextPlanInv DEF TradeInv
<1>1. ASSUME NEW plan \in Plans, OnOrderPlanStreamEvent(plan) PROVE TradeInv'
  BY <1>1, PlanEventTrade
<1>2. CASE NotifyPlan \/ TakePlan \/ FindNoPlan \/ Block \/ WakeSpuriously \/ OrderTimeout \/ Tick
  BY <1>2, MoveTrade
<1>3. CASE StartPlan
  BY <1>3, StartPlanTrade
<1>4. CASE CheckExpiration
  BY <1>4, CheckExpirationTrade
<1>5. CASE Place
  BY <1>5, PlaceTrade
<1>6. CASE OrderDone
  BY <1>6, OrderDoneTrade
<1>7. CASE Cancel
  BY <1>7, CancelTrade
<1>8. CASE CollectCanceled
  BY <1>8, CollectTrade
<1>9. CASE ReleasePlan
  BY <1>9, ReleaseTrade
<1>10. ASSUME NEW book \in Books, Snapshot(book) PROVE TradeInv'
  BY <1>10, SnapshotTrade
<1>11. CASE UNCHANGED vars
  <2>1. UNCHANGED emulator_vars /\ UNCHANGED plan_vars
    BY <1>11 DEF vars
  <2>2. (InExec' <=> InExec) /\ (Waiting' <=> Waiting) /\ (pc' = "release" <=> pc = "release")
    BY <2>1 DEF InExec, Waiting, plan_vars
  <2> QED BY <2>1, <2>2, AnswerTrade DEF plan_vars, emulator_vars
<1> QED
  BY <1>1, <1>2, <1>3, <1>4, <1>5, <1>6, <1>7, <1>8, <1>9, <1>10, <1>11 DEF Next, PlanThread

\* The invariant behind the theorems below holds in every reachable state.
LEMMA TradeInvariant == Spec => []TradeInv
<1>1. Init => TradeInv
  BY InitTradeInv
<1>2. TradeInv /\ [Next]_vars => TradeInv'
  BY NextTradeInv
<1> QED BY <1>1, <1>2, PTL DEF Spec

\* Whatever the plans, the prices and the interleavings are, a report tells
\* what was traded for its plan but for orders filled between their timeout
\* and their cancel.  Those no report tells of: a purchase among them is
\* reported as kFailedToBuy at no price, a limit sale among them is passed over
\* in kFailedToProfitSell (order_plan_manager.cc:50-106, 130-146).
THEOREM ReportsAreHonestCorrect == Spec => []ReportsAreHonest
<1>1. TradeInv => ReportsAreHonest
  <2> SUFFICES ASSUME TradeInv PROVE ReportsAreHonest
    OBVIOUS
  <2>1. DOMAIN reports = 1..Len(reports)
    BY InProcess DEF TradeInv
  <2>2. \A k \in DOMAIN reports : Honest(k, reports[k]) /\ reports[k].status \in Statuses
    BY <2>1, ReportStatus DEF TradeInv, ReportedInv
  <2>3. ReportsAreHonest <=> \A k \in DOMAIN reports : Honest(k, reports[k])
    BY ZenonT(60) DEF ReportsAreHonest, Honest
  <2> QED BY <2>2, <2>3
<1> QED BY <1>1, TradeInvariant, PTL

\* Every asset a plan bought has been sold by its report, and sold once, but
\* for orders that were filled between their timeout and their cancel
\* (order_plan_manager.cc:130-146).
THEOREM FlatCorrect == Spec => []FlatButForLateFills
<1>1. TradeInv => FlatButForLateFills
  BY DEF TradeInv, ReportedInv, Flat, FlatButForLateFills
<1> QED BY <1>1, TradeInvariant, PTL

-----------------------------------------------------------------------------
(* What the total report needs of the reports.                             *)

\* Until when reports may reach: to the time the plan in process was taken up,
\* or to now.
ReportedBy == IF InExec THEN order_plan_start_time ELSE now

TimeInv ==
  /\ \A k \in 1..Len(reports) : reports[k].start + reports[k].duration <= ReportedBy
  /\ \A k \in 1..Len(reports) : \A j \in 1..(k - 1) :
       reports[j].start + reports[j].duration <= reports[k].start

\* What is bought is bought at a limit, so at a price there is.
BuysAreLimits ==
  \A id \in Placed : info[id].side = "BUY" => info[id].type = "LIMIT" /\ info[id].price \in Prices

LEMMA ReportedByType ==
  ASSUME TypeOK
  PROVE  /\ now \in Nat /\ order_plan_start_time \in 0..now
         /\ ReportedBy \in Nat /\ ReportedBy <= now
<1>1. now \in Nat /\ order_plan_start_time \in 0..now
  BY PlanConstants DEF TypeOK, PlanConstants
<1>2. ReportedBy \in 0..now
  BY <1>1 DEF ReportedBy
<1> QED BY <1>1, <1>2

\* A step without a report: the time it may reach to only grows.
LEMMA TimeKept ==
  ASSUME TypeOK, TypeOK', TimeInv, UNCHANGED reports, ReportedBy <= ReportedBy'
  PROVE  TimeInv'
<1>1. PICK by \in Nat, by2 \in Nat : by = ReportedBy /\ by2 = ReportedBy' /\ by <= by2
  <2>1. ReportedBy \in Nat
    BY ReportedByType
  <2>2. (TypeOK => ReportedBy \in Nat)'
    BY ReportedByType, PTL
  <2> QED BY <2>1, <2>2
<1>2. ASSUME NEW k \in 1..Len(reports)
      PROVE  reports[k].start + reports[k].duration <= by2
  <2>1. reports[k] \in Reports
    BY ElementOfSeq DEF TypeOK, Reports
  <2>2. PICK s \in Nat, d \in Nat : s = reports[k].start /\ d = reports[k].duration
    BY <2>1 DEF Reports
  <2>3. s + d <= by
    BY <1>1, <2>2 DEF TimeInv
  <2>4. s + d <= by2
    BY <1>1, <2>3
  <2> QED BY <2>2, <2>4
<1> QED BY <1>1, <1>2 DEF TimeInv

\* A report of a plan that was taken up when all before it had been reported.
LEMMA TimeReported ==
  ASSUME PlanInv, TimeInv, pc \in Working, pc # "release",
         NEW status \in Statuses, NEW bought \in Nat, NEW sold \in Nat, NEW start \in 0..now,
         SendReport(status, bought, sold, start), pc' = "release",
         UNCHANGED <<now, order_plan_info, accepted>>, ReportedBy <= start
  PROVE  TimeInv'
<1>1. TypeOK
  BY DEF PlanInv
<1>2. PICK r : r = [plan |-> accepted, status |-> status, buy |-> bought, sold |-> sold,
                    start |-> start, duration |-> now - start]
  OBVIOUS
<1>3. reports' = Append(reports, r)
  BY <1>2 DEF SendReport
<1>4. PICK n \in Nat : n = Len(reports)
  BY InProcess
<1>5. reports \in Seq(Reports)
  BY InProcess
<1>6. r.start = start /\ r.start + r.duration = now
  <2>1. r.start = start /\ r.duration = now - start
    BY <1>2
  <2>2. start + (now - start) = now
    BY <1>1, ReportedByType
  <2> QED BY <2>1, <2>2
<1>7. r \in Reports
  <2>1. accepted = n + 1 /\ accepted \in 1..MaxPlans
    <3>1. accepted = n + 1
      BY <1>4, InProcess
    <3>2. accepted <= MaxPlans
      BY <1>1, PlanConstants DEF TypeOK, PlanConstants
    <3> QED BY <3>1, <3>2, PlanConstants DEF PlanConstants
  <2>2. start \in Nat /\ now - start \in Nat
    BY <1>1, ReportedByType
  <2> QED BY <1>2, <2>1, <2>2 DEF Reports
<1>8. /\ reports' \in Seq(Reports) /\ Len(reports') = n + 1
      /\ \A k \in 1..n : reports'[k] = reports[k]
      /\ reports'[n + 1] = r
  BY <1>3, <1>4, <1>5, <1>7, AppendProperties
<1>9. ASSUME NEW k \in 1..n
      PROVE  /\ reports[k].start + reports[k].duration <= start
             /\ reports[k].start + reports[k].duration <= now
  <2>1. reports[k] \in Reports
    BY <1>4, <1>5, ElementOfSeq
  <2>2. PICK s \in Nat, d \in Nat : s = reports[k].start /\ d = reports[k].duration
    BY <2>1 DEF Reports
  <2>3. PICK by \in Nat : by = ReportedBy /\ by <= start
    BY <1>1, ReportedByType
  <2>4. s + d <= by
    BY <1>4, <2>2, <2>3 DEF TimeInv
  <2>5. s + d <= start /\ start <= now /\ start \in Nat /\ now \in Nat
    BY <1>1, <2>3, <2>4, ReportedByType
  <2>6. s + d <= now
    BY <2>5
  <2> QED BY <2>2, <2>5, <2>6
<1>10. ReportedBy' = now
  BY DEF ReportedBy, InExec
<1>11. ASSUME NEW k \in 1..(n + 1)
       PROVE  reports'[k].start + reports'[k].duration <= now
  <2>1. CASE k = n + 1
    BY <1>1, <1>6, <1>8, <2>1, ReportedByType
  <2>2. CASE k # n + 1
    BY <1>8, <1>9, <2>2
  <2> QED BY <2>1, <2>2
<1>12. ASSUME NEW k \in 1..(n + 1), NEW j \in 1..(k - 1)
       PROVE  reports'[j].start + reports'[j].duration <= reports'[k].start
  <2>1. j \in 1..n
    OBVIOUS
  <2>2. CASE k = n + 1
    BY <1>6, <1>8, <1>9, <2>1, <2>2
  <2>3. CASE k # n + 1
    <3>1. k \in 1..n
      BY <2>3
    <3> QED BY <1>4, <1>8, <2>1, <3>1 DEF TimeInv
  <2> QED BY <2>2, <2>3
<1> QED BY <1>8, <1>10, <1>11, <1>12 DEF TimeInv

LEMMA FailedTime ==
  ASSUME PlanInv, PlanInv', TimeInv, pc \in {"exec", "collect"}, OrderFailed,
         UNCHANGED <<now, order_plan_info, accepted, order_plan_start_time>>
  PROVE  TimeInv'
<1>1. TypeOK /\ TypeOK'
  BY DEF PlanInv
<1>2. pc \in Working /\ pc # "release" /\ ReportedBy = order_plan_start_time
  BY DEF Working, ReportedBy, InExec
<1>3. order_plan_start_time \in 0..now /\ ReportedBy <= order_plan_start_time
  BY <1>1, <1>2, ReportedByType
<1>4. CASE stage = "BUY"
  <2>1. /\ SendReport("kFailedToBuy", 0, 0, order_plan_start_time)
        /\ pc' = "release" /\ "kFailedToBuy" \in Statuses
    BY <1>4 DEF OrderFailed, Statuses
  <2> QED BY <1>2, <1>3, <2>1, TimeReported
<1>5. CASE stage # "BUY"
  <2>1. pc' = "exec" /\ UNCHANGED reports
    BY <1>5 DEF OrderFailed
  <2>2. ReportedBy' = order_plan_start_time
    BY <2>1 DEF ReportedBy, InExec
  <2> QED BY <1>1, <1>3, <2>1, <2>2, <1>2, TimeKept
<1> QED BY <1>4, <1>5

LEMMA StartPlanTime ==
  ASSUME PlanInv, PlanInv', TimeInv, StartPlan
  PROVE  TimeInv'
<1>1. TypeOK /\ TypeOK'
  BY DEF PlanInv
<1>2. /\ pc = "start" /\ order_plan_start_time' = now
      /\ UNCHANGED <<now, order_plan_info, accepted>>
  BY DEF StartPlan
<1>3. pc \in Working /\ pc # "release" /\ ReportedBy = now /\ now \in 0..now /\ now <= now
  <2>1. now \in Nat
    BY <1>1, ReportedByType
  <2> QED BY <1>2, <2>1 DEF Working, ReportedBy, InExec
<1>4. CASE Plan.expiration <= now
  <2>1. SendReport("kPlanExpired", 0, 0, now) /\ pc' = "release" /\ "kPlanExpired" \in Statuses
    BY <1>4 DEF StartPlan, Statuses
  <2> QED BY <1>2, <1>3, <2>1, TimeReported
<1>5. CASE ~(Plan.expiration <= now)
  <2>1. pc' = "exec" /\ UNCHANGED reports
    BY <1>5 DEF StartPlan
  <2>2. ReportedBy' = now
    BY <1>2, <2>1 DEF ReportedBy, InExec
  <2> QED BY <1>1, <1>3, <2>1, <2>2, TimeKept
<1> QED BY <1>4, <1>5

LEMMA OrderDoneTime ==
  ASSUME PlanInv, PlanInv', TimeInv, OrderDone
  PROVE  TimeInv'
<1>1. TypeOK /\ TypeOK' /\ ThreadInv
  BY DEF PlanInv
<1>2. /\ pc = "await"
      /\ UNCHANGED <<now, order_plan_info, accepted, order_plan_start_time>>
  BY DEF OrderDone
<1>3. pc \in Working /\ pc # "release" /\ ReportedBy = order_plan_start_time
  BY <1>2 DEF Working, ReportedBy, InExec
<1>4. order_plan_start_time \in 0..now /\ ReportedBy <= order_plan_start_time
  BY <1>1, <1>3, ReportedByType
<1>5. CASE stage = "BUY"
  <2>1. pc' = "exec" /\ UNCHANGED reports
    BY <1>5 DEF OrderDone
  <2>2. ReportedBy' = order_plan_start_time
    BY <1>2, <2>1 DEF ReportedBy, InExec
  <2> QED BY <1>1, <1>3, <1>4, <2>1, <2>2, TimeKept
<1>6. CASE stage # "BUY"
  <2>1. PICK status \in Statuses : status = IF stage = "SELL" THEN "kOk" ELSE "kFailedToProfitSell"
    BY DEF Statuses
  <2>2. pc' = "release" /\ SendReport(status, buy_price, result[order].price, order_plan_start_time)
    BY <1>6, <2>1 DEF OrderDone
  <2>3. buy_price \in Nat /\ result[order].price \in Nat
    <3>1. order \in OrderIds
      BY <1>1, <1>2, PlacedIds DEF ThreadInv, Waiting, TypeOK
    <3> QED BY <1>1, <3>1 DEF TypeOK, EmulatorTypeOK
  <2> QED BY <1>2, <1>3, <1>4, <2>2, <2>3, TimeReported
<1> QED BY <1>5, <1>6

LEMMA NextTime == PlanInv /\ PlanInv' /\ TimeInv /\ [Next]_vars => TimeInv'
<1> SUFFICES ASSUME PlanInv, PlanInv', TimeInv, [Next]_vars PROVE TimeInv'
  OBVIOUS
<1>1. TypeOK /\ TypeOK'
  BY DEF PlanInv
<1>2. now \in Nat /\ order_plan_start_time \in Nat
  BY <1>1, ReportedByType
<1>3. ASSUME UNCHANGED <<reports, order_plan_start_time>>, now' = now \/ now' = now + 1,
             InExec' <=> InExec
      PROVE  TimeInv'
  <2>1. ReportedBy <= ReportedBy'
    <3>1. now <= now' /\ order_plan_start_time <= order_plan_start_time'
      BY <1>2, <1>3
    <3>2. CASE InExec
      BY <1>3, <3>1, <3>2 DEF ReportedBy
    <3>3. CASE ~InExec
      BY <1>3, <3>1, <3>3 DEF ReportedBy
    <3> QED BY <3>2, <3>3
  <2> QED BY <1>1, <1>3, <2>1, TimeKept
<1>4. ASSUME NEW plan \in Plans, OnOrderPlanStreamEvent(plan) PROVE TimeInv'
  BY <1>3, <1>4 DEF OnOrderPlanStreamEvent, InExec
<1>5. CASE NotifyPlan \/ TakePlan \/ FindNoPlan \/ Block \/ WakeSpuriously \/ OrderTimeout
  <2>1. UNCHANGED <<reports, order_plan_start_time, now>> /\ (InExec' <=> InExec)
    BY <1>5 DEF NotifyPlan, TakePlan, FindNoPlan, Block, WakeSpuriously, OrderTimeout, Goto, InExec
  <2> QED BY <1>3, <2>1
<1>6. CASE Tick
  BY <1>3, <1>6 DEF Tick, InExec
<1>7. CASE StartPlan
  BY <1>7, StartPlanTime
<1>8. CASE CheckExpiration
  <2>1. pc = "exec" /\ UNCHANGED <<now, order_plan_info, accepted, order_plan_start_time>>
    BY <1>8 DEF CheckExpiration
  <2>2. CASE OrderFailed
    BY <2>1, <2>2, FailedTime
  <2>3. CASE ~OrderFailed
    <3>1. pc' = "place" /\ UNCHANGED reports
      BY <1>8, <2>3 DEF CheckExpiration
    <3> QED BY <1>3, <2>1, <3>1 DEF InExec
  <2> QED BY <2>2, <2>3
<1>9. CASE Place \/ Cancel
  <2>1. UNCHANGED <<reports, order_plan_start_time, now>> /\ (InExec' <=> InExec)
    BY <1>9 DEF Place, Cancel, Goto, InExec
  <2> QED BY <1>3, <2>1
<1>10. CASE OrderDone
  BY <1>10, OrderDoneTime
<1>11. CASE CollectCanceled
  BY <1>11, FailedTime DEF CollectCanceled
<1>12. CASE ReleasePlan
  BY <1>3, <1>12 DEF ReleasePlan, Goto, InExec
<1>13. ASSUME NEW book \in Books, Snapshot(book) PROVE TimeInv'
  BY <1>3, <1>13 DEF Snapshot, plan_vars, InExec
<1>14. CASE UNCHANGED vars
  BY <1>3, <1>14 DEF vars, plan_vars, InExec
<1> QED
  BY <1>4, <1>5, <1>6, <1>7, <1>8, <1>9, <1>10, <1>11, <1>12, <1>13, <1>14 DEF Next, PlanThread

LEMMA NextBuys == PlanInv /\ BuysAreLimits /\ [Next]_vars => BuysAreLimits'
<1> SUFFICES ASSUME PlanInv, BuysAreLimits, [Next]_vars PROVE BuysAreLimits'
  OBVIOUS
<1>1. CASE UNCHANGED <<info, unique_id_iterator>>
  BY <1>1 DEF BuysAreLimits, Placed
<1>2. CASE Place
  <2>1. pc = "place" /\ PlaceOrder(OrderInfo) /\ IInv /\ TypeOK /\ ThreadInv
    BY <1>2 DEF Place, Goto, PlanInv
  <2>2. order_plan_info # <<>> /\ pc \in Working
    BY <2>1 DEF ThreadInv, Working
  <2>3. OrderInfo \in [side : Sides, type : Types, price : Nat]
    BY <1>2, <2>1, <2>2, OrderInfoType
  <2>4. PICK id : id = unique_id_iterator + 1
    OBVIOUS
  <2>5. /\ id \in OrderIds /\ unique_id_iterator' = id
        /\ info' = [info EXCEPT ![id] = OrderInfo]
    BY <2>1, <2>3, <2>4, PlaceOrderStep
  <2>6. Placed \subseteq OrderIds /\ info \in [OrderIds -> [side : Sides, type : Types, price : Nat]]
        /\ unique_id_iterator \in Nat
    BY <2>1, PlacedIds DEF IInv, EmulatorTypeOK
  <2>7. \A i \in Placed' : i \in Placed \/ i = id
    BY <2>4, <2>5, <2>6 DEF Placed
  <2>8. OrderInfo.side = "BUY" => OrderInfo.type = "LIMIT" /\ OrderInfo.price \in Prices
    <3>1. Plan.buy \in Prices
      BY <2>1, <2>2, PlanStored, PlanConstants DEF PlanConstants
    <3>2. stage \in {"BUY", "SELL", "MARKET"}
      BY <2>1 DEF TypeOK
    <3> QED BY <3>1, <3>2 DEF OrderInfo
  <2>9. ASSUME NEW i \in Placed', info'[i].side = "BUY"
        PROVE  info'[i].type = "LIMIT" /\ info'[i].price \in Prices
    <3>1. CASE i = id
      BY <2>5, <2>6, <2>8, <2>9, <3>1
    <3>2. CASE i # id
      BY <2>5, <2>6, <2>7, <2>9, <3>2 DEF BuysAreLimits
    <3> QED BY <3>1, <3>2
  <2> QED BY <2>9 DEF BuysAreLimits
<1>3. ASSUME ~Place PROVE UNCHANGED <<info, unique_id_iterator>>
  BY <1>3
  DEF Next, vars, plan_vars, emulator_vars, PlanThread, OnOrderPlanStreamEvent, NotifyPlan, TakePlan, FindNoPlan, Block,
      WakeSpuriously, StartPlan, CheckExpiration, OrderDone, OrderTimeout, Cancel, CancelOrder,
      CollectCanceled, ReleasePlan, Snapshot, OnOrderBookStreamEvent, Tick
<1> QED BY <1>1, <1>2, <1>3

\* What GetTotalReport asserts of the reports one by one: an executed plan has
\* a price it bought at, and no plan started before one reported earlier.
ReportsAreSound ==
  /\ \A k \in DOMAIN reports : WasExecuted(reports[k]) => reports[k].buy > 0
  /\ \A k \in DOMAIN reports : \A j \in 1..k : reports[j].start <= reports[k].start

\* The two conditions under which the total report ends the program do not
\* arise, and plans follow one another, for any plans, prices and times
\* (benchmark_data_collector.cc:86-106, 141-164, order_plan_manager.cc:50-106).
THEOREM ReportsAreSoundCorrect == Spec => [](ReportsAreSound /\ PlansFollow)
<1>1. Init => TimeInv /\ BuysAreLimits
  <2> SUFFICES ASSUME Init PROVE TimeInv /\ BuysAreLimits
    OBVIOUS
  <2>1. reports = <<>> /\ unique_id_iterator = 0
    BY DEF Init, EmulatorInit
  <2>2. 1..Len(reports) = {} /\ Placed = {}
    BY <2>1 DEF Placed
  <2> QED BY <2>2 DEF TimeInv, BuysAreLimits
<1>2. TradeInv /\ TradeInv' /\ TimeInv /\ BuysAreLimits /\ [Next]_vars => TimeInv' /\ BuysAreLimits'
  BY NextTime, NextBuys DEF TradeInv
<1>3. TradeInv /\ TimeInv /\ BuysAreLimits => ReportsAreSound /\ PlansFollow
  <2> SUFFICES ASSUME TradeInv, TimeInv, BuysAreLimits PROVE ReportsAreSound /\ PlansFollow
    OBVIOUS
  <2>1. PICK n \in Nat : n = Len(reports) /\ DOMAIN reports = 1..n
    BY InProcess DEF TradeInv
  <2>2. ASSUME NEW k \in 1..n PROVE reports[k] \in Reports
    BY <2>1, InProcess, ElementOfSeq DEF TradeInv
  <2>3. ASSUME NEW k \in 1..n, WasExecuted(reports[k]) PROVE reports[k].buy > 0
    <3>1. Honest(k, reports[k])
      BY <2>1 DEF TradeInv, ReportedInv
    <3>2. reports[k].status \in {"kOk", "kFailedToProfitSell"}
      BY <2>2, <2>3 DEF Reports, Statuses, WasExecuted
    <3>3. PICK b \in Filled(k, "BUY") : reports[k].buy = result[b].price
      BY <3>1, <3>2 DEF Honest
    <3>4. b \in Placed /\ info[b].side = "BUY" /\ result[b].status = "kOk"
      BY DEF Filled
    <3>5. info[b].type = "LIMIT" /\ info[b].price \in Prices
      BY <3>4 DEF BuysAreLimits
    <3>6. result[b].price = info[b].price
      BY <3>4, <3>5 DEF TradeInv, PlanInv, IInv, FilledByFirstCrossing
    <3> QED BY <3>3, <3>5, <3>6, PlanConstants DEF PlanConstants
  <2>4. ASSUME NEW k \in 1..n, NEW j \in 1..(k - 1)
        PROVE  /\ reports[j].start + reports[j].duration <= reports[k].start
               /\ reports[j].start <= reports[k].start
    <3>1. reports[j].start + reports[j].duration <= reports[k].start
      BY <2>1 DEF TimeInv
    <3>2. reports[j] \in Reports /\ reports[k] \in Reports
      BY <2>2
    <3>3. reports[j].start \in Nat /\ reports[j].duration \in Nat /\ reports[k].start \in Nat
      BY <3>2 DEF Reports
    <3> QED BY <3>1, <3>3
  <2>5. ASSUME NEW k \in 1..n, NEW j \in 1..k PROVE reports[j].start <= reports[k].start
    <3>1. CASE j = k
      <4>1. reports[k].start \in Nat
        BY <2>2 DEF Reports
      <4> QED BY <3>1, <4>1
    <3>2. CASE j # k
      <4>1. j \in 1..(k - 1)
        BY <3>2
      <4> QED BY <2>4, <4>1
    <3> QED BY <3>1, <3>2
  <2>6. PlansFollow
    <3> SUFFICES ASSUME NEW k \in 2..n
                 PROVE  reports[k - 1].start + reports[k - 1].duration <= reports[k].start
      BY <2>1 DEF PlansFollow
    <3>1. k \in 1..n /\ k - 1 \in 1..(k - 1)
      OBVIOUS
    <3> QED BY <2>4, <3>1
  <2> QED BY <2>1, <2>3, <2>5, <2>6 DEF ReportsAreSound
<1> QED BY <1>1, <1>2, <1>3, TradeInvariant, PTL DEF Spec

-----------------------------------------------------------------------------
(* The total report.                                                       *)

\* The plans that were executed, in the order of their reports.
ExecutedAt == {k \in DOMAIN reports : WasExecuted(reports[k])}

LEMMA ExecutedPositions ==
  ASSUME NEW n \in Nat, DOMAIN reports = 1..n
  PROVE  \E c \in Nat :
           /\ c = Len(Executed(reports)) /\ DOMAIN Executed(reports) = 1..c
           /\ \A i \in 1..c : /\ Nth(ExecutedAt, i) \in ExecutedAt /\ Nth(ExecutedAt, i) \in 1..n
                              /\ Executed(reports)[i] = reports[Nth(ExecutedAt, i)]
<1>1. PICK K \in SUBSET (1..n) : K = ExecutedAt
  BY DEF ExecutedAt
<1>2. Executed(reports) = SelectAt(reports, K)
  BY <1>1 DEF Executed, Select, ExecutedAt
<1>3. PICK c \in Nat : c = Cardinality(K)
  BY PositionsAre
<1>4. Len(SelectAt(reports, K)) = c /\ DOMAIN SelectAt(reports, K) = 1..c
  BY <1>3, SelectAtIs
<1>5. \A i \in 1..c : Nth(K, i) \in K /\ Nth(K, i) \in 1..n
  BY <1>3, PositionsAre
<1>6. \A i \in 1..c : SelectAt(reports, K)[i] = reports[Nth(K, i)]
  BY <1>3, SelectAtIs
<1> QED BY <1>1, <1>2, <1>4, <1>5, <1>6

LEMMA ExecutedIs ==
  ASSUME NEW n \in Nat, reports \in [1..n -> Reports], ReportsAreSound
  PROVE  \E c \in Nat :
           /\ c = Len(Executed(reports)) /\ DOMAIN Executed(reports) = 1..c
           /\ \A i \in 1..c : Executed(reports)[i] \in Reports /\ Executed(reports)[i].buy > 0
<1>1. PICK c \in Nat :
        /\ c = Len(Executed(reports)) /\ DOMAIN Executed(reports) = 1..c
        /\ \A i \in 1..c : /\ Nth(ExecutedAt, i) \in ExecutedAt /\ Nth(ExecutedAt, i) \in 1..n
                           /\ Executed(reports)[i] = reports[Nth(ExecutedAt, i)]
  BY ExecutedPositions
<1>2. \A k \in ExecutedAt : reports[k].buy > 0
  BY DEF ExecutedAt, ReportsAreSound
<1>3. ASSUME NEW i \in 1..c
      PROVE  Executed(reports)[i] \in Reports /\ Executed(reports)[i].buy > 0
  BY <1>1, <1>2
<1> QED BY <1>1, <1>3

\* Every profit is a gain or a loss, and not both.
LEMMA GainsAndLooses ==
  ASSUME NEW n \in Nat, reports \in [1..n -> Reports], ReportsAreSound
  PROVE  Len(Gains(reports)) + Len(Looses(reports)) = Len(Executed(reports))
<1> DEFINE profits == Profits(reports)
<1>1. PICK c \in Nat :
        /\ c = Len(Executed(reports)) /\ DOMAIN Executed(reports) = 1..c
        /\ \A i \in 1..c : Executed(reports)[i] \in Reports /\ Executed(reports)[i].buy > 0
  BY ExecutedIs
<1>2. profits \in [1..c -> Int]
  <2> SUFFICES ASSUME NEW i \in 1..c PROVE Profit(Executed(reports)[i]) \in Int
    BY <1>1 DEF Profits
  <2>1. PICK r \in Reports : r = Executed(reports)[i] /\ r.buy > 0
    BY <1>1
  <2>2. r.sold \in Nat /\ r.buy \in Nat /\ Unit \in Nat
    BY PlanConstants DEF Reports, PlanConstants
  <2>3. Unit \div r.buy \in Int
    BY <2>1, <2>2
  <2> HIDE <2>1
  <2>4. r.sold * (Unit \div r.buy) \in Int
    BY <2>2, <2>3
  <2>5. Profit(r) \in Int
    BY <2>4 DEF Profit, NetOfFees
  <2> QED BY <2>1, <2>5
<1> HIDE DEF profits
<1> DEFINE G == {k \in 1..c : IsGain(profits[k])}
           L == {k \in 1..c : IsLoss(profits[k])}
<1>3. Gains(reports) = SelectAt(profits, G) /\ Looses(reports) = SelectAt(profits, L)
  BY <1>2 DEF Gains, Looses, Select, profits
<1>4. L = (1..c) \ G
  <2> SUFFICES ASSUME NEW k \in 1..c PROVE IsLoss(profits[k]) <=> ~IsGain(profits[k])
    OBVIOUS
  <2>1. PICK p \in Int : p = profits[k]
    BY <1>2
  <2>2. One \in Int
    BY PlanConstants DEF One, PlanConstants
  <2>3. p < One <=> ~(p >= One)
    BY <2>2
  <2> QED BY <2>1, <2>3 DEF IsGain, IsLoss
<1>5. G \subseteq 1..c /\ L \subseteq 1..c
  OBVIOUS
<1> HIDE DEF G, L
<1>6. Len(Gains(reports)) = Cardinality(G) /\ Len(Looses(reports)) = Cardinality(L)
  <2> HIDE <1>4
  <2>1. Len(SelectAt(profits, G)) = Cardinality(G) /\ Len(SelectAt(profits, L)) = Cardinality(L)
    BY <1>5, SelectAtIs
  <2> QED BY <1>3, <2>1
<1>7. Cardinality(G) + Cardinality(L) = Cardinality(1..c)
  <2>1. IsFiniteSet(1..c)
    BY NumbersUpTo
  <2> QED BY <1>4, <1>5, <2>1, SplitCount
<1>8. Cardinality(1..c) = c
  BY NumbersUpTo
<1> QED BY <1>1, <1>6, <1>7, <1>8

\* The reports of a status, in their order.
StatusAt(status) == {k \in DOMAIN reports : reports[k].status = status}

LEMMA WithStatusIs ==
  ASSUME NEW n \in Nat, DOMAIN reports = 1..n, NEW status
  PROVE  \E c \in Nat :
           /\ IsFiniteSet(StatusAt(status)) /\ StatusAt(status) \subseteq Nat
           /\ c = Cardinality(StatusAt(status)) /\ c = Len(WithStatus(reports, status))
           /\ DOMAIN WithStatus(reports, status) = 1..c
           /\ \A i \in 1..c : /\ Nth(StatusAt(status), i) \in 1..n
                              /\ WithStatus(reports, status)[i] = reports[Nth(StatusAt(status), i)]
<1>1. PICK K \in SUBSET (1..n) : K = StatusAt(status)
  BY DEF StatusAt
<1>2. WithStatus(reports, status) = SelectAt(reports, K)
  BY <1>1 DEF WithStatus, Select, StatusAt
<1>3. PICK c \in Nat : c = Cardinality(K)
  BY PositionsAre
<1>4. Len(SelectAt(reports, K)) = c /\ DOMAIN SelectAt(reports, K) = 1..c
  BY <1>3, SelectAtIs
<1>5. \A i \in 1..c : Nth(K, i) \in 1..n
  BY <1>3, PositionsAre
<1>6. \A i \in 1..c : SelectAt(reports, K)[i] = reports[Nth(K, i)]
  BY <1>3, SelectAtIs
<1>7. IsFiniteSet(K)
  BY PositionsAre
<1>8. K \subseteq Nat
  OBVIOUS
<1> QED BY <1>1, <1>2, <1>3, <1>4, <1>5, <1>6, <1>7, <1>8

\* No status goes back in time: the reports of each are in the order of all.
LEMMA DaysGoOn ==
  ASSUME NEW n \in Nat, reports \in [1..n -> Reports], ReportsAreSound, NEW status,
         WithStatus(reports, status) # <<>>
  PROVE  ~(DaysCount(WithStatus(reports, status)) < 0)
<1> DEFINE s == WithStatus(reports, status)
           K == StatusAt(status)
<1>1. PICK c \in Nat :
        /\ IsFiniteSet(K) /\ K \subseteq Nat
        /\ c = Cardinality(K) /\ c = Len(s) /\ DOMAIN s = 1..c
        /\ \A i \in 1..c : Nth(K, i) \in 1..n /\ s[i] = reports[Nth(K, i)]
  BY WithStatusIs
<1>2. s = [i \in 1..c |-> s[i]]
  <2>1. s = SelectAt(reports, K)
    BY DEF WithStatus, Select, StatusAt
  <2> QED BY <1>1, <2>1 DEF SelectAt
<1>3. c # 0
  <2>1. CASE c = 0
    <3>1. s = <<>>
      BY <1>2, <2>1
    <3> QED BY <3>1
  <2> QED BY <2>1
<1> HIDE DEF s, K
<1>4. 1 \in 1..c /\ c \in 1..c
  BY <1>3
<1>5. PICK a \in 1..n, b \in 1..n : a = Nth(K, 1) /\ b = Nth(K, c) /\ a <= b
  <2>1. Nth(K, 1) \in 1..n /\ Nth(K, c) \in 1..n
    BY <1>1, <1>4
  <2>2. CASE c = 1
    BY <2>1, <2>2
  <2>3. CASE c # 1
    <3>1. 1 < c
      BY <1>3, <2>3
    <3>2. Nth(K, 1) < Nth(K, c)
      BY <1>1, <1>4, <3>1, NthOrder
    <3>3. \E a \in 1..n, b \in 1..n : a = Nth(K, 1) /\ b = Nth(K, c) /\ a < b
      BY <2>1, <3>2
    <3>4. PICK a \in 1..n, b \in 1..n : a = Nth(K, 1) /\ b = Nth(K, c) /\ a < b
      BY <3>3
    <3> QED BY <3>4
  <2> QED BY <2>2, <2>3
<1>6. reports[a].start <= reports[b].start
  <2>1. b \in DOMAIN reports /\ a \in 1..b
    BY <1>5
  <2> QED BY <2>1 DEF ReportsAreSound
<1>7. Last(s).start = reports[b].start /\ Head(s).start = reports[a].start
  <2>1. s[1] = reports[a] /\ s[c] = reports[b]
    BY <1>1, <1>4, <1>5
  <2>2. Last(s) = s[c]
    BY <1>1 DEF Last
  <2>3. Head(s) = s[1]
    BY <1>1, <1>3
  <2> QED BY <2>1, <2>2, <2>3
<1>8. reports[a].start \in Nat /\ reports[b].start \in Nat
  BY DEF Reports
<1>9. DaysCount(s) = reports[b].start - reports[a].start
  BY <1>7 DEF DaysCount
<1>10. ~(reports[b].start - reports[a].start < 0)
  BY <1>6, <1>8
<1> QED BY <1>9, <1>10 DEF s

\* Each report is counted once, by its status.
LEMMA CountsAddUp ==
  ASSUME NEW n \in Nat, n = Len(reports), reports \in [1..n -> Reports]
  PROVE  LET count == GetTotalReport(reports).total_count
         IN  count["kOk"] + count["kFailedToProfitSell"] + count["kFailedToBuy"] + count["kPlanExpired"] = n
<1> DEFINE A == StatusAt("kOk")
           B == StatusAt("kFailedToProfitSell")
           C == StatusAt("kFailedToBuy")
           D == StatusAt("kPlanExpired")
           N == 1..n
<1>1. \A status \in Statuses :
        GetTotalReport(reports).total_count[status] = Cardinality(StatusAt(status))
  <2>1. \A status \in Statuses :
          GetTotalReport(reports).total_count[status] = Len(WithStatus(reports, status))
    BY DEF GetTotalReport
  <2> QED BY <2>1, WithStatusIs
<1>2. \A k \in N : reports[k].status \in Statuses
  BY DEF Reports
<1>3. DOMAIN reports = N
  OBVIOUS
<1>4. /\ A \subseteq N /\ B \subseteq N \ A /\ C \subseteq (N \ A) \ B
      /\ D = ((N \ A) \ B) \ C
  BY <1>2, <1>3 DEF StatusAt, Statuses
<1>5. IsFiniteSet(N) /\ Cardinality(N) = n
  BY NumbersUpTo
<1> HIDE DEF A, B, C, D, N
<1>6. /\ IsFiniteSet(N \ A) /\ Cardinality(A) \in Nat /\ Cardinality(N \ A) \in Nat
      /\ Cardinality(A) + Cardinality(N \ A) = n
  BY <1>4, <1>5, SplitCount
<1>7. /\ IsFiniteSet((N \ A) \ B) /\ Cardinality(B) \in Nat /\ Cardinality((N \ A) \ B) \in Nat
      /\ Cardinality(B) + Cardinality((N \ A) \ B) = Cardinality(N \ A)
  BY <1>4, <1>6, SplitCount
<1>8. /\ Cardinality(C) \in Nat /\ Cardinality(D) \in Nat
      /\ Cardinality(C) + Cardinality(D) = Cardinality((N \ A) \ B)
  BY <1>4, <1>7, SplitCount
<1>9. Cardinality(A) + Cardinality(B) + Cardinality(C) + Cardinality(D) = n
  BY <1>6, <1>7, <1>8
<1>10. /\ GetTotalReport(reports).total_count["kOk"] = Cardinality(A)
       /\ GetTotalReport(reports).total_count["kFailedToProfitSell"] = Cardinality(B)
       /\ GetTotalReport(reports).total_count["kFailedToBuy"] = Cardinality(C)
       /\ GetTotalReport(reports).total_count["kPlanExpired"] = Cardinality(D)
  BY <1>1 DEF A, B, C, D, Statuses
<1> HIDE DEF GetTotalReport
<1> QED BY <1>9, <1>10

\* Whatever becomes of the plans, the total report does not end the program;
\* plans follow one another, each is counted once by its status, and each that
\* was executed once as a gain or a loss, for any plans, prices and times
\* (benchmark_data_collector.cc:86-130, 141-164).
THEOREM TotalReportCorrect == Spec => []TotalReportIsMade
<1>1. TypeOK /\ ReportsAreSound /\ PlansFollow => TotalReportIsMade
  <2> SUFFICES ASSUME TypeOK, ReportsAreSound, PlansFollow PROVE TotalReportIsMade
    OBVIOUS
  <2>1. PICK n \in Nat : n = Len(reports) /\ reports \in [1..n -> Reports]
    <3>1. reports \in Seq(Reports)
      BY DEF TypeOK, Reports
    <3> QED BY <3>1
  <2>2. ~ReportExits(reports)
    <3>1. \A k \in DOMAIN Executed(reports) : ~(Executed(reports)[k].buy <= 0)
      <4>1. PICK c \in Nat :
              /\ c = Len(Executed(reports)) /\ DOMAIN Executed(reports) = 1..c
              /\ \A i \in 1..c : Executed(reports)[i] \in Reports /\ Executed(reports)[i].buy > 0
        BY <2>1, ExecutedIs
      <4> SUFFICES ASSUME NEW k \in 1..c PROVE ~(Executed(reports)[k].buy <= 0)
        BY <4>1
      <4>2. PICK r \in Reports : r = Executed(reports)[k] /\ r.buy > 0
        BY <4>1
      <4>3. r.buy \in Nat
        BY DEF Reports
      <4> QED BY <4>2, <4>3
    <3>2. \A status \in Statuses :
            WithStatus(reports, status) # <<>> => ~(DaysCount(WithStatus(reports, status)) < 0)
      BY <2>1, DaysGoOn
    <3> QED BY <3>1, <3>2 DEF ReportExits
  <2>3. LET count == GetTotalReport(reports).total_count
        IN  count["kOk"] + count["kFailedToProfitSell"] + count["kFailedToBuy"] + count["kPlanExpired"]
            = Len(reports)
    BY <2>1, CountsAddUp
  <2>4. Len(Gains(reports)) + Len(Looses(reports)) = Len(Executed(reports))
    BY <2>1, GainsAndLooses
  <2> QED BY <2>2, <2>3, <2>4 DEF TotalReportIsMade
<1> QED BY <1>1, PlanTypeCorrect, ReportsAreSoundCorrect, PTL

=============================================================================
