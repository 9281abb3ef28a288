---------------------------- MODULE StrategyTest ----------------------------
(***************************************************************************)
(* `strategy test`: a recorded market stream replayed on a clock that      *)
(* jumps.  Composed here are BenchmarkOrchestrator::Go on the main thread, *)
(* MockTimeProvider (the clock), ObservableUnits (a bit for each busy unit *)
(* and the callback when none is left), the transport counter of the three *)
(* event hubs, and the threads the command starts: the order book          *)
(* provider's and the analyzer's on the market stream, the emulator's on   *)
(* the order book stream, the order plan manager's on the analyzer stream, *)
(* and the order plan thread.                                              *)
(*                                                                         *)
(* What a handler does to data is in the modules of the components; here   *)
(* it is one step between its SetBusy and its SetReady, with the events it *)
(* dispatches.  EventHub has the queues' own locking and says how Stop may *)
(* miss a thread, OrderPlanManager how a notification may miss the plan    *)
(* thread; here each wakes.                                                *)
(***************************************************************************)
EXTENDS Integers, Sequences, FiniteSets

CONSTANTS
  Recordings,   \* the recordings: sequences of [kind, received_timestamp]
  PlanTimes,    \* timestamps the strategy makes a plan at (% 587 == 0)
  MaxTime       \* bound: when the clock stops

Kinds == {"update", "trade"}

\* A recording is in the order of its timestamps, which a single thread took
\* from one clock.
ASSUME RecordingConstants ==
  /\ MaxTime \in Nat
  /\ PlanTimes \subseteq 1..MaxTime
  /\ \A r \in Recordings :
       /\ r \in Seq([kind : Kinds, received_timestamp : 1..MaxTime])
       /\ \A k \in 2..Len(r) : r[k - 1].received_timestamp <= r[k].received_timestamp

Threads == {"provider", "analyzer", "emulator", "manager"}

\* The unit that is busy while a thread handles an event; the order plan
\* manager's event handler has none.
UnitOf == [provider |-> {"kOrderBookSnapshotProvider"}, analyzer |-> {"kAnalyzer"},
           emulator |-> {"kRealMarketEmulator"}, manager |-> {}]

VARIABLES
  recording,            \* what the file holds
  is_enabled_ts_jump,   \* is_enabled_ts_jump_ (FALSE: --no-ts-jump)
  main_pc,              \* where main is in Go, the shutdowns and the report
  position,             \* how many events ReadNext has read
  now,                  \* MockTimeProvider::Now(), 0 before there is one
  units_busy,           \* units_busy_
  total_event_count,    \* TransportUnitStateImpl::total_event_count_
  queue,                \* each thread's events, the one being handled first
  stage,                \* where each thread is with its first event
  book_ts,              \* order_book_.received_timestamp
  last_sent,            \* last_sent_r_ts_
  order_plan_info,      \* order_plan_info_: the time it was made for, 0: none
  plan_pc,              \* where the order plan thread is
  accepted,             \* history: plans handed over
  order_plan_start_time, \* Now() when the plan in process was taken up
  reports,              \* reports_, of each its start_ts
  reported              \* what the final report counted

clock_vars == <<now, units_busy>>
main_vars == <<recording, is_enabled_ts_jump, main_pc, position, reported>>
thread_vars == <<book_ts, last_sent, order_plan_info, accepted>>
plan_vars == <<plan_pc, order_plan_start_time, reports>>
vars == <<main_vars, clock_vars, total_event_count, queue, stage, thread_vars, plan_vars>>

Init ==
  /\ recording \in Recordings
  /\ is_enabled_ts_jump \in BOOLEAN
  /\ main_pc = "read"
  /\ position = 0
  /\ now = 0
  /\ units_busy = {}
  /\ total_event_count = 0
  /\ queue = [t \in Threads |-> <<>>]
  /\ stage = [t \in Threads |-> "idle"]
  /\ book_ts = 0
  /\ last_sent = 0
  /\ order_plan_info = 0
  /\ plan_pc = "idle"
  /\ accepted = 0
  /\ order_plan_start_time = 0
  /\ reports = <<>>
  /\ reported = 0

-----------------------------------------------------------------------------
(* The clock and the units.                                                *)

next_data_ts == recording[position].received_timestamp

\* Only main waits on the clock, and only for the event it has read.
JumpToFirstAwaitingTimestamp == now' = IF main_pc = "waiting" THEN next_data_ts ELSE now

\* The callback of the last busy unit, made under the units' mutex.
OnAllUnitsReady == IF is_enabled_ts_jump THEN JumpToFirstAwaitingTimestamp ELSE UNCHANGED now

SetBusy(units) == units_busy' = units_busy \cup units

\* Mutant: the callback is made whenever a unit becomes ready.
MutantSetReady(units) == units_busy' = units_busy \ units /\ OnAllUnitsReady

SetReady(units) ==
  /\ units_busy' = units_busy \ units
  /\ IF units_busy' = {} THEN OnAllUnitsReady ELSE UNCHANGED now

\* Time goes on by itself once the first event has set the clock.
Tick ==
  /\ now # 0 /\ now < MaxTime
  /\ now' = now + 1
  /\ UNCHANGED <<main_vars, units_busy, total_event_count, queue, stage, thread_vars, plan_vars>>

-----------------------------------------------------------------------------
(* The transport: an event is pushed to a thread's queue, and counted out  *)
(* when its handler has returned.                                          *)

\* Mutant: dispatching sets no unit busy.
MutantPushEvent(t, event) ==
  /\ queue' = [queue EXCEPT ![t] = Append(@, event)]
  /\ total_event_count' = total_event_count + 1
  /\ UNCHANGED units_busy

PushEvent(t, event) ==
  /\ queue' = [queue EXCEPT ![t] = Append(@, event)]
  /\ total_event_count' = total_event_count + 1
  /\ IF total_event_count = 0 THEN SetBusy({"kTransport"}) ELSE UNCHANGED units_busy

CountOut(t) ==
  /\ stage[t] = "handled"
  /\ stage' = [stage EXCEPT ![t] = "idle"]
  /\ queue' = [queue EXCEPT ![t] = Tail(@)]
  /\ total_event_count' = total_event_count - 1
  /\ IF total_event_count' = 0 THEN SetReady({"kTransport"}) ELSE UNCHANGED clock_vars
  /\ UNCHANGED <<main_vars, thread_vars, plan_vars>>

-----------------------------------------------------------------------------
(* The handlers.                                                           *)

Event(t) == Head(queue[t])

\* The provider leaves a trade alone; any other handler sets its unit busy.
BeginHandling(t) ==
  /\ stage[t] = "idle"
  /\ queue[t] # <<>>
  /\ IF t = "provider" /\ Event(t).kind = "trade"
     THEN stage' = [stage EXCEPT ![t] = "handled"] /\ UNCHANGED units_busy
     ELSE stage' = [stage EXCEPT ![t] = "working"] /\ SetBusy(UnitOf[t])
  /\ UNCHANGED <<main_vars, now, total_event_count, queue, thread_vars, plan_vars>>

\* The unit is ready again (a scoped state's destructor).
EndHandling(t) ==
  /\ stage[t] = "worked"
  /\ stage' = [stage EXCEPT ![t] = "handled"]
  /\ IF UnitOf[t] # {} THEN SetReady(UnitOf[t]) ELSE UNCHANGED clock_vars
  /\ UNCHANGED <<main_vars, total_event_count, queue, thread_vars, plan_vars>>

Works(t) == stage[t] = "working" /\ stage' = [stage EXCEPT ![t] = "worked"]

OnOrderBookUpdateEvent ==
  /\ Works("provider")
  /\ book_ts' = Event("provider").received_timestamp
  /\ PushEvent("emulator", Event("provider"))
  /\ UNCHANGED <<main_vars, now, last_sent, order_plan_info, accepted, plan_vars>>

\* DummyTradingStrategy::DummyMethod: a plan at some timestamps, once each,
\* on a book at least as new (GetSnapshot blocks until there is one).
MakesPlan == Event("analyzer").received_timestamp \in PlanTimes \ {last_sent}

SkipMarketEvent ==
  /\ Works("analyzer")
  /\ ~MakesPlan
  /\ UNCHANGED <<main_vars, clock_vars, total_event_count, queue, thread_vars, plan_vars>>

\* Mutant: only a newer book will do.
MutantIsFresh == Event("analyzer").received_timestamp < book_ts

IsFresh == Event("analyzer").received_timestamp <= book_ts

DispatchPlan ==
  /\ Works("analyzer")
  /\ MakesPlan
  /\ IsFresh
  /\ last_sent' = Event("analyzer").received_timestamp
  /\ PushEvent("manager", Event("analyzer"))
  /\ UNCHANGED <<main_vars, now, book_ts, order_plan_info, accepted, plan_vars>>

OnOrderBookStreamEvent ==
  /\ Works("emulator")
  /\ UNCHANGED <<main_vars, clock_vars, total_event_count, queue, thread_vars, plan_vars>>

\* Mutant: a plan replaces the one in process.
MutantOnOrderPlanStreamEvent ==
  /\ Works("manager")
  /\ order_plan_info' = Event("manager").received_timestamp
  /\ accepted' = accepted + 1
  /\ UNCHANGED <<main_vars, clock_vars, total_event_count, queue, book_ts, last_sent, plan_vars>>

OnOrderPlanStreamEvent ==
  /\ Works("manager")
  /\ IF order_plan_info = 0
     THEN order_plan_info' = Event("manager").received_timestamp /\ accepted' = accepted + 1
     ELSE UNCHANGED <<order_plan_info, accepted>>
  /\ UNCHANGED <<main_vars, clock_vars, total_event_count, queue, book_ts, last_sent, plan_vars>>

Thread(t) == BeginHandling(t) \/ EndHandling(t) \/ CountOut(t)
Handler ==
  \/ OnOrderBookUpdateEvent \/ SkipMarketEvent \/ DispatchPlan \/ OnOrderBookStreamEvent
  \/ OnOrderPlanStreamEvent

-----------------------------------------------------------------------------
(* The order plan thread.                                                  *)

PlanGoesOn(from, to) ==
  /\ plan_pc = from
  /\ plan_pc' = to
  /\ UNCHANGED <<main_vars, total_event_count, queue, stage, book_ts, last_sent, accepted>>

StartPlan ==
  /\ order_plan_info # 0
  /\ PlanGoesOn("idle", "working")
  /\ SetBusy({"kOrderPlanManager"})
  /\ order_plan_start_time' = now
  /\ UNCHANGED <<now, order_plan_info, reports>>

\* PlaceOrder or CancelOrder: the units of the OrderManager and the emulator
\* are busy within kOrderPlanManager's, and the emulator's may be the one
\* its own thread has set.
CallEmulator ==
  /\ PlanGoesOn("working", "calling")
  /\ SetBusy({"kOrderManager", "kRealMarketEmulator"})
  /\ UNCHANGED <<now, order_plan_info, order_plan_start_time, reports>>

ReturnFromEmulator ==
  /\ PlanGoesOn("calling", "working")
  /\ SetReady({"kOrderManager", "kRealMarketEmulator"})
  /\ UNCHANGED <<order_plan_info, order_plan_start_time, reports>>

SendReport ==
  /\ PlanGoesOn("working", "reported")
  /\ reports' = Append(reports, order_plan_start_time)
  /\ UNCHANGED <<clock_vars, order_plan_info, order_plan_start_time>>

EndPlan ==
  /\ PlanGoesOn("reported", "release")
  /\ SetReady({"kOrderPlanManager"})
  /\ order_plan_start_time' = 0
  /\ UNCHANGED <<order_plan_info, reports>>

ReleasePlan ==
  /\ PlanGoesOn("release", "idle")
  /\ order_plan_info' = 0
  /\ UNCHANGED <<clock_vars, order_plan_start_time, reports>>

PlanThread == StartPlan \/ CallEmulator \/ ReturnFromEmulator \/ SendReport \/ EndPlan \/ ReleasePlan

-----------------------------------------------------------------------------
(* The main thread: Go, the three shutdowns, the report.                   *)

MainGoes(from, to) ==
  /\ main_pc = from
  /\ main_pc' = to
  /\ UNCHANGED <<recording, is_enabled_ts_jump, stage, thread_vars, plan_vars>>

\* The first event sets the clock.  The unit of the forwarder is busy within
\* this step only; nobody waits on the clock then.
ReadNext ==
  /\ position < Len(recording)
  /\ MainGoes("read", "choose")
  /\ position' = position + 1
  /\ now' = IF position = 0 THEN recording[1].received_timestamp ELSE now
  /\ UNCHANGED <<units_busy, total_event_count, queue, reported>>

\* GetBusyUnits is asked once, under the units' mutex ...
ChooseJump ==
  /\ is_enabled_ts_jump /\ units_busy = {}
  /\ MainGoes("choose", "jump")
  /\ UNCHANGED <<position, clock_vars, total_event_count, queue, reported>>

ChooseWait ==
  /\ ~(is_enabled_ts_jump /\ units_busy = {})
  /\ MainGoes("choose", "wait")
  /\ UNCHANGED <<position, clock_vars, total_event_count, queue, reported>>

\* ... and what it said may be over when the clock jumps; it may also jump
\* back, when it has run past the event's time.
JumpToTime ==
  /\ MainGoes("jump", "provider")
  /\ now' = next_data_ts
  /\ UNCHANGED <<position, units_busy, total_event_count, queue, reported>>

StartWaiting ==
  /\ MainGoes("wait", "waiting")
  /\ now < next_data_ts
  /\ UNCHANGED <<position, clock_vars, total_event_count, queue, reported>>

\* Mutant: a wake-up is taken for the end of the wait.
MutantWaitUntil ==
  /\ \E from \in {"wait", "waiting"} : MainGoes(from, "provider")
  /\ UNCHANGED <<position, clock_vars, total_event_count, queue, reported>>

\* WaitUntil returns, at once if the time has come already.
WaitUntil ==
  /\ \E from \in {"wait", "waiting"} : MainGoes(from, "provider")
  /\ now >= next_data_ts
  /\ UNCHANGED <<position, clock_vars, total_event_count, queue, reported>>

\* ForwardNext: a push to each queue of the market stream's hub.
ForwardNext ==
  /\ \/ MainGoes("provider", "analyzer") /\ PushEvent("provider", recording[position])
     \/ MainGoes("analyzer", "read") /\ PushEvent("analyzer", recording[position])
  /\ UNCHANGED <<position, now, reported>>

EndOfRecording ==
  /\ position = Len(recording)
  /\ MainGoes("read", "stop provider")
  /\ UNCHANGED <<position, clock_vars, total_event_count, queue, reported>>

\* Shutdown of the three hubs: each queue's thread is joined, its queue empty.
Joined(t) == queue[t] = <<>> /\ stage[t] = "idle"

Shutdown ==
  /\ \/ Joined("provider") /\ MainGoes("stop provider", "stop analyzer")
     \/ Joined("analyzer") /\ MainGoes("stop analyzer", "stop emulator")
     \/ Joined("emulator") /\ MainGoes("stop emulator", "stop manager")
     \/ Joined("manager") /\ MainGoes("stop manager", "report")
  /\ UNCHANGED <<position, clock_vars, total_event_count, queue, reported>>

\* Of two reports of one status the second has started before the first.
ReportMayExit == \E k \in 2..Len(reports) : \E j \in 1..(k - 1) : reports[k] < reports[j]

\* The order plan thread is not waited for.  GetTotalReport exits instead, if
\* the plans that went back in time have the same status.
GenerateTotalReport ==
  /\ \/ MainGoes("report", "done") /\ reported' = Len(reports)
     \/ MainGoes("report", "exited") /\ ReportMayExit /\ UNCHANGED reported
  /\ UNCHANGED <<position, clock_vars, total_event_count, queue>>

Main ==
  \/ ReadNext \/ ChooseJump \/ ChooseWait \/ JumpToTime \/ StartWaiting \/ WaitUntil
  \/ ForwardNext \/ EndOfRecording \/ Shutdown \/ GenerateTotalReport

\* The program ends when main does.
Ended == main_pc \in {"done", "exited"}

Next ==
  \/ /\ ~Ended
     /\ \/ Main
        \/ \E t \in Threads : Thread(t)
        \/ Handler
        \/ PlanThread
        \/ Tick
  \/ Ended /\ UNCHANGED vars

\* Every thread is scheduled, but a plan may take for ever: an order is
\* filled when the market wants, or runs out of its time.
Fairness ==
  /\ WF_vars(Main) /\ WF_vars(Handler) /\ WF_vars(Tick)
  /\ \A t \in Threads : WF_vars(Thread(t))

Spec == Init /\ [][Next]_vars
FairSpec == Spec /\ Fairness

-----------------------------------------------------------------------------
(* Properties.                                                             *)

Units == {"kOrderBookSnapshotProvider", "kAnalyzer", "kRealMarketEmulator", "kOrderPlanManager",
          "kOrderManager", "kTransport"}

\* The types of the variables, and what the bits of the units stand for.
TypeOK ==
  /\ recording \in Recordings /\ is_enabled_ts_jump \in BOOLEAN
  /\ position \in 0..Len(recording)
  /\ now \in 0..MaxTime
  /\ units_busy \subseteq Units
  /\ total_event_count = Len(queue["provider"]) + Len(queue["analyzer"]) + Len(queue["emulator"]) + Len(queue["manager"])
  /\ "kTransport" \in units_busy <=> total_event_count > 0
  /\ "kOrderPlanManager" \in units_busy <=> plan_pc \in {"working", "calling", "reported"}
  /\ \A t \in Threads : stage[t] \in {"idle", "working", "worked", "handled"}
  /\ book_ts \in 0..MaxTime /\ last_sent \in 0..MaxTime /\ order_plan_info \in 0..MaxTime
  /\ plan_pc \in {"idle", "working", "calling", "reported", "release"}
  /\ order_plan_start_time # 0 <=> "kOrderPlanManager" \in units_busy
  /\ reports \in Seq(1..MaxTime)

Nothing == \A t \in Threads : queue[t] = <<>>

\* Time goes on by one; any other change of it is a jump.
Jumps == now # 0 /\ now' # now /\ now' # now + 1

\* The clock never jumps while an event is queued or handled, although the
\* emulator's bit is no counter and two threads set and reset it; and the
\* callback's jump finds no plan being processed either
\* (observable_units.cc:45-51, benchmark_orchestrator.cc:47-51, 70-75).
JumpOnlyWhenQuiet ==
  [][Jumps => /\ Nothing'
              /\ main_pc = "waiting" => plan_pc' \in {"idle", "release"}]_vars

\* No event is handled, and none lies in a queue, before its time by the
\* clock, though the clock may jump back: what the strategy and the emulator
\* read as Now() is never earlier than their event, and no plan starts before
\* the event it was made at (mock_time_provider.cc:13-20,
\* benchmark_orchestrator.cc:47-65, order_plan_manager.cc:53).
NeverBeforeItsTime ==
  /\ \A t \in Threads : \A k \in DOMAIN queue[t] : queue[t][k].received_timestamp <= now
  /\ order_plan_start_time # 0 => order_plan_info <= order_plan_start_time

\* The report counts every plan that was handed over but the one still in
\* process, if there is one: main waits for the hubs' threads and not for the
\* order plan thread (command_strategy_test_handler.cc:120-125).
ReportMissesOnlyTheLast ==
  main_pc = "done" =>
    /\ reported <= accepted
    /\ accepted <= reported + 1
    /\ accepted # reported => order_plan_info # 0

\* The replay comes to its report, unless the analyzer is left waiting for a
\* book newer than the recording's last (order_book_snapshot_provider.cc:30-32)
\* or, which takes a clock that jumps, plans whose start times go back end the
\* program in it (benchmark_data_collector.cc:159-164).
Starved ==
  /\ stage["analyzer"] = "working" /\ MakesPlan
  /\ Joined("provider") /\ book_ts < Event("analyzer").received_timestamp
EndsOrStarves ==
  <>\/ main_pc = "done"
    \/ main_pc = "stop analyzer" /\ Starved
    \/ main_pc = "exited" /\ is_enabled_ts_jump

\* README.md:36: the command tests the strategy on the recorded stream and
\* outputs the result.
ReplayEnds == <>(main_pc = "done")

\* Jumping is an "optimization" (README.md:36), and the results with and without
\* it are compared to be identical (test_stream_analyzer.py:56, 98-99).  For
\* that no jump may come between the event a plan is made at and the start of
\* the plan, which takes the clock's time for its own.
NoJumpBeforePlanStarts == [][Jumps => ~(order_plan_info' # 0 /\ plan_pc' = "idle")]_vars

=============================================================================
