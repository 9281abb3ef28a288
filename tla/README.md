# terry: specifications and proofs

TLA+ models of `terry`, a C++ program that records the market stream of an
exchange, replays it, and runs a trading strategy against an emulated market.
The models are written from the code under `src/` (paths below are relative to
the repository root, so `src/src/...` and `src/include/...`); TLC checks them
on small instances, and TLAPS proves the event hub, recordings, the emulated exchange,
the order plan manager, the market stream, the local order book and the replay correct
for every size.

- `PROJECT.json` lists the components, the runs, the mutants that show each
  property can fail, the source lines of every definition, the disagreements
  found between the code and its own tests and documents, the hazards the
  properties are aimed at, and the theorems.
- A run: `tlc -config <run>.cfg <module>`; a proof: `tlapm <module>.tla`.

## 1. The system

### Threads and data flow

    exchange --> BinAPIClient --> MarketStreamForwarder --+
                 (network thread)                         |  market stream hub
    recording -> SavedMarketStreamForwarder (main) -------+
                                                          |
              +-------------------+-----------------------+--------+
              v                   v                                v
    OrderBookSnapshotProvider   MarketAnalyzer -> strategy     saver, printer
      (queue thread)              (queue thread)                (queue threads)
              |  order book hub       |  analyzer hub
              v                       v
     RealMarketEmulator         OrderPlanManager handler
       (queue thread)             (queue thread)
              ^                       |  order_plan_info_, cv_
              |                       v
              +--- OrderManager <- order plan thread -> BenchmarkDataCollector

Every subscriber of a hub has its own queue, mutex, condition variable and
thread. Five commands wire the parts differently (`src/src/commands/`):

- `stream save`: forwarder, saver, printer. The network thread is started
  *before* the saver and the printer subscribe (`Initialize` connects), a timer
  ends it, and the destructors run in the reverse order of the declarations.
- `stream load`: main reads a recording and dispatches to the printer.
- `strategy test`: main replays a recording on a clock that jumps.
- `strategy test-online`: forwarder, strategy and saver; here the connection is
  made after all have subscribed.
- `orderbook test`: forwarder, provider and `BenchmarkManager`; never returns.

### Components, their state, and what makes them correct

| component | state | operations | what must hold |
|---|---|---|---|
| `events::EventHub`, `MessageQueueThread` (`event_hub.h`) | queues, stop flags, subscriber list | Subscribe, DispatchEvent/PushEvent, ThreadLoop, WaitForAllEventsProcessed, Shutdown/Stop | every subscriber gets each event since its subscription, once, in order; a shutdown drains, ends, and is followed by no callback |
| `TransportUnitStateImpl` (`event_hub.cc`) | event count of all hubs | AddOneEvent, RemoveOneEvent | the `kTransport` unit is busy exactly while an event is in flight |
| `RealMarketEmulator` | orders, their promises, last best prices | PlaceOrder, CancelOrder, a new snapshot | each order answered once; a limit order by the first snapshot that reaches it |
| `OrderPlanManager`, `OrderManager` | the plan in process, the order waited for | hand-over of a plan; buy, sell, forced sale, report | one order at a time; one report per plan, telling what was traded, and no asset left over, but for orders filled too late |
| `MarketStreamForwarder`, `OrderBookStreamForwarder`, `TradeStreamForwarder` | init stage, update buffer, ids | diff, depth answer, trade | one book and then diffs without a gap; trades only on a known book; the stream starts |
| `OrderBookSnapshotProvider` | the local order book | merge of an update, GetSnapshot | the book is what the updates told; a snapshot is as new as asked; a waiting caller is answered |
| `MarketAnalyzer`, `DummyTradingStrategy` | last plan's timestamp | a plan at certain event times | no plan on a book older than its event |
| `ObservableUnits`, `ScopedUnitState` | a bit for each unit | SetBusy, SetReady with a callback, GetBusyUnits | all ready only when nothing is going on |
| `MockTimeProvider`, `GlobalClock` | start time, waiting times | Now, WaitUntil, the two jumps | no event before its time |
| `BenchmarkOrchestrator` | the replay loop | Go, Stop, OnAllUnitsReady | a jump changes nothing but how long the replay takes |
| `SavedMarketStreamForwarder`, `MarketStreamSaver` | archive and file position | save, close; Initialize, ReadNext, ForwardNext | what is replayed is what was dispatched, without a hole, however the recording ended |
| `BenchmarkDataCollector` | reports | AddOrderPlanReport, GetTotalReport | every plan counted; the report never ends the program; statistics defined |
| `BenchmarkManager` | a second connection | periodic comparison of books | every common level is found; equal books compare as equal |
| `BinAPIClient` | connection, io thread | subscriptions, depth request, Run | one thread calls all callbacks |

The hard behaviours are the interleavings of these threads: condition variables
notified without their mutex, checks made under one lock and used after it,
futures that time out while they are being answered, a simulated clock that may
jump while a thread that no bit stands for is about to start. They are listed
one by one, at their lines, under "hazards" in `PROJECT.json`.

## 2. Modules

| module | models | used by |
|---|---|---|
| `EventBus` | abstract: one order of events, each subscriber called with those since its subscription | `EventHub` |
| `EventHub` | the hub, its queue threads, the dispatcher, main, the transport count | its runs, `EventHubProofs`, `RecordedStream` |
| `EventHubProofs` | inductive invariant of `EventHub`: types, transport, drain, shutdown, no late callback, refinement of `EventBus` | `RecordedStreamProofs` |
| `RecordedStream` | `stream save` and `test-online` on the hub: saver, file, timer, teardown, exit on error; the loader | `RecordedStreamProofs` |
| `RecordedStreamProofs` | a recording is the hub's; teardown, what is recorded, what is loaded | |
| `Exchange` | abstract: an order is open until it is answered, once | `RealMarketEmulator` |
| `RealMarketEmulator`, `MCEmulator` | the emulated exchange, alone with any client | `OrderPlanManager`, `EmulatorProofs` |
| `EmulatorProofs` | inductive invariant of the emulator, refinement of `Exchange` | `OrderPlanProofs` |
| `Selection` | loops that copy what passes a test, in order, and loops that add up | `BenchmarkDataCollector`, `BenchmarkManager` |
| `SelectionProofs` | what those loops give: the i-th of a set of numbers, selections, totals, functions defined by recursion | `OrderPlanProofs`, `OrderBookProofs` |
| `BenchmarkDataCollector` | the total report, as operators on sequences of reports | `OrderPlanManager` |
| `OrderPlanManager`, `MCOrderPlans` | plan hand-over, plan thread, reports, emulator, clock | `OrderPlanProofs` |
| `OrderPlanProofs` | inductive invariant of the plan manager: types, one live order, at most one report for each plan; what reports tell, no asset left over, the total report | |
| `MarketStreamForwarder` | the forwarder against an external exchange | `MarketStreamProofs` |
| `MarketStreamProofs` | inductive invariant of the forwarder: no gap, nothing held back, no trade lost | |
| `OrderBookSnapshotProvider` | the local order book between hub and strategy | `BenchmarkManager` |
| `BenchmarkManager`, `MCOrderBook` | the comparison of that book with the exchange's | `OrderBookProofs` |
| `OrderBookProofs` | the merge of an update, the book in order and as told, fresh snapshots, the comparison | |
| `StrategyTest`, `MCStrategyTest` | `strategy test`: replay, clock, busy units, all threads | `StrategyTestProofs` |
| `StrategyTestProofs` | inductive invariant of a replay: units, clock, jumps, final report | |

### How state and steps correspond to the code

**EventHub.** An event is its position in the order of accepted dispatches.
What a thread does under `mutex_` is one step, with one exception that matters:
`cv_.wait` evaluates its predicate and joins the wait set in two steps
(`FindNothing`, `Block`). The mutex is held in between, so `PushEvent` and
`IsWorking` must wait (`Locked`), but `Stop` does not take it (`StopSetFlag`,
`StopNotify`). `DispatchEvent` looks at `event_hub_stopped_` once, then pushes
to each queue in a step of its own. `DispatchFromMain` tells the commands apart:
in `stream load` and the replay, main dispatches; in `stream save` and
`strategy test-online` the network thread does, also while main shuts down.
`AddOneEvent`/`RemoveOneEvent` are part of the push and of the loop's end, as in
the code. Histories (`dispatched`, `subscribed_at`, `delivered`) are what the
refinement to `EventBus` maps.

**RecordedStream** extends `EventHub`: `HubStep` is the hub's own steps, and what
the saver's handler has been called with (`delivered`) is what it has written.
The file is the archive's header and, for each event, two pieces, its type and
its data, because `ReadNext` reads them one by one with an error path each.
When main has shut the hub down it destroys its objects one by one, the last declared
first (`alive` counts those left, `Declared` and `Listener` are their places in `Run`):
the listeners (`DestroyListener`), the saver among them flushing and closing its file
(`CloseFile`); the forwarder, whose client unsubscribes, so that `io_context_.run()`
comes to its end after the callback it is in (`Unsubscribe`, `NetworkEnds`), and joins
the network thread (`JoinNetwork`); the hub (`DestroyHub`). `stream save` with and
without `--print-stream` and `strategy test-online` have one, two and three listeners
(`Listeners`), the saver first or last (`Saver`). `ExitOnError` is `exit(-1)` in an error callback: destructors of main's
locals do not run, and the disk keeps any beginning of the file that may be in the
middle of a record. `CanLoad`, `ReadNext`, `Loaded` are the loader, alone with the
file afterwards. In `stream save` the dispatches may begin before the
subscriptions do; each subscription falls between two dispatches, its data race
with one under way being undefined.

**BenchmarkDataCollector.** `GetTotalReport` computes from `reports_` without
changing anything, so it is operators on sequences. Its loops are those of
`Selection`: `Select` copies the elements that pass a test (`Nth` numbers their
positions), `Total` adds up. They are `SelectSeq` and a fold in a form without
recursive operators, which proofs can be made about. Multipliers of profit
are kept whole by counting them in parts of `One`; an average is a fraction, a
median is doubled. `ASSUME StatisticsAreSound` has TLC compare the average and the
median with what they mean, over all sequences of up to four small numbers.

**RealMarketEmulator.** All operations hold `mutex_`, so each is a step. The two
passes of a snapshot (market orders, then the price test over the same list)
are kept apart, because an order may pass both: `promise_error` is the
`std::future_error` that ends the program. Only the best prices of a snapshot
are kept; quantities are copied through by the code and tell nothing apart.
`Exchange` is what the trading thread may rely on: `Place`, `Cancel` and `Move`, the
last filling at once all that the prices satisfy. Its `open` is `orders`, its
`answer` the promises; `promise_error`, the end of the program, is a stutter.

**OrderPlanManager** extends the emulator's module. The plan thread's steps end
wherever it lets go between two reads or calls: expiry checks, `PlaceOrder`, the
end of `wait_for`, `CancelOrder`, taking the result, the report, the release.
`OrderTimeout` needs the clock at the expiration and no answer at that moment,
so that a snapshot may come between the timeout and `Cancel`. The code computes
the time left once and waits for it in real time; with a clock that never goes
back (online, or a replay that does not jump back during an order) a timeout
never comes before the expiration by the clock, which is what the guard says.
`order_plan_info` is tested and set in one step, by one thread; only the plan
thread clears it. A report's `duration` is measured by a steady clock in the code;
it is taken from `now`, which is that clock as long as nothing jumps.

**MarketStreamForwarder.** All callbacks run on the thread of the `io_context`,
so each is a step. The exchange is external, modelled from how the code uses
it: it numbers changes, sends diffs `[U, u]` and trades over one ordered
connection, and answers a depth request with the book as of some id, `MaxStale`
ids old at most. The debug-only assertion on consecutive ids is the property
`GapFree`, not a guard. The properties speak of the places of a kind of message in a
sequence (`Places`, `Chained`, `EndsAt`), so that trades between diffs do not matter.

**OrderBookSnapshotProvider.** `MergeItem` is one turn of the loop over an
update's levels: what it appends to the new book, given the place the iterator
over the old levels has come to (`Passed`); `UpdateOrderBookItems` puts the turns
together and adds the old levels left over. `Tell`, a table from prices to
quantities, is the reference for it. Timestamps never
decrease and may repeat. The strategy may ask for a snapshot at any event.

**BenchmarkManager.** `StopAt` is the inner loop of the walk, which goes on from
where it stopped for the price before; `Compare` is a turn of the outer one. The
squares of the vectors' lengths are compared instead of the lengths. The exchange's book
is what all events tell (`LevelsTold`), the provider being as far behind as it is.

**StrategyTest.** The data of the handlers is left to the modules above; what is
kept is every step that touches time, the busy bits, a queue or the plan: for
each queue thread SetBusy, the work with the events it dispatches, SetReady and
the count-out; the plan thread's own busy bits and its calls to the emulator; for
main `ReadNext`, `GetBusyUnits`, the jump or the wait, the two pushes of
`ForwardNext`, the shutdowns in the command's order, and the report.
`JumpToFirstAwaitingTimestamp` is made inside the last SetReady, under the
units' mutex. `is_enabled_ts_jump` is both values (`--no-ts-jump`). Reports are
their start times, which may go back; the status of a report is left open, so
`GenerateTotalReport` may exit whenever two of them do.

## 3. Runs

All bounds are CONSTANTS named in the modules' headers. "Violation" runs state
what a test, a comment or a document of the repository says and find the
interleaving in which the code does otherwise; `PROJECT.json` quotes the line.

| run | module | states | shows |
|---|---|---|---|
| EventHubReplay | EventHub | 8,926 | with main dispatching: `ShutdownDrains`, `WaitMeansDrained`, `DeliversAll`; `ReturnsOrLosesWakeup`: the lost notification is the only way a shutdown hangs |
| EventHubOnline | RecordedStream | 363,923 | with the network thread dispatching: `RecordingTypeOK`, `BusyIffInFlight`, `NoCallbackAfterShutdown`, `ImplementsBus`, `ReplayIsRecorded`, `TimerLosesNothing`, `RecordedIsTested`, `NobodyUsesDestroyed` |
| EventHubStop | EventHub | violation | `ShutdownReturnsEventually`: the lost notification |
| Emulator | MCEmulator | 7,128 | `FilledByFirstCrossing`, `SetTwiceOnlyAtFirst`, `ImplementsExchange` |
| OrderPlans | MCOrderPlans | 146,476 | `TypeOK`, `OneLiveOrder`, `OneReportPerPlan`, `ReportsAreHonest`, `FlatButForLateFills`, `TotalReportIsMade`, `PromiseSetOnce`, `PlansEnd`, `ReportedOrLost` |
| OrderPlansLateBuy | MCOrderPlans | violation | `ExpiredBuyIsCanceled`: an order filled between timeout and cancel |
| MarketStream | MarketStreamForwarder | 4,115 | `TypeOK`, `GapFree`, `NothingHeldBack`, `TradesContiguous`, `StreamStartsUnlessStale` |
| OrderBook | MCOrderBook | 470,850 | `TypeOK`, `BookIsOrdered`, `BookIsTold`, `SnapshotIsFresh`, `ComparisonAgrees`, `SnapshotOrEndOfStream` |
| OrderBookEmptyLevel | MCOrderBook | violation | `NoEmptyLevel`: a removal beyond the last level |
| StrategyTest | MCStrategyTest | 814,354 | `TypeOK`, `NeverBeforeItsTime`, `ReportMissesOnlyTheLast`, `JumpOnlyWhenQuiet`, `EndsOrStarves` |
| StrategyTestStarves | MCStrategyTest | violation | `ReplayEnds`: a snapshot no book answers |
| StrategyTestHandOff | MCStrategyTest | violation | `NoJumpBeforePlanStarts`: nothing is busy between a plan and its start |

### What the passing properties except

Some properties hold only with an exception, which is then part of the formula
and is itself something the code does:

- `ReturnsOrLosesWakeup`, `ReportedOrLost`: a condition variable is notified
  without its mutex (`event_hub.h:140`, `order_plan_manager.cc:43`) between the
  other thread's look at its predicate and its wait. A hub then does not shut
  down; a plan is never taken up, and as it stays in `order_plan_info_` every
  later plan is dropped.
- `FlatButForLateFills`: an order may be filled between the timeout of its
  future and `CancelOrder` (`order_plan_manager.cc:130-143`). A bought asset stays
  unsold, a sold one is sold again.
- `StreamStartsUnlessStale`: a depth answer older than the first buffered diff can
  never be continued and is not asked for again
  (`order_book_stream_forwarder.cc:53-91`).
- `EndsOrStarves`, `SnapshotOrEndOfStream`: a snapshot asked for at a trade after
  the last update of a recording is never given
  (`order_book_snapshot_provider.cc:30`).
- `EndsOrStarves`: with jumps, the clock may be set back from where it has run to
  the next event's time, so a plan may start earlier than the plan before it. If
  the two get the same status, `GetTotalReport` takes it for "wrong math" and exits
  (`benchmark_data_collector.cc:159-164`): no report at all. TLC reaches it with
  two updates, two time units apart. On a clock that only goes on it cannot happen
  (`TotalReportIsMade`, whose clock is of that kind): no property excludes the exit
  where it occurs.
- `RecordedIsTested`: a dispatch overtaken by the shutdown may reach the strategy
  and not the recording, or the other way round (`event_hub.h:63-74, 92-95`); it
  is the last event.
- `TimerLosesNothing` is about recordings the timer ends. An error of the connection
  ends the program by `exit` on the network thread, and the buffered end of the
  file is lost; `ReplayIsRecorded` still holds of the rest. A file without a header
  cannot be loaded at all (`CanLoad`).
- `ReplayIsRecorded` speaks of the events *from the saver's subscription on*: in
  `stream save` the connection is made before it, so that a recording may begin
  after the whole book.
- `ComparisonAgrees`: for the asks the levels compared are the first ones; the bids
  are reversed before the first levels are taken (`benchmark_manager.cc:70-73`), so
  theirs are the deepest, where a book that was cut off differs. Levels only
  the local book has do not count at all.
- `JumpOnlyWhenQuiet` speaks of queued and handled events for every jump, but of
  the order plan thread only for the jump the units' callback makes:
  `Go` asks for the busy units and jumps after it (`benchmark_orchestrator.cc:46-47`),
  and a plan may have started in between.
- `ShutdownDrains` and `WaitMeansDrained` are about the commands whose main thread
  dispatches. In the others a dispatch may have passed the check of
  `event_hub_stopped_` before `Shutdown` (`event_hub.h:69`) and push to a queue
  whose thread has left; the event then stays queued and counted.
- `PromiseSetOnce` holds of the orders that plans make: a plan places its market
  order only after a fill. It is false of the emulator by itself: a market order
  placed before the first snapshot is answered by that snapshot's first pass and, if
  its price passes the price test of the second, once more
  (`real_market_emulator.cc:96-131`), and the `std::future_error` ends the program
  (`promise_error`; the run Emulator reaches it). `SetTwiceOnlyAtFirst` says that
  there is no other way to it. The fixture of `real_market_emulator_tests.cc:49-56`
  places such orders and expects them answered, at prices (a purchase at 120.1, a
  sale at 3123.1) that its snapshots do not reach.
- `ReportsAreHonest` likewise: of an order filled between its timeout and
  its cancel no report tells anything. A purchase among them is reported as
  `kFailedToBuy` at prices 0, which is what the run OrderPlansLateBuy shows; a limit
  sale among them is followed by the forced sale, and only that one is told.

### Why the bounds are enough

- *EventHub*: two subscribers are the least for which a dispatch, a scan and a
  shutdown can be in the middle of their loops; three events let a queue hold one,
  have one handled and one pushed. The proofs remove the bounds.
- *Emulator*: two orders, so that one may be answered while another waits;
  three prices give a spread that is crossed, met and missed on both sides.
- *RecordedStream* (run EventHubOnline): all three commands, with as many listeners as
  they have and the saver where they have it; three events, of which one is a trade, so that a
  record may be whole, cut in two, or lost behind a whole one.
- *OrderPlans*: two plans, so that one can follow or be dropped during another;
  six orders are the most two plans place; three clock values put each
  expiration before, at and after each step.
- *MarketStream*: six ids and lags up to two put the depth answer before,
  inside, at the end of and after the buffered diffs; two trades make a hole
  visible. The market is made to go on after the answer, as a market does: the
  last change is kept for then.
- *OrderBook*: sides of two levels over three prices, so that truncation happens;
  the eight updates add, change and remove levels before, at, between and after
  those of a book that is empty, partly filled or full, first of all removals of
  levels that are not there; three events with repeating times let the provider
  and the analyzer be one, two and three events apart. Comparisons of one and two
  levels with books of up to three leave levels out on both sides.
- *StrategyTest*: recordings of two and three events with one or two plans. The
  second plan may be dropped, or start earlier than the first; a plan may lie
  at a trade, with or without a book after it; the clock has values beyond both
  plans, so that it runs past events and is set back. The recordings are few
  because every interleaving of six threads is explored for each.

`CHECK_DEADLOCK FALSE` is set where the system really may stop: in the order
book's runs when the events are used up, with a snapshot possibly unanswered,
and in the replay's, where a starved analyzer stops everything.

### Fairness

- Queue threads, the plan thread, main's loops: weak fairness; a runnable thread
  is run. Steps that need `mutex_` of a queue (`PushEvent`, `PollQueue`) have strong
  fairness: its holder releases it again and again, and a waiter gets it.
- The clock: weak fairness on `Tick`; time goes on.
- The exchange: changes, diffs and the answer come; the
  forwarder's callbacks run.
- `RecordedStream` has safety properties only and no fairness.
- Nobody is obliged to dispatch, subscribe, shut down, make a plan or move the
  market, and no condition variable to wake spuriously. In `StrategyTest` the
  plan thread has no fairness at all: an order may wait as long as its time.

## 4. Proofs

### The event hub

`EventHubProofs` proves, for every `MaxSubscribers`, `MaxEvents` and
`DispatchFromMain`, from the assumption `HubConstants` (two naturals and a Boolean):

| theorem | statement | assumes further |
|---|---|---|
| `TypeCorrect` | `Spec => []TypeOK` | |
| `TransportCorrect` | `Spec => []BusyIffInFlight` | |
| `WaitCorrect` | `Spec => WaitMeansDrained` | `DispatchFromMain` |
| `ShutdownCorrect` | `Spec => []ShutdownDrains` | `DispatchFromMain` |
| `NoCallbackCorrect` | `Spec => NoCallbackAfterShutdown` | |
| `Refinement` | `Spec => Bus!Spec` | |

`DispatchFromMain` is needed: without it the two properties are false, because a
dispatch may overtake the shutdown (section 3).

*The argument.* None of the properties is inductive by itself. `IInv` adds to
`TypeOK`

- `MainInv`: how main's position, its loop index, the stop flags of the queues
  it has passed and `event_hub_stopped` go together;
- `ThreadInv`: which threads exist, what `current` and `is_processing` are at each
  place of `ThreadLoop`, and that a thread leaves only stopped and with an empty queue;
- `PositionInv`: for each subscriber, the events delivered, the one in hand and the
  queue, one after the other, are exactly the events since its subscription,
  up to the dispatch loop's position. This gives the order of deliveries, and
  that an event is in a queue once, so that
- `BusyIffInFlight`, a statement on the cardinality of the set of events in
  flight, is kept: a push adds a pair that was not in it, a count-out takes
  one that was.

`Inductive` shows `Init => IInv` and `IInv /\ [Next]_vars => IInv'`, one step
per action. For the drain, `PassedInv` says that the queues main's scan has
passed are empty and idle, which is stable because nobody else dispatches; at
the end of the scan, and after the last join, that is all of them. The
refinement takes the histories as they are, with `message_queues` as the bus's
`members`; `PositionInv` makes `HandleEvent` deliver the event the bus says is next.

### Recordings

`RecordedStreamProofs` proves, for every `MaxEvents` and all three commands, from
`RecordingConstants` (at most three subscribers; the network thread dispatches) and
`HubConstants`:

| theorem | statement |
|---|---|
| `RecordingIsHubs` | `RecordingSpec => Spec` |
| `RecordingKeepsHub`, `RecordingTransport` | what is proved of the hub holds while it records |
| `TeardownCorrect` | `RecordingSpec => []NobodyUsesDestroyed` |
| `RecordedIsTestedCorrect` | `RecordingSpec => []RecordedIsTested` |
| `RecordingTypeCorrect` | `RecordingSpec => []RecordingTypeOK` |
| `ReplayCorrect` | `RecordingSpec => []ReplayIsRecorded` |
| `TimerCorrect` | `RecordingSpec => []TimerLosesNothing` |

*The argument.* The recording only adds to the hub's steps, so its behaviours are the
hub's, and the hub's invariant and theorems are cited, not proved again. `RInv` adds

- `ProcessInv`: once the Shutdown has begun, all have subscribed and at most one more
  dispatch is accepted, whose loop is the only one left;
- `TeardownInv`: nothing is destroyed before main is done; the network thread is told to
  stop only then, is over when the forwarder is gone, and a thread that is over has left no
  dispatch loop behind. As the hub is declared before the forwarder, and a `Shutdown` that
  is done has joined every queue, this gives `NobodyUsesDestroyed`; with the declarations
  swapped (`MutantDeclared`) TLC finds the dispatch into the destroyed hub;
- `HandledAt`: a handler was called with consecutive events from its subscription on;
  `ExitedAt`: a thread that has left had called it with all events up to `settled`, those
  whose dispatch was over at the Shutdown; `FromTheFirst`: in `test-online` all subscribe
  before the first event. So the saver and the strategy differ by one event at most;
- `DiskInv`: the disk holds a beginning of the file, and all of it once closed.

The loader reads whole records whatever beginning it finds (`ReadsWholeRecords`): the
file's pieces alternate (`FileShape`), which comes from what `FlattenSeq` gives for pairs
(`FlattenPairs`). `FlattenSeq` is recursive; that its recursion has one solution is
proved by hand from the well-foundedness of the naturals (`FlattenIs`).

### The emulated exchange

`EmulatorProofs` proves, for every `MaxOrders`, `Prices`, `Books` and `OrderInfos`
within `EmulatorConstants` (prices are naturals, which is what tells a known
price from the -1 of the constructor; books are pairs of prices):

| theorem | statement |
|---|---|
| `EmulatorTypeCorrect` | `EmulatorSpec => []EmulatorTypeOK` |
| `SetTwiceOnlyAtFirstCorrect` | `EmulatorSpec => []SetTwiceOnlyAtFirst` |
| `LimitOrdersFillFirst` | `EmulatorSpec => []FilledByFirstCrossing` |
| `EmulatorIsExchange` | `EmulatorSpec => ImplementsExchange` |

*The argument.* `PlaceOrder` runs over the whole list, not only over the new
order. That it answers nothing but the new order is `NoMarketOrderWaits`
(`AnsweredAtOnce`), so this invariant is needed for the refinement. When a
snapshot fills a limit order, it is the first that reaches it because the order,
being listed, has no answer (`AnsweredIffGone`) and so no such snapshot in its
past; an order that is just placed has no past at all (`FreshIds`). For each
operation one lemma says what the step does without its lists and
intermediate sets (`PlaceOrderStep`, `CancelOrderStep`, `SnapshotStep`), and both
the invariance and the refinement rest on it. In the refinement `promise_error` is a
stutter: that only a market order which waited for the first snapshot leads to it is
`SetTwiceOnlyAtFirst`, kept by every step because no step but a snapshot sets it
(`ErrorIsMarketOrders`).

### Plans, orders and reports

`OrderPlanProofs` proves, for every `MaxPlans`, `MaxTime`, `Plans` and `Unit`
besides, from `PlanConstants` and `EmulatorConstants`:

| theorem | statement |
|---|---|
| `PlanTypeCorrect` | `Spec => []TypeOK` |
| `OneLiveOrderCorrect` | `Spec => []OneLiveOrder` |
| `OneReportCorrect` | `Spec => []OneReportPerPlan` |
| `PromiseCorrect` | `Spec => []PromiseSetOnce` |
| `ReportsAreHonestCorrect` | `Spec => []ReportsAreHonest` |
| `FlatCorrect` | `Spec => []FlatButForLateFills` |
| `ReportsAreSoundCorrect` | `Spec => [](ReportsAreSound /\ PlansFollow)` |
| `TotalReportCorrect` | `Spec => []TotalReportIsMade` |

*The argument.* `PlanInv` stands on the emulator's invariant, which the steps of the
plan thread do not touch and the three steps that call the emulator keep
(`PlaceOrderInv`, `CancelOrderInv`, `SnapshotInv`). It adds where the thread has
a plan and an order (`ThreadInv`), and `MarketInv`: once an order was filled the
market is known, so the market order of a forced sale never waits in the list,
only limit orders do, and no order passes both of a snapshot's passes. This is
why `PromiseSetOnce`, which the emulator alone violates, holds here.

The reports need more, `TradeInv`: which orders belong to the plan in process
(`PlanOrders`), and what it has traded at each stage (`StageInv`): nothing before
the purchase is answered, then one purchase `b` at the price that will be reported,
then also a sale that was given up, which was canceled or is `late`. Any order
filled is either `b`, the one waited for, or late, so what a report fails to tell is late. Orders of a reported plan are never touched
again (`SameOrders`), because the one order that may be answered or collected
belongs to the plan in process; so what was true of a report stays true, and
`NewReport` looks at the last one only. `TimeInv` adds that reports reach
at most to the time the plan in process was taken up, and `BuysAreLimits` that a
purchase is a limit order at one of `Prices`: so no report has a start before an earlier one's
and none of an executed plan lacks a price, the two things that end the program in
`GetTotalReport`. The clause `pc \in {...}` of
`FlatButForLateFills` turns out not to be needed for plans that have a report.

`TotalReportCorrect` carries this over to what `GetTotalReport` computes. A selection
has as many elements as positions that pass (`SelectAtIs`), each an element of
the sequence (`PositionsAre`); so no executed plan lacks a price, no day count has an
end before its start (`NthOrder` keeps the order of the reports), and as the four statuses, and
then gains and losses, divide the positions up, the counts add up (`SplitCount`).

### The market stream

`MarketStreamProofs` proves, for every `FirstId`, `MaxId`, `MaxTrades` and `MaxStale`
within `StreamConstants` (a depth answer does not lag behind the first id):

| theorem | statement |
|---|---|
| `StreamTypeCorrect` | `Spec => []TypeOK` |
| `GapFreeCorrect` | `Spec => []GapFree` |
| `NothingHeldBackCorrect` | `Spec => []NothingHeldBack` |
| `TradesContiguousCorrect` | `Spec => []TradesContiguous` |

*The argument.* `StreamInv` follows the updates from the exchange to the listener. What
the connection holds is in order up to the last id sent (`WireInv`); the buffer is in
order up to where the connection goes on, `Delivered` (`BufferInv`); and once the stream
has started, so are the events (`NothingHeldBack`). A diff that is taken therefore goes
on where the buffer, or the last event, ended (`DiffTaken`). The seam is
`UpdatesProcessed`, shared by the two callbacks that look for the first update: what they
find covers the id after the book's and ends where the buffer did (`UpdatesFound`), and
till then the book is the only event but for trades (`BookAlone`). Nothing depends on how
old the depth answer is: too old an answer stops the stream, it does not put a hole in it.

### The local order book

`OrderBookProofs` proves, for every `MaxEvents`, `MaxLevels`, `Prices`, `Quantities`,
`Updates` and `FirstUpdates`, from `ProviderConstants`:

| theorem | statement |
|---|---|
| `MergeCorrect` | what `UpdateOrderBookItems` gives for any book and update in order |
| `OrderedAlways` | `Spec => []BookIsOrdered` |
| `ToldAlways` | `Spec => []BookIsTold` |
| `FreshAlways` | `Spec => []SnapshotIsFresh` |
| `ProviderTypeCorrect` | `Spec => []TypeOK` |
| `ToldFollows` | `Spec => [](IInv /\ ToldInv)` |
| `ComparisonCorrect` | `Spec => []ComparisonAgrees` |

The last one assumes `ComparisonConstants` too: at least one level is compared.
`ProviderConstants` asks that each side of an update lists every price once, in the
side's order. The code relies on it: `PrepareItems`, which would sort and drop what is
repeated, is commented out (`order_book_snapshot_provider.cc:57-58`), and an update out of order
fails the assertion after the merge.

*The argument.* `Merged` says what the merge has to give: a side in order, with each
level of the update but empty ones, each old level whose price the update does not
list, and no other. The merge walks along both lists. As positions that lie before a
price are closed downward, they are as many as their last position says
(`Initial`, `Cut`); so the n-th turn takes the old levels between two prices of the
update (`Between`), and what the first n turns have made is in order, has what it
should and ends at or before the n-th price (`Made`, `TurnMakes`). The turns are put
together with the solution of `FlattenSeq`'s recursion. `Tell`, a table of levels, is
what the result is compared with (`UpdateIsTold`); cutting a side off keeps it in
order and told, and only then may a level be missing (`ResizeIs`). For snapshots
`ThreadsInv` says that the book's time is that of an event the provider has handled;
as times do not decrease (`StreamInv`), an older update is not after that event
(`FreshHoldsAll`). `SnapshotIsFresh` says nothing of updates with the same time as the event:
of those the strategy's book may miss some.

*The comparison.* `ToldInv` says that what the provider was told is what the events it has
handled tell, so a provider that is not behind was told the exchange's levels. Both
copies that are walked have increasing prices (`ServerClimbs` with `NthOrder`,
`LocalClimbs`, each price once). The walk's index is never reset, and need not be:
where it stops, the local items before are exactly those below the price (`StopSplits`,
`WalkSplits` by induction over the turns), so the item of the price, if there is one, is there
(`KnownIs`), and a turn adds the product and the squares for this price (`WalkAdds`).
The sums are the totals over the levels compared, which for the bids are the
walked ones backwards (`EitherWay`, `TotalReverse`). If the quantities are the same, so
are the three sums, whatever they are, and none is zero (`WalkIsFull`): the cosine is 1 without
an argument about squares.

### The replay

`StrategyTestProofs` proves, for every `MaxTime`, and any set of recordings that
`RecordingConstants` allows (times that do not decrease), with and without jumps:

| theorem | statement |
|---|---|
| `StrategyTypeCorrect` | `Spec => []TypeOK` |
| `NeverBeforeItsTimeCorrect` | `Spec => []NeverBeforeItsTime` |
| `ReportMissesOnlyTheLastCorrect` | `Spec => []ReportMissesOnlyTheLast` |
| `JumpOnlyWhenQuietCorrect` | `Spec => JumpOnlyWhenQuiet` |

*The argument.* `CountInv`: the shared counter is the number of queued events over the four queues,
and the transport bit its sign. `StageInv`: an event stays at the head of its queue
until its thread has handled it, and as threads only push while they handle an event,
nothing can come in between main's look at the units and its jump. With both, no busy unit means no event
anywhere, which is the first half of `JumpOnlyWhenQuiet`; the other half is
`PlanInv`: the order plan manager's bit is set exactly while a plan is processed. (Not
while one is handed over and not taken up: there the clock does jump, section 3.)
`ClockInv`: every queued event and every plan handed over is no later than the last
event main let through, and that is no later than the clock.

### Only model-checked

- Liveness: fairness and ENABLED are beyond the prover.
- `StatisticsAreSound`: averages and medians over short sequences of small numbers;
  medians take a sorted copy, and that sorting keeps the elements is induction over data.

All safety properties of the passing runs are proved. Recursive functions are reasoned about
with two lemmas of `SelectionProofs`: `Recursion` (a function with given steps
exists, so the chosen one satisfies its equations) and `Upward` (induction over `0..n` for
a set of numbers), both from `Least`, that a set of naturals has a least element.

## 5. Not modelled

- The member order of `MessageQueueThread` (its thread starts before `mutex_` and
  `cv_` are constructed), unlocked reads of the mock clock, the data race of a
  subscription with a dispatch, the forwarder's members destroyed before its client
  has joined the network thread, the plan thread using a destroyed manager:
  undefined behaviour without an outcome to check. They are among the hazards.
- The binapi library (a submodule that is not in the repository) but for what the
  forwarder sees of it; its error callbacks end the program.
- Parsing of arguments, formatting, logging, printing; the archive's format.
- `orderbook test` as a command: an endless loop around parts that are modelled.
- The durations of reports in a replay that jumps: they are real time, not the
  clock's, and no property relates the two.

## 6. Plan

The runs stay few, one for each question, so a later module takes over or joins a
run where it asks the same question of more of the system (`RecordedStream` took
over `EventHubOnline`, `BenchmarkManager` joined `OrderBook`).

1. Done: `EventBus`, `EventHub` and its proofs; `Exchange`,
   `RealMarketEmulator` and its proofs;
   `BenchmarkDataCollector`, `OrderPlanManager` and its proofs; `MarketStreamForwarder` and
   its proofs;
   `OrderBookSnapshotProvider` and `BenchmarkManager`; `StrategyTest`, with the
   start times of reports; `RecordedStream`, with the shutdown and the teardown of
   `stream save` and `strategy test-online`.
2. `MockTimeProvider` on its own: several waiters, jumps and notifications, an
   abstract clock it implements; `StrategyTest` then stands on the abstract one.
3. Theorems: for the replay, that an abstract clock is implemented.
