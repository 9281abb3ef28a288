---------------------- MODULE OrderBookSnapshotProvider ----------------------
(***************************************************************************)
(* analyzer::OrderBookSnapshotProvider, the local order book, between the  *)
(* market stream and its reader.  The hub gives every market event to two  *)
(* threads, each at its own pace: the provider's, which merges order book  *)
(* updates into order_book_ under mutex_, and the analyzer's, which runs   *)
(* the strategy (DummyTradingStrategy), whose handler of an event may call *)
(* GetSnapshot with the event's timestamp and block on cv_.                *)
(***************************************************************************)
EXTENDS Integers, Sequences, FiniteSets, SequencesExt, FiniteSetsExt

CONSTANTS
  MaxEvents,     \* bound: how many market events there are
  MaxLevels,     \* gMaxOrderBookLevelsHandleCount (6000 in the code)
  Prices,        \* the prices of levels
  Quantities,    \* the quantities of levels, 0: no level
  Updates,       \* the order book updates that occur: [bids, asks]
  FirstUpdates   \* those that may come first: whole books, or any update
                 \* if the provider subscribed after the stream had begun

Sides == {"bids", "asks"}
Level == [price : Prices, quantity : Quantities]

\* Bids are listed from the highest price down, asks from the lowest up.
Precedes(side, p, q) == IF side = "asks" THEN p < q ELSE p > q

Ordered(side, items) ==
  \A k \in DOMAIN items : \A j \in 1..(k - 1) : Precedes(side, items[j].price, items[k].price)

\* The merge relies on updates that list each price once and in order: it
\* asserts the order of what comes out, and PrepareItems, which would sort an
\* update and drop what it repeats, is commented out.
ASSUME ProviderConstants ==
  /\ MaxEvents \in Nat /\ MaxLevels \in Nat
  /\ Prices \subseteq Nat
  /\ Quantities \subseteq Nat /\ 0 \in Quantities
  /\ FirstUpdates \subseteq Updates
  /\ Updates \subseteq [Sides -> Seq(Level)]
  /\ \A update \in Updates : \A side \in Sides : Ordered(side, update[side])

VARIABLES
  stream,        \* history: the market events dispatched
  stream_ended,  \* no event will be dispatched any more: main is in Shutdown
  handled,       \* how many events the provider's thread has handled
  order_book,    \* order_book_: received_timestamp, bids and asks
  unit_busy,     \* the kOrderBookSnapshotProvider bit
  told,          \* history: the last quantity the updates gave each level
  truncated,     \* history: a level was cut off
  new_snapshots, \* how many kNewSnapshotAvailable events were dispatched
  read,          \* how many events the analyzer's thread has taken
  asking,        \* its strategy is inside GetSnapshot
  snapshots      \* history: what GetSnapshot returned: the event, the updates it holds

stream_vars == <<stream, stream_ended>>
provider_vars == <<handled, order_book, unit_busy, told, truncated, new_snapshots>>
analyzer_vars == <<read, asking, snapshots>>
vars == <<stream_vars, provider_vars, analyzer_vars>>

EmptySide == [price \in Prices |-> 0]

Init ==
  /\ stream = <<>>
  /\ stream_ended = FALSE
  /\ handled = 0
  /\ order_book = [received_timestamp |-> 0, bids |-> <<>>, asks |-> <<>>]
  /\ unit_busy = FALSE
  /\ told = [side \in Sides |-> EmptySide]
  /\ truncated = FALSE
  /\ new_snapshots = 0
  /\ read = 0
  /\ asking = FALSE
  /\ snapshots = <<>>

-----------------------------------------------------------------------------
(* Merging an update into one side of the book.                            *)

\* Mutant: the level an update replaces stays in the book.
MutantUpTo(side, old_items, price) ==
  Cardinality({k \in DOMAIN old_items : Precedes(side, old_items[k].price, price)})

\* How many of the old levels, which are in order, lie before a price, and how
\* many lie before it or at it.
Before(side, old_items, price) ==
  Cardinality({k \in DOMAIN old_items : Precedes(side, old_items[k].price, price)})
UpTo(side, old_items, price) ==
  Cardinality({k \in DOMAIN old_items : ~Precedes(side, price, old_items[k].price)})

\* The old levels passed when the update's first n have been merged.
Passed(side, old_items, update, n) ==
  IF n = 0 THEN 0 ELSE UpTo(side, old_items, update[n].price)

\* What the n-th level of an update gives the new book: the old levels not yet
\* passed that lie before it, and itself.  An empty level is left out, but not
\* when the old levels have come to their end.
MergeItem(side, old_items, update, n) ==
  LET before == Before(side, old_items, update[n].price)
  IN  SubSeq(old_items, Passed(side, old_items, update, n - 1) + 1, before) \o
      (IF update[n].quantity = 0 /\ before < Len(old_items) THEN <<>> ELSE <<update[n]>>)

\* Mutant: the old levels after the update's last one are lost.
MutantUpdateOrderBookItems(side, old_items, update) ==
  FlattenSeq([n \in DOMAIN update |-> MergeItem(side, old_items, update, n)])

UpdateOrderBookItems(side, old_items, update) ==
  FlattenSeq([n \in DOMAIN update |-> MergeItem(side, old_items, update, n)]) \o
  SubSeq(old_items, Passed(side, old_items, update, Len(update)) + 1, Len(old_items))

Resize(items) == IF Len(items) <= MaxLevels THEN items ELSE SubSeq(items, 1, MaxLevels)

\* What the updates have said of a side's levels, the reference for the merge.
Tell(levels, update) ==
  [price \in Prices |->
     IF \E k \in DOMAIN update : update[k].price = price
     THEN (CHOOSE item \in ToSet(update) : item.price = price).quantity
     ELSE levels[price]]

-----------------------------------------------------------------------------
(* The hub's dispatcher: events are stamped with times that never decrease *)
(* and may repeat, a clock of milliseconds being coarse.                   *)

NoUpdate == <<>>     \* what a trade updates
UpdatesBefore(n) == {k \in 1..n : stream[k].update # NoUpdate}

LastTimestamp == IF stream = <<>> THEN 1 ELSE Last(stream).received_timestamp

Dispatch(event) ==
  /\ ~stream_ended
  /\ Len(stream) < MaxEvents
  /\ \E step \in {0, 1} :
       stream' = Append(stream, [update |-> event, received_timestamp |-> LastTimestamp + step])
  /\ UNCHANGED <<stream_ended, provider_vars, analyzer_vars>>

DispatchTrade == Dispatch(NoUpdate)
DispatchUpdate ==
  \/ \E update \in FirstUpdates : UpdatesBefore(Len(stream)) = {} /\ Dispatch(<<update>>)
  \/ \E update \in Updates : UpdatesBefore(Len(stream)) # {} /\ Dispatch(<<update>>)

EndStream ==
  /\ ~stream_ended
  /\ stream_ended' = TRUE
  /\ UNCHANGED <<stream, provider_vars, analyzer_vars>>

-----------------------------------------------------------------------------
(* OnMarketStreamEvent, on the provider's thread.                          *)

NextEvent == stream[handled + 1]
HasNext == handled < Len(stream)

SkipTrade ==
  /\ HasNext /\ NextEvent.update = NoUpdate
  /\ handled' = handled + 1
  /\ UNCHANGED <<stream_vars, order_book, unit_busy, told, truncated, new_snapshots, analyzer_vars>>

SetBusy ==
  /\ HasNext /\ NextEvent.update # NoUpdate /\ ~unit_busy
  /\ unit_busy' = TRUE
  /\ UNCHANGED <<stream_vars, handled, order_book, told, truncated, new_snapshots, analyzer_vars>>

\* Mutant: the unit is not set ready again.
MutantOnOrderBookUpdateEvent ==
  /\ unit_busy
  /\ \E update \in ToSet(NextEvent.update) :
       \E bids \in {UpdateOrderBookItems("bids", order_book.bids, update.bids)},
          asks \in {UpdateOrderBookItems("asks", order_book.asks, update.asks)} :
         /\ order_book' = [received_timestamp |-> NextEvent.received_timestamp,
                           bids |-> Resize(bids), asks |-> Resize(asks)]
         /\ told' = [told EXCEPT !["bids"] = Tell(@, update.bids), !["asks"] = Tell(@, update.asks)]
         /\ truncated' = (truncated \/ Len(bids) > MaxLevels \/ Len(asks) > MaxLevels)
  /\ handled' = handled + 1
  /\ new_snapshots' = new_snapshots + 1
  /\ UNCHANGED <<stream_vars, unit_busy, analyzer_vars>>

\* OnOrderBookUpdateEvent under mutex_, waking GetSnapshot and dispatching the
\* new book to the order book stream, and SetReady after it.
OnOrderBookUpdateEvent ==
  /\ unit_busy
  /\ \E update \in ToSet(NextEvent.update) :
       \E bids \in {UpdateOrderBookItems("bids", order_book.bids, update.bids)},
          asks \in {UpdateOrderBookItems("asks", order_book.asks, update.asks)} :
         /\ order_book' = [received_timestamp |-> NextEvent.received_timestamp,
                           bids |-> Resize(bids), asks |-> Resize(asks)]
         /\ told' = [told EXCEPT !["bids"] = Tell(@, update.bids), !["asks"] = Tell(@, update.asks)]
         /\ truncated' = (truncated \/ Len(bids) > MaxLevels \/ Len(asks) > MaxLevels)
  /\ handled' = handled + 1
  /\ unit_busy' = FALSE
  /\ new_snapshots' = new_snapshots + 1
  /\ UNCHANGED <<stream_vars, analyzer_vars>>

-----------------------------------------------------------------------------
(* The analyzer's thread.                                                  *)

\* The strategy leaves an event alone, or asks for the book as of its time.
TakeEvent ==
  /\ ~asking
  /\ read < Len(stream)
  /\ read' = read + 1
  /\ asking' \in BOOLEAN
  /\ UNCHANGED <<stream_vars, provider_vars, snapshots>>

\* Mutant: the wait is for any book.
MutantIsFresh(last_update_ts) == order_book.received_timestamp > 0

\* Mutant: the book must be newer than the event.
MutantIsNewer(last_update_ts) == last_update_ts < order_book.received_timestamp

\* The predicate GetSnapshot waits for.
IsFresh(last_update_ts) == last_update_ts <= order_book.received_timestamp

\* GetSnapshot returns; the wait has no other way out.
GetSnapshot ==
  /\ asking
  /\ IsFresh(stream[read].received_timestamp)
  /\ asking' = FALSE
  /\ snapshots' = Append(snapshots, [event |-> read, holds |-> handled])
  /\ UNCHANGED <<stream_vars, provider_vars, read>>

Provider == SkipTrade \/ SetBusy \/ OnOrderBookUpdateEvent
Analyzer == TakeEvent \/ GetSnapshot

Next == DispatchTrade \/ DispatchUpdate \/ EndStream \/ Provider \/ Analyzer

Spec == Init /\ [][Next]_vars
FairSpec == Spec /\ WF_vars(Provider) /\ WF_vars(Analyzer)

-----------------------------------------------------------------------------
(* Properties.                                                             *)

Items(side) == IF side = "bids" THEN order_book.bids ELSE order_book.asks

\* The book's shape: the assertion CheckItemsOrder makes of both sides after
\* every update, and the bound on their length (order_book_snapshot_provider.cc:60-68).
BookIsOrdered ==
  \A side \in Sides :
    /\ Len(Items(side)) <= MaxLevels
    /\ \A k \in 2..Len(Items(side)) : Precedes(side, Items(side)[k - 1].price, Items(side)[k].price)

\* Every level of the book has the quantity the stream last gave it, and
\* until a level has been cut off none is missing: the merge of any sequence
\* of updates is what applying them one by one to a table of levels gives
\* (order_book_snapshot_provider.cc:103-140).
BookIsTold ==
  \A side \in Sides :
    /\ \A k \in DOMAIN Items(side) : Items(side)[k].quantity = told[side][Items(side)[k].price]
    /\ ~truncated => \A price \in Prices :
         told[side][price] # 0 => \E k \in DOMAIN Items(side) : Items(side)[k].price = price

\* A snapshot asked for at an event holds every update with an earlier
\* timestamp the strategy was given before it: a plan is never made on a
\* book older than its event by the clock (order_book_snapshot_provider.cc:27-34,
\* dummy_trading_strategy.cc:25-33).
SnapshotIsFresh ==
  \A k \in DOMAIN snapshots :
    \A n \in UpdatesBefore(snapshots[k].event) :
      stream[n].received_timestamp < stream[snapshots[k].event].received_timestamp =>
        n <= snapshots[k].holds

\* An answer that was waited for is given, unless no update comes at or after
\* the time asked for: cv_ has no other way out, so the last trades of a
\* recording leave the analyzer's thread blocked for ever
\* (order_book_snapshot_provider.cc:30-32).
NothingNewer ==
  /\ stream_ended
  /\ \A n \in UpdatesBefore(Len(stream)) :
       stream[n].received_timestamp < stream[read].received_timestamp
SnapshotOrEndOfStream == (asking /\ stream_ended) ~> (~asking \/ NothingNewer)

\* fake_market_stream_forwarder.h:30-37: a level whose quantity became 0 is
\* not in the book (final_order_book_, made by Initialize).
NoEmptyLevel == \A side \in Sides : \A k \in DOMAIN Items(side) : Items(side)[k].quantity # 0

\* The types of the variables; the unit is busy only with an update, and each
\* update handled has been passed on to the order book stream once.
TypeOK ==
  /\ handled \in 0..Len(stream) /\ read \in 0..Len(stream)
  /\ stream_ended \in BOOLEAN /\ truncated \in BOOLEAN /\ asking \in BOOLEAN
  /\ unit_busy \in BOOLEAN /\ (unit_busy => HasNext /\ NextEvent.update # NoUpdate)
  /\ order_book.received_timestamp \in 0..(MaxEvents + 1)
  /\ \A side \in Sides : ToSet(Items(side)) \subseteq Level
  /\ told \in [Sides -> [Prices -> Quantities]]
  /\ new_snapshots = Cardinality(UpdatesBefore(handled))

=============================================================================
