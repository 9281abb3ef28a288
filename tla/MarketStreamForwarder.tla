------------------------ MODULE MarketStreamForwarder ------------------------
(***************************************************************************)
(* market_stream::MarketStreamForwarder with its OrderBookStreamForwarder  *)
(* and TradeStreamForwarder, against the exchange they are fed by.  All    *)
(* callbacks run on the one thread of BinAPIClient's io_context, so each   *)
(* is one step.  The exchange is external: it numbers the changes of its   *)
(* order book, streams them over one ordered connection as diffs [U, u]    *)
(* (the ids a diff covers) mixed with trades, and answers a depth request  *)
(* with the whole book as of some id, at any time while diffs go on        *)
(* arriving.                                                               *)
(***************************************************************************)
EXTENDS Integers, Sequences, SequencesExt

CONSTANTS
  FirstId,       \* the book's last update id when the connection is made
  MaxId,         \* bound: the last update id of the exchange
  MaxTrades,     \* bound: how many trades happen
  MaxStale       \* how many ids a depth answer may lag behind the book

ASSUME StreamConstants ==
  /\ FirstId \in Nat /\ MaxId \in Nat /\ FirstId + 1 < MaxId
  /\ MaxTrades \in Nat
  /\ MaxStale \in 0..FirstId

VARIABLES
  server_id,                 \* exchange: last update id of its book
  sent_id,                   \* exchange: last update id sent as a diff
  trades,                    \* exchange: how many trades it has sent
  wire,                      \* what the connection has still to deliver
  rest,                      \* the depth request: its state and answer
  init_stage,                \* init_stage_
  depth_updates_buffer,      \* depth_updates_buffer_
  depth_last_update_id,      \* depth_last_update_id_
  previous_last_update_id,   \* previous_last_update_id_
  order_book_stream_started, \* MarketStreamForwarder::order_book_stream_started_
  forwarded                  \* history: the events dispatched to the hub

server_vars == <<server_id, sent_id, trades>>
client_vars == <<init_stage, depth_updates_buffer, depth_last_update_id, previous_last_update_id,
                 order_book_stream_started, forwarded>>
vars == <<server_vars, wire, rest, client_vars>>

NoAnswer == 0
Diff(first, last) == [kind |-> "diff", U |-> first, u |-> last]
BookAsOf(id) == [kind |-> "book", U |-> 1, u |-> id]
Trade(n) == [kind |-> "trade", U |-> n, u |-> n]

Init ==
  /\ server_id = FirstId
  /\ sent_id = FirstId
  /\ trades = 0
  /\ wire = <<>>
  /\ rest = [state |-> "none", id |-> NoAnswer]
  /\ init_stage = "WAIT_FOR_FIRST_BUFFER_UPDATE"
  /\ depth_updates_buffer = <<>>
  /\ depth_last_update_id = 0
  /\ previous_last_update_id = 0
  /\ order_book_stream_started = FALSE
  /\ forwarded = <<>>

-----------------------------------------------------------------------------
(* The exchange.                                                           *)

\* A real market always goes on after the depth answer: the bound keeps its
\* last change for then.
ChangeBook ==
  /\ server_id < MaxId
  /\ server_id + 1 = MaxId => init_stage \in {"SEARCH_FOR_FIRST_REAL_UPDATE", "STREAM_STARTED"}
  /\ server_id' = server_id + 1
  /\ UNCHANGED <<sent_id, trades, wire, rest, client_vars>>

\* The changes since the last diff go out as one.
SendDiff ==
  /\ sent_id < server_id
  /\ wire' = Append(wire, Diff(sent_id + 1, server_id))
  /\ sent_id' = server_id
  /\ UNCHANGED <<server_id, trades, rest, client_vars>>

SendTrade ==
  /\ trades < MaxTrades
  /\ trades' = trades + 1
  /\ wire' = Append(wire, Trade(trades'))
  /\ UNCHANGED <<server_id, sent_id, rest, client_vars>>

\* The answer is the book as of now, or as of MaxStale ids ago at most.
AnswerDepthRequest ==
  /\ rest.state = "requested"
  /\ \E lag \in 0..MaxStale : rest' = [state |-> "answered", id |-> server_id - lag]
  /\ UNCHANGED <<server_vars, wire, client_vars>>

-----------------------------------------------------------------------------
(* MarketStreamForwarder's callbacks.                                      *)

\* Mutant: the flag says whether the last run of calls had an event.
MutantOnOrderBookUpdate(updates) ==
  /\ forwarded' = forwarded \o updates
  /\ order_book_stream_started' = (updates # <<>>)

\* OnOrderBookUpdate, for a run of calls: stamped, dispatched, and from the
\* first one on trades are let through.
OnOrderBookUpdate(updates) ==
  /\ forwarded' = forwarded \o updates
  /\ order_book_stream_started' = (order_book_stream_started \/ updates # <<>>)

\* A trade that comes before the book is dropped.
OnTradeReceived ==
  /\ wire # <<>> /\ Head(wire).kind = "trade"
  /\ wire' = Tail(wire)
  /\ forwarded' = IF order_book_stream_started THEN Append(forwarded, Head(wire)) ELSE forwarded
  /\ UNCHANGED <<server_vars, rest, init_stage, depth_updates_buffer, depth_last_update_id,
                 previous_last_update_id, order_book_stream_started>>

-----------------------------------------------------------------------------
(* OrderBookStreamForwarder.                                               *)

\* Mutant: off by one, an update that starts right after the book is not taken.
MutantCovers(update, last_update_id) == update.U <= last_update_id /\ last_update_id + 1 <= update.u

Covers(update, last_update_id) == update.U <= last_update_id + 1 /\ last_update_id + 1 <= update.u

\* Mutant: the updates that follow the one found are left out.
MutantRealUpdates(buffer, last_update_id) ==
  LET found == {k \in DOMAIN buffer : Covers(buffer[k], last_update_id)}
  IN  IF found = {} THEN <<>> ELSE <<buffer[CHOOSE k \in found : \A j \in found : k <= j]>>

\* SearchFirstRealUpdate: the buffer's first update that covers the id after
\* the book's, and all that follow it; none if there is no such update.
RealUpdates(buffer, last_update_id) ==
  LET found == {k \in DOMAIN buffer : Covers(buffer[k], last_update_id)}
  IN  IF found = {} THEN <<>>
      ELSE LET first == CHOOSE k \in found : \A j \in found : k <= j
           IN  SubSeq(buffer, first, Len(buffer))

\* ProcessBufferedUpdates, after the events of before were forwarded.
ProcessBufferedUpdates(before, buffer, last_update_id) ==
  LET updates == RealUpdates(buffer, last_update_id)
  IN  /\ OnOrderBookUpdate(before \o updates)
      /\ IF updates = <<>>
         THEN /\ init_stage' = "SEARCH_FOR_FIRST_REAL_UPDATE"
              /\ depth_updates_buffer' = buffer
              /\ UNCHANGED previous_last_update_id
         ELSE /\ init_stage' = "STREAM_STARTED"
              /\ depth_updates_buffer' = <<>>
              /\ previous_last_update_id' = Last(updates).u

\* OnBinAPIDepthUpdate, by the stage it finds.
NextDiff == wire # <<>> /\ Head(wire).kind = "diff" /\ wire' = Tail(wire)

FirstUpdate ==
  /\ init_stage = "WAIT_FOR_FIRST_BUFFER_UPDATE"
  /\ NextDiff
  /\ depth_updates_buffer' = Append(depth_updates_buffer, Head(wire))
  /\ rest' = [state |-> "requested", id |-> NoAnswer]
  /\ init_stage' = "DEPTH_SNAPSHOT_REQUESTED"
  /\ UNCHANGED <<server_vars, depth_last_update_id, previous_last_update_id,
                 order_book_stream_started, forwarded>>

\* Mutant: updates that come while the depth answer is awaited are not kept.
MutantBufferUpdate ==
  /\ init_stage = "DEPTH_SNAPSHOT_REQUESTED"
  /\ NextDiff
  /\ UNCHANGED <<server_vars, rest, init_stage, depth_last_update_id, previous_last_update_id,
                 depth_updates_buffer, order_book_stream_started, forwarded>>

BufferUpdate ==
  /\ init_stage = "DEPTH_SNAPSHOT_REQUESTED"
  /\ NextDiff
  /\ depth_updates_buffer' = Append(depth_updates_buffer, Head(wire))
  /\ UNCHANGED <<server_vars, rest, init_stage, depth_last_update_id, previous_last_update_id,
                 order_book_stream_started, forwarded>>

SearchUpdate ==
  /\ init_stage = "SEARCH_FOR_FIRST_REAL_UPDATE"
  /\ NextDiff
  /\ ProcessBufferedUpdates(<<>>, Append(depth_updates_buffer, Head(wire)), depth_last_update_id)
  /\ UNCHANGED <<server_vars, rest, depth_last_update_id>>

\* Mutant: the id the next update must start at is kept instead of the last one.
MutantForwardUpdate ==
  /\ init_stage = "STREAM_STARTED"
  /\ NextDiff
  /\ previous_last_update_id' = Head(wire).u + 1
  /\ OnOrderBookUpdate(<<Head(wire)>>)
  /\ UNCHANGED <<server_vars, rest, init_stage, depth_updates_buffer, depth_last_update_id>>

\* The assertion that U continues previous_last_update_id_ is compiled out of
\* a release build; the update is forwarded either way.
ForwardUpdate ==
  /\ init_stage = "STREAM_STARTED"
  /\ NextDiff
  /\ previous_last_update_id' = Head(wire).u
  /\ OnOrderBookUpdate(<<Head(wire)>>)
  /\ UNCHANGED <<server_vars, rest, init_stage, depth_updates_buffer, depth_last_update_id>>

OnBinAPIDepthRecieve ==
  /\ rest.state = "answered"
  /\ rest' = [rest EXCEPT !.state = "none"]
  /\ depth_last_update_id' = rest.id
  /\ ProcessBufferedUpdates(<<BookAsOf(rest.id)>>, depth_updates_buffer, rest.id)
  /\ UNCHANGED <<server_vars, wire>>

Client ==
  \/ OnTradeReceived \/ FirstUpdate \/ BufferUpdate \/ SearchUpdate \/ ForwardUpdate
  \/ OnBinAPIDepthRecieve

\* Everything the exchange had to say has been said and heard.
Quiet ==
  /\ server_id = MaxId /\ sent_id = MaxId /\ trades = MaxTrades
  /\ wire = <<>> /\ rest.state # "answered"
  /\ UNCHANGED vars

Next ==
  \/ ChangeBook
  \/ SendDiff
  \/ SendTrade
  \/ AnswerDepthRequest
  \/ Client
  \/ Quiet

\* The market goes on, the connection delivers and the request is answered.
Fairness ==
  /\ WF_vars(ChangeBook) /\ WF_vars(SendDiff) /\ WF_vars(AnswerDepthRequest)
  /\ WF_vars(Client)

Spec == Init /\ [][Next]_vars
FairSpec == Spec /\ Fairness

-----------------------------------------------------------------------------
(* Properties.                                                             *)

Messages == [kind : {"diff", "book", "trade"}, U : 0..(MaxId + MaxTrades), u : 0..(MaxId + MaxTrades)]

\* The types of the exchange's and the forwarder's variables.
TypeOK ==
  /\ server_id \in FirstId..MaxId
  /\ sent_id \in FirstId..server_id
  /\ trades \in 0..MaxTrades
  /\ wire \in Seq(Messages)
  /\ rest \in [state : {"none", "requested", "answered"}, id : 0..MaxId]
  /\ init_stage \in {"WAIT_FOR_FIRST_BUFFER_UPDATE", "DEPTH_SNAPSHOT_REQUESTED",
                     "SEARCH_FOR_FIRST_REAL_UPDATE", "STREAM_STARTED"}
  /\ depth_updates_buffer \in Seq(Messages)
  /\ depth_last_update_id \in 0..server_id
  /\ previous_last_update_id \in 0..server_id
  /\ order_book_stream_started \in BOOLEAN
  /\ forwarded \in Seq(Messages)

Places(s, kind) == {k \in DOMAIN s : s[k].kind = kind}

\* The messages of a kind in s continue one another.
Chained(s, kind) ==
  \A j, k \in Places(s, kind) :
    j < k /\ (\A i \in Places(s, kind) : i <= j \/ k <= i) => s[k].U = s[j].u + 1

\* The last message of a kind in s, if there is one, ends at id.
EndsAt(s, kind, id) ==
  \A k \in Places(s, kind) : (\A i \in Places(s, kind) : i <= k) => s[k].u = id

\* With s still to be delivered, the id of the last message of a kind that was
\* delivered, when the last one sent has id last.
Delivered(s, kind, last) ==
  LET waiting == Places(s, kind)
  IN  IF waiting = {} THEN last
      ELSE s[CHOOSE k \in waiting : \A j \in waiting : k <= j].U - 1

\* What a listener applies is one whole book and then diffs that continue it
\* without a hole: whatever the interleaving of the depth answer with the
\* diffs, a listener's book is the exchange's as of the last id it was given
\* (order_book_stream_forwarder.cc:26-91).
GapFree ==
  LET books == Places(forwarded, "book")
      diffs == Places(forwarded, "diff")
  IN  /\ \A b, c \in books : b = c
      /\ \A d \in diffs : \E b \in books : b < d
      /\ Chained(forwarded, "diff")
      /\ \A b \in books, d \in diffs :
           (\A e \in diffs : d <= e) => Covers(forwarded[d], forwarded[b].u)

\* Once the stream has started a listener's book is as new as the last diff
\* received: none is held back (order_book_stream_forwarder.cc:46-51, 77-91).
NothingHeldBack ==
  init_stage = "STREAM_STARTED" =>
    /\ depth_updates_buffer = <<>>
    /\ Places(forwarded, "diff") # {}
    /\ EndsAt(forwarded, "diff", Delivered(wire, "diff", sent_id))
    /\ previous_last_update_id = Delivered(wire, "diff", sent_id)

\* Trades come on a known book and without a hole: none reaches a listener
\* before the book, and once that is out none is dropped, whatever the stage of
\* the order book: those a listener has are the latest ones received
\* (market_stream_forwarder.cc:33-47).
TradesContiguous ==
  /\ forwarded # <<>> => forwarded[1].kind = "book"
  /\ Chained(forwarded, "trade")
  /\ EndsAt(forwarded, "trade", Delivered(wire, "trade", trades))

\* order_book_stream_forwarder_test.cc:98-99: once the depth request is made
\* the stream gets started.
StreamStarts == init_stage = "DEPTH_SNAPSHOT_REQUESTED" ~> init_stage = "STREAM_STARTED"

\* The one way it does not: the answer is older than all that was buffered, and
\* since no second request is made, no later update covers it.
AnswerTooOld ==
  /\ init_stage = "SEARCH_FOR_FIRST_REAL_UPDATE"
  /\ Head(depth_updates_buffer).U > depth_last_update_id + 1

\* However the answer and the updates interleave, once the depth request is
\* made the stream gets started, unless its answer is too old for the buffer
\* (order_book_stream_forwarder.cc:53-91).
StreamStartsUnlessStale ==
  init_stage = "DEPTH_SNAPSHOT_REQUESTED" ~> (init_stage = "STREAM_STARTED" \/ AnswerTooOld)

=============================================================================
