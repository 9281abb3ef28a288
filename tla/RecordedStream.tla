---------------------------- MODULE RecordedStream ----------------------------
(***************************************************************************)
(* A market stream on its way into a recording and back, on the real hub:  *)
(* in `stream save` and in `strategy test-online` main subscribes a        *)
(* MarketStreamSaver and other listeners (the stream's printer; the        *)
(* strategy's book provider and analyzer) while or before the network      *)
(* thread dispatches, sleeps, shuts the hub down and returns.  That        *)
(* destroys its objects, the last declared first: the listeners, among     *)
(* them the saver, whose destructor closes the file; the forwarder, whose  *)
(* client unsubscribes and joins the network thread; the hub.  An error of *)
(* the connection calls exit from the network thread instead: no           *)
(* destructor of main's objects runs, and what the saver's file stream has *)
(* in its buffer is lost.  Then a SavedMarketStreamForwarder loads what is *)
(* on the disk.                                                            *)
(***************************************************************************)
EXTENDS EventHub, SequencesExt

CONSTANTS
  Commands,    \* which of the three commands, told apart below, occur
  Trades       \* which events are trades, the others are order books

ASSUME RecordingConstants ==
  /\ MaxSubscribers = 3 /\ ~DispatchFromMain
  /\ Commands \subseteq {"stream save", "stream save, printed", "strategy test-online"}
  /\ Trades \subseteq 1..MaxEvents

VARIABLES
  command,         \* which command runs
  network_thread,  \* monitor_thread_: none, runs, stopping, ended, exited
  alive,           \* how many of main's objects are not yet destroyed
  on_disk,         \* how many pieces of the file are safe when it is over
  settled          \* history: how many dispatches were over at the Shutdown

process_vars == <<command, network_thread, alive>>
recording_vars == <<process_vars, on_disk, settled>>
all_vars == <<vars, recording_vars>>

Saving == command # "strategy test-online"

\* `stream save` subscribes the saver and then the printer, if there is one;
\* test-online the book provider, the analyzer and the saver.
Listeners == IF ~Saving THEN 3 ELSE IF command = "stream save" THEN 1 ELSE 2
Saver == IF Saving THEN 1 ELSE 3

\* Mutant: the forwarder is declared before the hub.
MutantDeclared == [event_hub |-> 2, forwarder |-> 1]

\* The order of Run's declarations: the hub, the forwarder, and then the
\* listeners as they subscribe.
Declared == [event_hub |-> 1, forwarder |-> 2]
Listener(i) == 2 + i

RecordingInit ==
  /\ Init
  /\ command \in Commands
  /\ network_thread = "none"
  /\ alive = Listener(Listeners)
  /\ on_disk = 0
  /\ settled = 0

-----------------------------------------------------------------------------
(* The file: the archive's header, and for each event its type and itself. *)

Header == [piece |-> "header"]
TypeOf(event) == [piece |-> IF event \in Trades THEN "TRADE" ELSE "ORDER_BOOK"]
Data(event) == [piece |-> "data", event |-> event]
Cut == [piece |-> "cut"]

\* OnMarketStreamEvent: two pieces for each event handled.
Record(event) == <<TypeOf(event), Data(event)>>

\* The header is written by the saver's constructor.
File ==
  IF message_queues < Saver THEN <<>>
  ELSE <<Header>> \o FlattenSeq([k \in DOMAIN delivered[Saver] |-> Record(delivered[Saver][k])])

Disk(k) == IF k <= on_disk THEN File[k] ELSE Cut

-----------------------------------------------------------------------------
(* The process that records.                                               *)

AllSubscribed == message_queues = Listeners
NetworkRuns == network_thread \in {"runs", "stopping"}
Returned == alive = 0
Over == Returned \/ network_thread = "exited"

\* Initialize connects and starts the network thread: in test-online when all
\* have subscribed, in `stream save` before.
Initialize ==
  /\ main_pc = "run"
  /\ network_thread = "none"
  /\ IF Saving THEN message_queues = 0 ELSE AllSubscribed
  /\ network_thread' = "runs"
  /\ UNCHANGED <<vars, command, alive, on_disk, settled>>

\* What of the hub goes on.
HubStep ==
  /\ network_thread # "exited"
  /\ \/ NetworkRuns /\ DispatchEvent
     \/ Subscribe /\ ~AllSubscribed /\ (Saving => network_thread # "none")
     \/ Stopping
     \/ \E i \in Subscribers : PushEvent(i) \/ ThreadLoop(i) \/ WakeSpuriously(i)
  /\ UNCHANGED recording_vars

TimerEnds ==
  /\ network_thread = "runs"
  /\ AllSubscribed
  /\ Shutdown
  /\ settled' = IF push_to = 0 THEN dispatched ELSE dispatched - 1
  /\ UNCHANGED <<process_vars, on_disk>>

\* The connection breaks, or the depth request fails, and the network thread,
\* between two callbacks, exits.  Of an open file the disk has as much as the
\* buffer, full now and then, has let go, wherever that ends.
ExitOnError ==
  /\ NetworkRuns
  /\ push_to = 0
  /\ network_thread' = "exited"
  /\ on_disk' \in on_disk..Len(File)
  /\ UNCHANGED <<vars, command, alive, settled>>

-----------------------------------------------------------------------------
(* Run returns: main destroys its objects, the last declared first.        *)

\* The object declared at the place is the next to go.
Leaving(place) == main_pc = "done" /\ network_thread # "exited" /\ alive = place

DestroyListener(i) ==
  /\ i # Saver
  /\ Leaving(Listener(i))
  /\ alive' = alive - 1
  /\ UNCHANGED <<vars, command, network_thread, on_disk, settled>>

\* Mutant: what the file stream buffers is not flushed.
MutantCloseFile ==
  /\ Leaving(Listener(Saver))
  /\ alive' = alive - 1
  /\ \E n \in 0..Len(File) : on_disk' = n
  /\ UNCHANGED <<vars, command, network_thread, settled>>

\* The saver's destructor flushes the file and closes it.
CloseFile ==
  /\ Leaving(Listener(Saver))
  /\ alive' = alive - 1
  /\ on_disk' = Len(File)
  /\ UNCHANGED <<vars, command, network_thread, settled>>

\* The forwarder's client: async_unsubscribe_all leaves the network thread no
\* more to wait for ...
Unsubscribe ==
  /\ Leaving(Declared.forwarder)
  /\ network_thread = "runs"
  /\ network_thread' = "stopping"
  /\ UNCHANGED <<vars, command, alive, on_disk, settled>>

\* ... so that io_context_.run() returns, after the callback it is in ...
NetworkEnds ==
  /\ network_thread = "stopping"
  /\ push_to = 0
  /\ network_thread' = "ended"
  /\ UNCHANGED <<vars, command, alive, on_disk, settled>>

\* ... and the join with it.
JoinNetwork ==
  /\ Leaving(Declared.forwarder)
  /\ network_thread = "ended"
  /\ alive' = alive - 1
  /\ UNCHANGED <<vars, command, network_thread, on_disk, settled>>

\* ~EventHub: its Shutdown finds every queue joined; the queues are freed.
DestroyHub ==
  /\ Leaving(Declared.event_hub)
  /\ alive' = alive - 1
  /\ UNCHANGED <<vars, command, network_thread, on_disk, settled>>

Return ==
  \/ \E i \in Subscribers : DestroyListener(i)
  \/ CloseFile
  \/ Unsubscribe \/ NetworkEnds \/ JoinNetwork
  \/ DestroyHub

RecordingNext ==
  \/ Initialize
  \/ HubStep
  \/ TimerEnds
  \/ ExitOnError
  \/ Return
  \/ Over /\ UNCHANGED all_vars

RecordingSpec == RecordingInit /\ [][RecordingNext]_all_vars

-----------------------------------------------------------------------------
(* SavedMarketStreamForwarder, in `stream load` or `strategy test`, alone  *)
(* with the file.                                                          *)

\* Initialize: a missing file ends the program, and so does one without a
\* header, as the archive's constructor throws and nobody catches.
CanLoad == on_disk > 0

\* Mutant: the error of a record's second half is overlooked.
MutantReadNext(k) == IF Disk(2 * k) # Cut THEN <<Disk(2 * k + 1)>> ELSE <<>>

\* ReadNext, for the k-th time: what forward_next_func_ holds then, nothing if
\* there is no whole record, be it for the end of the file or an error in it.
\* An archive is read without a check of what kind of data comes next, and a
\* type other than the two exits: neither happens to a file the saver wrote,
\* whose cut leaves whole pieces in their order and nothing after them.
ReadNext(k) ==
  IF Disk(2 * k) # Cut /\ Disk(2 * k + 1) # Cut THEN <<Disk(2 * k + 1)>> ELSE <<>>

\* What ForwardNext has forwarded by the time ReadNext returns false.
Loaded ==
  LET ends == {k \in 1..(dispatched + 1) : ReadNext(k) = <<>>}
      first_end == CHOOSE k \in ends : \A j \in ends : k <= j
  IN  FlattenSeq([k \in 1..(first_end - 1) |-> ReadNext(k)])

-----------------------------------------------------------------------------
(* Properties.                                                             *)

\* The types of the recording's variables and the hub's.
RecordingTypeOK ==
  /\ TypeOK
  /\ command \in Commands
  /\ network_thread \in {"none", "runs", "stopping", "ended", "exited"}
  /\ alive \in 0..Listener(Listeners)
  /\ on_disk \in 0..Len(File)
  /\ settled \in 0..dispatched

\* Whatever ended the recording, and however little of the file had left the
\* buffer, a replay gives its listeners events the hub accepted, from the
\* saver's subscription on, in order and without a hole: a record cut in two
\* ends the replay and is not forwarded (saved_market_stream_forwarder.cc:44-77,
\* market_stream_saver.cc:32-43).
ReplayIsRecorded ==
  Over /\ CanLoad =>
    Loaded = [k \in 1..Len(Loaded) |-> Data(subscribed_at[Saver] + k)]

\* A recording ended by the timer is replayed with every event whose dispatch
\* was over by then; at most one more, dispatched meanwhile, is in it
\* (command_stream_save_handler.cc:72-77, market_stream_saver.cc:25-28).
TimerLosesNothing ==
  network_thread # "exited" /\ alive < Listener(Saver) =>
    CanLoad /\ subscribed_at[Saver] + Len(Loaded) \in settled..(settled + 1)

\* README.md:38: test-online outputs the "recorded market stream on which
\* strategy was tested".  The recording and what the strategy's listeners were
\* given are the same but for a last event whose dispatch the shutdown
\* overtook: one may have it and another not (event_hub.h:63-74, 92-95).
RecordedIsTested ==
  ~Saving /\ main_pc = "done" =>
    \A i \in Subscribers :
      LET tested == delivered[i]
          recorded == delivered[Saver]
      IN  /\ IsPrefix(tested, recorded) \/ IsPrefix(recorded, tested)
          /\ {Len(tested), Len(recorded)} \subseteq settled..(settled + 1)

\* No thread is left that could use what main has destroyed.  A listener is
\* used by its queue's thread, whose Shutdown comes first; the hub, to which
\* a dispatcher has a plain reference, by the queues' threads and by the
\* network thread, which Shutdown does not wait for: it may be halfway
\* through the queues.  That it is gone when the hub goes is due to the order
\* in which Run declares the two (command_strategy_test_online_handler.cc:77
\* before 84, command_stream_save_handler.cc:56 before 58) and to the join in
\* the forwarder's client (binapi_client.cc:121-130).
NobodyUsesDestroyed ==
  /\ \A i \in 1..Listeners : alive < Listener(i) => pc[i] = "exited"
  /\ alive < Declared.event_hub =>
       /\ ~NetworkRuns /\ push_to = 0
       /\ \A i \in 1..Listeners : pc[i] = "exited"
=============================================================================
