------------------------- MODULE RecordedStreamProofs -------------------------
(***************************************************************************)
(* What is proved of a recording and its replay, for any number of events. *)
(* A step of the recording is a step of the hub, so that everything proved *)
(* of EventHub holds here; on top of it come where the process is relative *)
(* to main's Shutdown (ProcessInv), in which order the network thread and  *)
(* main's objects end (TeardownInv), what an exited thread is sure to have *)
(* handled (ExitedAt), and that what a handler was called with is          *)
(* consecutive (HandledAt).  The file and its replay follow piece by piece. *)
(***************************************************************************)
EXTENDS RecordedStream, EventHubProofs, WellFoundedInduction

\* Where main is, and what the events' counter can still become: the dispatch
\* loop that the shutdown has overtaken is the last one.
ProcessInv ==
  /\ main_pc # "poll"
  /\ main_pc = "run" => ~event_hub_stopped /\ settled = 0
  /\ main_pc # "run" => /\ event_hub_stopped
                        /\ AllSubscribed
                        /\ settled \in Nat
                        /\ dispatched \in settled..(settled + 1)
                        /\ push_to # 0 => dispatched = settled + 1
  /\ command \in Commands

\* How far main's objects are destroyed, and the network thread with them: it
\* is told to stop when main has shut the hub down and has come to the
\* forwarder, it is over when the forwarder is gone, and a thread that is over
\* has left no dispatch loop behind.
TeardownInv ==
  /\ alive \in 0..Listener(Listeners)
  /\ network_thread \in {"none", "runs", "stopping", "ended", "exited"}
  /\ alive # Listener(Listeners) => main_pc = "done"
  /\ network_thread \in {"stopping", "ended"} => main_pc = "done"
  /\ alive < Declared.forwarder => network_thread = "ended"
  /\ network_thread \in {"ended", "exited"} => push_to = 0

\* A thread that has returned left no event of a dispatch that was over.
ExitedAt(i) == pc[i] = "exited" => subscribed_at[i] + Len(delivered[i]) >= settled

\* A handler is called with one event after the other.
HandledAt(i) ==
  \A k \in 1..Len(delivered[i]) : delivered[i][k] = subscribed_at[i] + k

\* test-online connects when all have subscribed.
FromTheFirst ==
  ~Saving =>
    /\ network_thread = "none" => dispatched = 0
    /\ network_thread # "none" => AllSubscribed
    /\ \A i \in Subscribers : subscribed_at[i] = 0

\* The file grows until the saver is destroyed.
DiskInv ==
  /\ on_disk \in 0..Len(File)
  /\ network_thread # "exited" /\ Listener(Saver) <= alive => on_disk = 0
  /\ network_thread # "exited" /\ alive < Listener(Saver) => on_disk = Len(File)

\* The inductive invariant, of the hub's side of a recording and with the disk.
HandledInv ==
  /\ IInv /\ PassedInv
  /\ ProcessInv /\ TeardownInv
  /\ \A i \in Subscribers : ExitedAt(i) /\ HandledAt(i)
  /\ FromTheFirst

RInv == HandledInv /\ DiskInv

-----------------------------------------------------------------------------
(* The recording's steps are the hub's.                                    *)

\* Connecting, exiting and destroying change nothing of the hub.
LEMMA ProcessSteps ==
  ASSUME Initialize \/ ExitOnError \/ Return \/ UNCHANGED all_vars
  PROVE  UNCHANGED <<vars, command, settled>>
<1>1. CASE Initialize \/ ExitOnError
  BY <1>1 DEF Initialize, ExitOnError
<1>2. CASE Return
  BY <1>2 DEF Return, DestroyListener, CloseFile, Unsubscribe, NetworkEnds, JoinNetwork, DestroyHub
<1>3. CASE UNCHANGED all_vars
  BY <1>3 DEF all_vars, recording_vars, process_vars
<1> QED BY <1>1, <1>2, <1>3

\* The timer's step is main's Shutdown, and what becomes of the file and of
\* the process changes nothing of the hub.
LEMMA StepIsHubs == RecordingNext => [Next]_vars
<1> SUFFICES ASSUME RecordingNext PROVE [Next]_vars
  OBVIOUS
<1>1. CASE HubStep
  BY <1>1 DEF HubStep, Next
<1>2. CASE TimerEnds
  BY <1>2 DEF TimerEnds, Next
<1>3. CASE Initialize \/ ExitOnError \/ Return \/ UNCHANGED all_vars
  BY <1>3, ProcessSteps
<1> QED BY <1>1, <1>2, <1>3 DEF RecordingNext

\* A recording is a behaviour of the hub.
THEOREM RecordingIsHubs == RecordingSpec => Spec
<1>1. RecordingInit => Init
  BY DEF RecordingInit
<1>2. [RecordingNext]_all_vars => [Next]_vars
  BY StepIsHubs DEF all_vars
<1> QED BY <1>1, <1>2, PTL DEF RecordingSpec, Spec

\* What is proved of the hub holds while it carries a recording: the unit
\* state (event_hub.cc:14-32), no callback after Shutdown
\* (event_hub.h:142-144), one order of events for all.
THEOREM RecordingKeepsHub ==
  RecordingSpec => [](IInv /\ PassedInv) /\ NoCallbackAfterShutdown /\ ImplementsBus
BY RecordingIsHubs, PassedAlways, NoCallbackCorrect, Refinement, PTL

\* The unit state's counter is right while a stream is recorded.
THEOREM RecordingTransport == RecordingSpec => []BusyIffInFlight
BY RecordingIsHubs, TransportCorrect, PTL

-----------------------------------------------------------------------------
(* The process.                                                            *)

\* Which listener is the saver, and how many there are.
LEMMA TheListeners ==
  /\ Subscribers = 1..3 /\ MaxSubscribers = 3
  /\ Listeners \in 1..3 /\ Saver \in 1..Listeners
  /\ ~Saving => Listeners = 3
  /\ Declared.event_hub = 1 /\ Declared.forwarder = 2
<1>1. Subscribers = 1..3 /\ MaxSubscribers = 3
  BY RecordingConstants DEF RecordingConstants, Subscribers
<1>2. Declared.event_hub = 1 /\ Declared.forwarder = 2
  BY DEF Declared
<1>3. CASE Saving
  BY <1>1, <1>2, <1>3 DEF Listeners, Saver
<1>4. CASE ~Saving
  BY <1>1, <1>2, <1>4 DEF Listeners, Saver
<1> QED BY <1>3, <1>4

\* Nobody has shut anything down at first.
LEMMA ProcessInit == RecordingInit => ProcessInv /\ TeardownInv
BY TheListeners DEF RecordingInit, Init, ProcessInv, TeardownInv, Listener

\* Main leaves "run" by the timer's Shutdown only, and the queues it shuts
\* down are all there; after it no event is accepted.
LEMMA ProcessHubStep == ASSUME IInv, ProcessInv, HubStep PROVE ProcessInv'
<1>1. TypeOK /\ MainInv
  BY DEF IInv
<1>2. UNCHANGED <<command, settled>>
  BY DEF HubStep, recording_vars, process_vars
<1>3. dispatched \in Nat /\ push_to \in Nat /\ message_queues \in Nat
  BY <1>1, HubConstants DEF TypeOK, HubConstants
<1>4. CASE DispatchEvent
  <2>1. main_pc = "run" /\ main_pc' = main_pc /\ event_hub_stopped' = event_hub_stopped
    BY <1>4 DEF DispatchEvent, ProcessInv, main_vars
  <2> QED BY <1>2, <2>1 DEF ProcessInv
<1>5. CASE Subscribe
  <2>1. main_pc = "run" /\ main_pc' = main_pc /\ event_hub_stopped' = event_hub_stopped
    BY <1>5 DEF Subscribe, MainMayStart
  <2> QED BY <1>2, <2>1 DEF ProcessInv
<1>6. CASE Stopping
  <2>1. /\ main_pc \in {"stop", "notify", "join"}
        /\ main_pc' \in {"stop", "notify", "join", "done"}
        /\ UNCHANGED <<dispatched, push_to, message_queues, event_hub_stopped>>
    BY <1>6 DEF Stopping, StopSetFlag, StopNotify, StopJoin, ShutdownReturns
  <2> QED BY <1>2, <2>1 DEF ProcessInv, AllSubscribed, Listeners, Saving
<1>7. ASSUME NEW i \in Subscribers, PushEvent(i) PROVE ProcessInv'
  <2>1. /\ push_to = i /\ push_to # 0
        /\ UNCHANGED <<dispatched, message_queues, event_hub_stopped, main_pc>>
    BY <1>7 DEF PushEvent, Subscribers, main_vars
  <2> QED BY <1>2, <2>1 DEF ProcessInv, AllSubscribed, Listeners, Saving
<1>8. ASSUME NEW i \in Subscribers, ThreadLoop(i) \/ WakeSpuriously(i) PROVE ProcessInv'
  <2>1. UNCHANGED <<dispatched, push_to, message_queues, event_hub_stopped, main_pc>>
    BY <1>8 DEF ThreadLoop, PopEvent, ExitLoop, FindNothing, Block, HandleEvent, CountOut,
                WakeSpuriously, main_vars
  <2> QED BY <1>2, <2>1 DEF ProcessInv, AllSubscribed, Listeners, Saving
<1> QED BY <1>4, <1>5, <1>6, <1>7, <1>8 DEF HubStep

\* Every step of the recording keeps the process and main in step.
LEMMA ProcessNext == ASSUME IInv, ProcessInv, [RecordingNext]_all_vars PROVE ProcessInv'
<1>1. TypeOK /\ MainInv
  BY DEF IInv
<1>2. CASE HubStep
  BY <1>2, ProcessHubStep
<1>3. CASE TimerEnds
  <2>1. /\ AllSubscribed
        /\ main_pc' = "stop" /\ event_hub_stopped'
        /\ UNCHANGED <<dispatched, push_to, message_queues, command>>
        /\ settled' = IF push_to = 0 THEN dispatched ELSE dispatched - 1
    BY <1>3 DEF TimerEnds, Shutdown, process_vars
  <2>2. dispatched \in Nat /\ (push_to # 0 => dispatched > 0)
    BY <1>1, HubConstants DEF TypeOK, MainInv, HubConstants
  <2>3. settled' \in Nat /\ dispatched \in settled'..(settled' + 1) /\ (push_to # 0 => dispatched = settled' + 1)
    BY <2>1, <2>2
  <2> QED BY <2>1, <2>3 DEF ProcessInv, AllSubscribed, Listeners, Saving
<1>4. CASE Initialize \/ ExitOnError \/ Return \/ UNCHANGED all_vars
  <2>1. UNCHANGED <<vars, command, settled>>
    BY <1>4, ProcessSteps
  <2> QED BY <2>1 DEF ProcessInv, AllSubscribed, Listeners, Saving, vars, main_vars
<1> QED BY <1>2, <1>3, <1>4 DEF RecordingNext

\* Shutdown, once it has returned, stays so.
LEMMA DoneStays == ASSUME main_pc = "done", [RecordingNext]_all_vars PROVE main_pc' = "done"
<1>1. CASE Initialize \/ ExitOnError \/ Return \/ UNCHANGED all_vars
  BY <1>1, ProcessSteps DEF vars, main_vars
<1>2. CASE HubStep
  <2>1. ~Subscribe /\ ~Stopping
    BY DEF Subscribe, MainMayStart, Stopping, StopSetFlag, StopNotify, StopJoin, ShutdownReturns
  <2> QED BY <1>2, <2>1 DEF HubStep, DispatchEvent, PushEvent, ThreadLoop, PopEvent, ExitLoop, FindNothing,
                            Block, HandleEvent, CountOut, WakeSpuriously, main_vars
<1>3. ~TimerEnds
  BY DEF TimerEnds, Shutdown, MainMayStart
<1> QED BY <1>1, <1>2, <1>3 DEF RecordingNext

\* A thread that is over dispatches nothing, and nobody else does.
LEMMA NoNewDispatch ==
  ASSUME push_to = 0, ~NetworkRuns, [RecordingNext]_all_vars
  PROVE  push_to' = 0
<1>1. CASE Initialize \/ ExitOnError \/ Return \/ UNCHANGED all_vars
  BY <1>1, ProcessSteps DEF vars
<1>2. CASE HubStep
  <2>1. ASSUME NEW i \in Subscribers PROVE ~PushEvent(i)
    BY HubConstants DEF PushEvent, Subscribers, HubConstants
  <2> QED BY <1>2, <2>1 DEF HubStep, Subscribe, Stopping, StopSetFlag, StopNotify, StopJoin, ShutdownReturns,
                            ThreadLoop, PopEvent, ExitLoop, FindNothing, Block, HandleEvent, CountOut,
                            WakeSpuriously
<1>3. CASE TimerEnds
  BY <1>3 DEF TimerEnds, Shutdown
<1> QED BY <1>1, <1>2, <1>3 DEF RecordingNext

\* The objects go in their order, and the forwarder only with the thread.
LEMMA TeardownNext == ASSUME TeardownInv, [RecordingNext]_all_vars PROVE TeardownInv'
<1>1. Listeners \in 1..3 /\ Saver \in 1..Listeners /\ Declared.event_hub = 1 /\ Declared.forwarder = 2
  BY TheListeners
<1>2. alive \in Nat /\ Declared' = Declared
  BY <1>1 DEF TeardownInv, Listener, Declared
<1>3. Listeners' = Listeners
  <2>1. command' = command
    BY ProcessSteps DEF RecordingNext, HubStep, TimerEnds, recording_vars, process_vars
  <2> QED BY <2>1 DEF Listeners, Saving
<1>4. main_pc = "done" => main_pc' = "done"
  BY DoneStays
<1>5. push_to = 0 /\ ~NetworkRuns => push_to' = 0
  BY NoNewDispatch
<1>6. CASE UNCHANGED <<alive, network_thread>>
  BY <1>2, <1>3, <1>4, <1>5, <1>6 DEF TeardownInv, NetworkRuns, Listener
<1>7. CASE Initialize
  <2>1. /\ network_thread = "none" /\ network_thread' = "runs" /\ alive' = alive
    BY <1>7 DEF Initialize
  <2> QED BY <1>2, <1>3, <1>4, <2>1 DEF TeardownInv, Listener
<1>8. CASE ExitOnError
  <2>1. /\ NetworkRuns /\ push_to' = 0 /\ network_thread' = "exited" /\ alive' = alive
    BY <1>8 DEF ExitOnError, vars
  <2> QED BY <1>2, <1>3, <1>4, <2>1 DEF TeardownInv, NetworkRuns, Listener
<1>9. ASSUME NEW i \in Subscribers, DestroyListener(i) PROVE TeardownInv'
  <2>1. alive = 2 + i /\ alive' = alive - 1 /\ main_pc = "done" /\ UNCHANGED <<network_thread, push_to>>
    BY <1>9 DEF DestroyListener, Leaving, Listener, vars
  <2>2. i \in 1..3
    BY TheListeners
  <2> QED BY <1>1, <1>2, <1>3, <1>4, <2>1, <2>2 DEF TeardownInv, Listener
<1>10. CASE CloseFile
  <2>1. alive = 2 + Saver /\ alive' = alive - 1 /\ main_pc = "done" /\ UNCHANGED <<network_thread, push_to>>
    BY <1>10 DEF CloseFile, Leaving, Listener, vars
  <2> QED BY <1>1, <1>2, <1>3, <1>4, <2>1 DEF TeardownInv, Listener
<1>11. CASE Unsubscribe \/ NetworkEnds
  <2>1. /\ alive' = alive /\ network_thread' \in {"stopping", "ended"} /\ main_pc = "done"
        /\ network_thread \in {"runs", "stopping"}
        /\ network_thread' = "ended" => push_to' = 0
    BY <1>11 DEF Unsubscribe, NetworkEnds, Leaving, TeardownInv, vars
  <2> QED BY <1>2, <1>3, <1>4, <2>1 DEF TeardownInv, Listener
<1>12. CASE JoinNetwork
  <2>1. /\ alive = 2 /\ alive' = 1 /\ network_thread = "ended" /\ main_pc = "done"
        /\ UNCHANGED <<network_thread, push_to>>
    BY <1>1, <1>12 DEF JoinNetwork, Leaving, vars
  <2> QED BY <1>1, <1>2, <1>3, <1>4, <2>1 DEF TeardownInv, Listener
<1>13. CASE DestroyHub
  <2>1. /\ alive = 1 /\ alive' = 0 /\ main_pc = "done" /\ UNCHANGED <<network_thread, push_to>>
    BY <1>1, <1>13 DEF DestroyHub, Leaving, vars
  <2> QED BY <1>1, <1>2, <1>3, <1>4, <2>1 DEF TeardownInv, Listener
<1>14. CASE HubStep \/ TimerEnds \/ UNCHANGED all_vars
  BY <1>6, <1>14 DEF HubStep, TimerEnds, all_vars, recording_vars, process_vars
<1> QED BY <1>7, <1>8, <1>9, <1>10, <1>11, <1>12, <1>13, <1>14 DEF RecordingNext, Return

\* The process and main are always in step.
THEOREM ProcessAlways == RecordingSpec => [](IInv /\ PassedInv /\ ProcessInv /\ TeardownInv)
<1>1. RecordingInit => ProcessInv /\ TeardownInv
  BY ProcessInit
<1>2. IInv /\ ProcessInv /\ TeardownInv /\ [RecordingNext]_all_vars => ProcessInv' /\ TeardownInv'
  BY ProcessNext, TeardownNext
<1> QED BY <1>1, <1>2, RecordingKeepsHub, PTL DEF RecordingSpec

\* When main destroys an object no thread is left that could use it: the
\* listeners' queues are joined by Shutdown, and the network thread by the
\* forwarder's client before the hub goes (event_hub.h:138-146,
\* command_strategy_test_online_handler.cc:77-85, binapi_client.cc:121-130).
THEOREM TeardownCorrect == RecordingSpec => []NobodyUsesDestroyed
<1>1. IInv /\ PassedInv /\ ProcessInv /\ TeardownInv => NobodyUsesDestroyed
  <2> SUFFICES ASSUME IInv, PassedInv, ProcessInv, TeardownInv PROVE NobodyUsesDestroyed
    OBVIOUS
  <2>1. /\ Subscribers = 1..3 /\ Listeners \in 1..3
        /\ Declared.event_hub = 1 /\ Declared.forwarder = 2
    BY TheListeners
  <2>2. alive \in Nat
    BY <2>1 DEF TeardownInv, Listener
  <2>3. ASSUME main_pc = "done", NEW i \in 1..Listeners PROVE pc[i] = "exited"
    <3>1. message_queues = Listeners /\ i \in Subscribers
      BY <2>1, <2>3 DEF ProcessInv, AllSubscribed
    <3>2. PassedAt(i) /\ i <= message_queues
      BY <3>1, <2>1 DEF PassedInv
    <3> QED BY <2>3, <3>2 DEF PassedAt
  <2>4. ASSUME NEW i \in 1..Listeners, alive < Listener(i) PROVE pc[i] = "exited"
    <3>1. alive # Listener(Listeners)
      BY <2>1, <2>2, <2>4 DEF Listener
    <3> QED BY <2>3, <3>1 DEF TeardownInv
  <2>5. ASSUME alive < Declared.event_hub
        PROVE  ~NetworkRuns /\ push_to = 0 /\ \A i \in 1..Listeners : pc[i] = "exited"
    <3>1. network_thread = "ended"
      BY <2>1, <2>2, <2>5 DEF TeardownInv
    <3> QED BY <2>3, <3>1 DEF TeardownInv, NetworkRuns
  <2> QED BY <2>4, <2>5 DEF NobodyUsesDestroyed
<1> QED BY <1>1, ProcessAlways, PTL

-----------------------------------------------------------------------------
(* What the handlers were called with.                                     *)

\* A step of the hub adds one event to what a handler was called with, or
\* leaves it and its start alone, or is the subscription itself.
LEMMA HandlerStep ==
  ASSUME NEW i \in Subscribers, IInv, [Next]_vars
  PROVE  \/ HandleEvent(i) /\ subscribed_at'[i] = subscribed_at[i]
         \/ /\ delivered'[i] = delivered[i] /\ subscribed_at'[i] = subscribed_at[i]
            /\ pc'[i] = "exited" => pc[i] = "exited" \/ ExitLoop(i)
         \/ Subscribe /\ delivered'[i] = <<>> /\ pc'[i] = "check" /\ subscribed_at'[i] = dispatched
<1>1. TypeOK /\ ThreadInv
  BY DEF IInv
<1> USE <1>1 DEF TypeOK
<1>2. CASE DispatchEvent \/ UNCHANGED vars
  BY <1>2 DEF DispatchEvent, thread_vars, main_vars, vars
<1>3. CASE Subscribe
  <2>1. CASE i = message_queues + 1
    <3>1. pc[i] = "absent" /\ delivered[i] = <<>>
      BY <2>1 DEF ThreadInv, ThreadAt
    <3> QED BY <1>3, <2>1, <3>1 DEF Subscribe
  <2>2. CASE i # message_queues + 1
    BY <1>3, <2>2 DEF Subscribe
  <2> QED BY <2>1, <2>2
<1>4. CASE MainStep
  BY <1>4 DEF MainStep, StartWaiting, PollQueue, StopWaiting, Shutdown, StopSetFlag, StopNotify, StopJoin,
              ShutdownReturns, Finished, Notify, thread_vars, main_vars, vars
<1>5. ASSUME NEW j \in Subscribers, PushEvent(j)
      PROVE  UNCHANGED <<delivered, subscribed_at>> /\ (pc'[i] = "exited" => pc[i] = "exited")
  BY <1>5 DEF PushEvent, Notify, main_vars
<1>6. ASSUME NEW j \in Subscribers, ThreadLoop(j) \/ WakeSpuriously(j)
      PROVE  \/ HandleEvent(i) /\ subscribed_at' = subscribed_at
             \/ /\ delivered'[i] = delivered[i] /\ subscribed_at' = subscribed_at
                /\ pc'[i] = "exited" => pc[i] = "exited" \/ ExitLoop(i)
  <2>1. CASE HandleEvent(j)
    BY <1>6, <2>1 DEF HandleEvent, main_vars
  <2>2. CASE ExitLoop(j)
    BY <1>6, <2>2 DEF ExitLoop, main_vars
  <2>3. CASE PopEvent(j) \/ FindNothing(j) \/ Block(j) \/ CountOut(j) \/ WakeSpuriously(j)
    BY <1>6, <2>3 DEF PopEvent, FindNothing, Block, CountOut, WakeSpuriously, main_vars
  <2> QED BY <1>6, <2>1, <2>2, <2>3 DEF ThreadLoop
<1> QED BY <1>2, <1>3, <1>4, <1>5, <1>6 DEF Next, MainStep, Waiting, Stopping

\* One more event, and it is the next one.
LEMMA HandledOneMore ==
  ASSUME NEW i \in Subscribers, IInv, HandleEvent(i)
  PROVE  /\ delivered'[i] = Append(delivered[i], current[i])
         /\ delivered[i] \in Seq(1..MaxEvents) /\ current[i] \in 1..MaxEvents
         /\ current[i] = subscribed_at[i] + Len(delivered[i]) + 1
         /\ pc'[i] = "handled"
<1>1. TypeOK /\ ThreadInv /\ PositionInv
  BY DEF IInv
<1>2. pc[i] = "handling" /\ i <= message_queues
  BY <1>1 DEF HandleEvent, ThreadInv, ThreadAt
<1>3. PositionAt(i)
  BY <1>1, <1>2 DEF PositionInv
<1>4. current[i] = subscribed_at[i] + Len(delivered[i]) + 1 /\ current[i] > 0
  BY <1>2, <1>3 DEF PositionAt, Popped
<1> QED BY <1>1, <1>4 DEF TypeOK, HandleEvent

\* What a handler was called with stays consecutive (event_hub.h:163-177).
LEMMA HandledNext ==
  ASSUME NEW i \in Subscribers, IInv, HandledAt(i), [Next]_vars
  PROVE  HandledAt(i)'
<1>1. CASE HandleEvent(i) /\ subscribed_at'[i] = subscribed_at[i]
  <2>1. /\ delivered'[i] = Append(delivered[i], current[i])
        /\ delivered[i] \in Seq(1..MaxEvents) /\ current[i] \in 1..MaxEvents
        /\ current[i] = subscribed_at[i] + Len(delivered[i]) + 1
    BY <1>1, HandledOneMore
  <2>2. /\ Len(delivered'[i]) = Len(delivered[i]) + 1 /\ Len(delivered[i]) \in Nat
        /\ \A k \in 1..Len(delivered[i]) : delivered'[i][k] = delivered[i][k]
        /\ delivered'[i][Len(delivered[i]) + 1] = current[i]
    BY <2>1, AppendProperties, LenProperties
  <2>3. subscribed_at[i] \in Int
    BY DEF IInv, TypeOK
  <2> SUFFICES ASSUME NEW k \in 1..Len(delivered'[i]) PROVE delivered'[i][k] = subscribed_at[i] + k
    BY <1>1 DEF HandledAt
  <2>4. CASE k = Len(delivered[i]) + 1
    BY <2>1, <2>2, <2>3, <2>4
  <2>5. CASE k # Len(delivered[i]) + 1
    BY <2>2, <2>5 DEF HandledAt
  <2> QED BY <2>4, <2>5
<1>2. CASE delivered'[i] = delivered[i] /\ subscribed_at'[i] = subscribed_at[i]
  BY <1>2 DEF HandledAt
<1>3. CASE delivered'[i] = <<>>
  BY <1>3 DEF HandledAt
<1> QED BY <1>1, <1>2, <1>3, HandlerStep

\* A thread returns with an empty queue, so that it has handled all that was
\* pushed: every event, or every event but the one being dispatched.
LEMMA ExitLoopHasAll ==
  ASSUME NEW i \in Subscribers, IInv, PassedInv, ProcessInv, ExitLoop(i)
  PROVE  subscribed_at[i] + Len(delivered[i]) >= settled
<1>1. TypeOK /\ ThreadInv /\ PositionInv
  BY DEF IInv
<1>2. pc[i] = "check" /\ events_queue[i] = <<>> /\ is_stopped[i]
  BY DEF ExitLoop, HasWork
<1>3. i <= message_queues /\ PositionAt(i)
  BY <1>1, <1>2 DEF ThreadInv, ThreadAt, PositionInv
<1>4. main_pc # "run"
  BY <1>2 DEF PassedInv, PassedAt
<1>5. subscribed_at[i] + Len(delivered[i]) = Pushed(i)
  <2>1. Popped(i) = subscribed_at[i] + Len(delivered[i]) + 0 /\ Popped(i) + 0 = Pushed(i)
    BY <1>2, <1>3 DEF Popped, PositionAt
  <2>2. subscribed_at[i] \in Nat /\ Len(delivered[i]) \in Nat
    BY <1>1 DEF TypeOK
  <2> QED BY <2>1, <2>2
<1>6. Pushed(i) >= settled
  BY <1>4 DEF Pushed, ProcessInv
<1> QED BY <1>5, <1>6

\* It stays so: an exited thread handles nothing more, and before main has
\* shut the hub down no thread has exited.
LEMMA ExitedNext ==
  ASSUME NEW i \in Subscribers, IInv, PassedInv, ProcessInv, ExitedAt(i), [RecordingNext]_all_vars
  PROVE  ExitedAt(i)'
<1>1. CASE TimerEnds
  <2>1. main_pc = "run" /\ pc' = pc
    BY <1>1 DEF TimerEnds, Shutdown, MainMayStart, thread_vars
  <2>2. pc[i] # "exited"
    BY <2>1 DEF PassedInv, PassedAt
  <2> QED BY <2>1, <2>2 DEF ExitedAt
<1>2. CASE ~TimerEnds
  <2>1. settled' = settled /\ [Next]_vars
    BY <1>2, StepIsHubs, ProcessSteps DEF all_vars, RecordingNext, HubStep, recording_vars
  <2>2. CASE HandleEvent(i)
    BY <2>2, HandledOneMore DEF ExitedAt
  <2>3. CASE delivered'[i] = delivered[i] /\ subscribed_at'[i] = subscribed_at[i] /\ pc[i] = "exited"
    BY <2>1, <2>3 DEF ExitedAt
  <2>4. CASE delivered'[i] = delivered[i] /\ subscribed_at'[i] = subscribed_at[i] /\ ExitLoop(i)
    BY <2>1, <2>4, ExitLoopHasAll DEF ExitedAt
  <2>5. CASE pc'[i] = "check"
    BY <2>5 DEF ExitedAt
  <2> QED BY <2>1, <2>2, <2>3, <2>4, <2>5, HandlerStep DEF ExitedAt
<1> QED BY <1>1, <1>2

\* In test-online nobody subscribes in the middle of the stream
\* (command_strategy_test_online_handler.cc:77-85).
LEMMA FromTheFirstNext ==
  ASSUME IInv, FromTheFirst, [RecordingNext]_all_vars
  PROVE  FromTheFirst'
<1>1. TypeOK
  BY DEF IInv
<1>2. command' = command
  BY ProcessSteps DEF RecordingNext, HubStep, TimerEnds, recording_vars, process_vars
<1>3. Saving' = Saving /\ Listeners' = Listeners
  BY <1>2 DEF Saving, Listeners
<1> SUFFICES ASSUME ~Saving
             PROVE  /\ network_thread' = "none" => dispatched' = 0
                    /\ network_thread' # "none" => message_queues' = Listeners
                    /\ \A i \in Subscribers : subscribed_at'[i] = 0
  BY <1>3 DEF FromTheFirst, AllSubscribed
<1>4. /\ network_thread = "none" => dispatched = 0
      /\ network_thread # "none" => message_queues = Listeners
      /\ \A i \in Subscribers : subscribed_at[i] = 0
  BY DEF FromTheFirst, AllSubscribed
<1>5. CASE Subscribe /\ ~AllSubscribed /\ network_thread' = network_thread
  <2>1. /\ message_queues # Listeners /\ dispatched' = dispatched
        /\ subscribed_at' = [subscribed_at EXCEPT ![message_queues'] = dispatched]
    BY <1>5 DEF Subscribe, AllSubscribed
  <2>2. network_thread = "none" /\ dispatched = 0
    BY <2>1, <1>4
  <2> QED BY <2>1, <2>2, <1>1, <1>4, <1>5 DEF TypeOK
<1>6. CASE NetworkRuns /\ DispatchEvent /\ network_thread' = network_thread
  <2>1. UNCHANGED <<message_queues, subscribed_at>> /\ network_thread # "none"
    BY <1>6 DEF DispatchEvent, NetworkRuns, main_vars
  <2> QED BY <2>1, <1>4, <1>6
<1>7. CASE /\ Stopping \/ Shutdown \/ \E i \in Subscribers : PushEvent(i) \/ ThreadLoop(i) \/ WakeSpuriously(i)
           /\ network_thread' = network_thread
  <2>1. UNCHANGED <<dispatched, message_queues, subscribed_at>>
    BY <1>7 DEF Shutdown, Stopping, StopSetFlag, StopNotify, StopJoin, ShutdownReturns, PushEvent, ThreadLoop,
                PopEvent, ExitLoop, FindNothing, Block, HandleEvent, CountOut, WakeSpuriously, main_vars
  <2> QED BY <2>1, <1>4, <1>7
<1>8. CASE HubStep
  BY <1>5, <1>6, <1>7, <1>8 DEF HubStep, recording_vars, process_vars
<1>9. CASE TimerEnds
  BY <1>7, <1>9 DEF TimerEnds, process_vars
<1>10. CASE Initialize
  <2>1. message_queues = Listeners /\ network_thread' # "none" /\ UNCHANGED <<message_queues, subscribed_at>>
    BY <1>10 DEF Initialize, AllSubscribed, vars, main_vars
  <2> QED BY <2>1, <1>4
<1>11. CASE ExitOnError \/ Return \/ UNCHANGED all_vars
  <2>1. UNCHANGED <<dispatched, message_queues, subscribed_at>>
    BY <1>11, ProcessSteps DEF vars, main_vars
  <2>2. (network_thread' = "none") <=> (network_thread = "none")
    BY <1>11 DEF ExitOnError, NetworkRuns, Return, DestroyListener, CloseFile, Unsubscribe, NetworkEnds,
                 JoinNetwork, DestroyHub, all_vars, recording_vars, process_vars
  <2> QED BY <2>1, <2>2, <1>4
<1> QED BY <1>8, <1>9, <1>10, <1>11 DEF RecordingNext

-----------------------------------------------------------------------------
(* What was recorded is what was tested.                                   *)

\* It holds in every reachable state.
THEOREM HandledAlways == RecordingSpec => []HandledInv
<1>1. RecordingInit => HandledInv
  <2> SUFFICES ASSUME RecordingInit PROVE HandledInv
    OBVIOUS
  <2>1. Init
    BY DEF RecordingInit
  <2>2. IInv /\ PassedInv /\ ProcessInv /\ TeardownInv
    BY <2>1, InitInv, PassedInit, ProcessInit
  <2>3. ASSUME NEW i \in Subscribers PROVE ExitedAt(i) /\ HandledAt(i)
    BY <2>1 DEF Init, ExitedAt, HandledAt
  <2>4. FromTheFirst
    BY <2>1 DEF RecordingInit, Init, FromTheFirst
  <2> QED BY <2>2, <2>3, <2>4 DEF HandledInv
<1>2. HandledInv /\ [RecordingNext]_all_vars => HandledInv'
  <2> SUFFICES ASSUME HandledInv, [RecordingNext]_all_vars PROVE HandledInv'
    OBVIOUS
  <2>1. IInv /\ PassedInv /\ ProcessInv /\ TeardownInv /\ FromTheFirst
    BY DEF HandledInv
  <2>2. [Next]_vars
    BY StepIsHubs DEF all_vars
  <2>3. IInv' /\ PassedInv'
    BY <2>1, <2>2, NextInv, PassedNext
  <2>4. ProcessInv' /\ TeardownInv'
    BY <2>1, ProcessNext, TeardownNext
  <2>5. ASSUME NEW i \in Subscribers PROVE ExitedAt(i)' /\ HandledAt(i)'
    <3>1. ExitedAt(i) /\ HandledAt(i)
      BY DEF HandledInv
    <3> QED BY <3>1, <2>1, <2>2, ExitedNext, HandledNext
  <2>6. FromTheFirst'
    BY <2>1, FromTheFirstNext
  <2> QED BY <2>3, <2>4, <2>5, <2>6 DEF HandledInv
<1> QED BY <1>1, <1>2, PTL DEF RecordingSpec

\* When Shutdown has returned, each handler has been called with every event
\* whose dispatch was over when it began, and with one more at most.
LEMMA DoneHasAll ==
  ASSUME NEW i \in Subscribers, i <= Listeners, HandledInv, main_pc = "done"
  PROVE  subscribed_at[i] + Len(delivered[i]) \in settled..(settled + 1)
<1>1. TypeOK /\ ThreadInv /\ PositionInv /\ PassedAt(i) /\ ProcessInv /\ ExitedAt(i)
  BY DEF HandledInv, IInv, PassedInv
<1>2. message_queues = Listeners
  BY <1>1 DEF ProcessInv, AllSubscribed
<1>3. i <= message_queues
  BY <1>2
<1>4. pc[i] = "exited" /\ PositionAt(i)
  BY <1>1, <1>3 DEF PassedAt, PositionInv
<1>5. subscribed_at[i] + Len(delivered[i]) >= settled
  BY <1>1, <1>4 DEF ExitedAt
<1>6. /\ subscribed_at[i] \in Nat /\ Len(delivered[i]) \in Nat /\ Len(events_queue[i]) \in Nat
      /\ dispatched \in Nat
  BY <1>1 DEF TypeOK
<1>7. Popped(i) = subscribed_at[i] + Len(delivered[i]) + 0 /\ Popped(i) + Len(events_queue[i]) = Pushed(i)
  BY <1>4 DEF Popped, PositionAt
<1>8. Pushed(i) <= dispatched
  BY <1>6 DEF Pushed
<1>9. settled \in Nat /\ dispatched <= settled + 1
  BY <1>1 DEF ProcessInv
<1> QED BY <1>5, <1>6, <1>7, <1>8, <1>9

\* Two handlers that were called from the first event on were called with the
\* same events, as far as either was.
LEMMA SameEvents ==
  ASSUME NEW i \in Subscribers, NEW j \in Subscribers, TypeOK, HandledAt(i), HandledAt(j),
         subscribed_at[i] = subscribed_at[j], Len(delivered[i]) <= Len(delivered[j])
  PROVE  IsPrefix(delivered[i], delivered[j])
<1>1. delivered[i] \in Seq(1..MaxEvents) /\ delivered[j] \in Seq(1..MaxEvents)
  BY DEF TypeOK
<1>2. Len(delivered[i]) \in Nat /\ Len(delivered[j]) \in Nat
  BY <1>1
<1>3. \A k \in 1..Len(delivered[i]) : delivered[i][k] = delivered[j][k]
  BY <1>2 DEF HandledAt
<1>4. /\ SubSeq(delivered[i], 1, Len(delivered[i])) = [k \in 1..Len(delivered[i]) |-> delivered[i][k]]
      /\ SubSeq(delivered[j], 1, Len(delivered[i])) = [k \in 1..Len(delivered[i]) |-> delivered[j][k]]
  BY <1>1, <1>2 DEF SubSeq
<1>5. SubSeq(delivered[i], 1, Len(delivered[i])) = SubSeq(delivered[j], 1, Len(delivered[i]))
  BY <1>3, <1>4
<1> QED BY <1>5 DEF IsPrefix

\* What was delivered can be counted.
LEMMA HandledTypes ==
  ASSUME TypeOK, NEW i \in Subscribers
  PROVE  Len(delivered[i]) \in Nat /\ subscribed_at[i] \in Nat
BY DEF TypeOK

\* Two that were there from the beginning, when Shutdown has returned.
LEMMA SameToTheLast ==
  ASSUME NEW i \in Subscribers, NEW j \in Subscribers, HandledInv, main_pc = "done",
         i <= Listeners, j <= Listeners,
         subscribed_at[i] = 0, subscribed_at[j] = 0
  PROVE  /\ IsPrefix(delivered[i], delivered[j]) \/ IsPrefix(delivered[j], delivered[i])
         /\ Len(delivered[i]) \in settled..(settled + 1)
         /\ Len(delivered[j]) \in settled..(settled + 1)
<1>0. subscribed_at[i] = subscribed_at[j]
  OBVIOUS
<1>1. TypeOK /\ HandledAt(i) /\ HandledAt(j) /\ settled \in Nat
  BY DEF HandledInv, IInv, ProcessInv
<1>2. Len(delivered[i]) \in Nat /\ Len(delivered[j]) \in Nat
  BY <1>1, HandledTypes
<1>3. /\ 0 + Len(delivered[i]) \in settled..(settled + 1)
      /\ 0 + Len(delivered[j]) \in settled..(settled + 1)
  BY DoneHasAll
<1>4. Len(delivered[i]) <= Len(delivered[j]) => IsPrefix(delivered[i], delivered[j])
  BY <1>0, <1>1, SameEvents
<1>5. Len(delivered[j]) <= Len(delivered[i]) => IsPrefix(delivered[j], delivered[i])
  BY <1>0, <1>1, SameEvents
<1>6. IsPrefix(delivered[i], delivered[j]) \/ IsPrefix(delivered[j], delivered[i])
  BY <1>2, <1>4, <1>5
<1> QED BY <1>1, <1>2, <1>3, <1>6

\* README.md:38, as far as it is true: the recording and what the strategy was
\* tested on differ by the last event at most (event_hub.h:63-74, 92-95).
THEOREM RecordedIsTestedCorrect == RecordingSpec => []RecordedIsTested
<1>1. HandledInv => RecordedIsTested
  <2> SUFFICES ASSUME HandledInv, ~Saving, main_pc = "done", NEW i \in Subscribers
               PROVE  /\ \/ IsPrefix(delivered[i], delivered[Saver])
                         \/ IsPrefix(delivered[Saver], delivered[i])
                      /\ Len(delivered[i]) \in settled..(settled + 1)
                      /\ Len(delivered[Saver]) \in settled..(settled + 1)
    BY DEF RecordedIsTested
  <2>1. Saver \in Subscribers /\ Saver <= Listeners /\ i <= Listeners
    BY TheListeners
  <2>2. subscribed_at[Saver] = 0 /\ subscribed_at[i] = 0
    BY <2>1 DEF HandledInv, FromTheFirst
  <2> QED BY <2>1, <2>2, SameToTheLast
<1> QED BY <1>1, HandledAlways, PTL

-----------------------------------------------------------------------------
(* FlattenSeq of pairs and of single pieces.                               *)

FlattenStep(f, s) == [i \in 1..Len(s) |-> IF i = 1 THEN s[i] ELSE f[i - 1] \o s[i]]

\* FlattenSeq's recursion has one solution: any function that solves it gives
\* the flattened sequence.
LEMMA FlattenIs ==
  ASSUME NEW s, Len(s) \in Nat \ {0}, NEW G, G = FlattenStep(G, s)
  PROVE  FlattenSeq(s) = G[Len(s)]
<1> DEFINE F == CHOOSE f : f = FlattenStep(f, s)
           T == {i \in 1..Len(s) : F[i] # G[i]}
<1>1. FlattenSeq(s) = F[Len(s)]
  BY Zenon DEF FlattenSeq, FlattenStep
<1>2. F = FlattenStep(F, s)
  OBVIOUS
<1> HIDE DEF F
<1>3. \A i \in 1..Len(s) : /\ F[i] = IF i = 1 THEN s[i] ELSE F[i - 1] \o s[i]
                           /\ G[i] = IF i = 1 THEN s[i] ELSE G[i - 1] \o s[i]
  BY <1>2 DEF FlattenStep
<1>4. ASSUME T # {} PROVE FALSE
  <2>1. T \subseteq Nat
    OBVIOUS
  <2>2. PICK m \in T : \A k \in T : ~ (<<k, m>> \in OpToRel(<, Nat))
    BY <1>4, <2>1, NatLessThanWellFounded, WFMin
  <2>3. \A k \in T : ~ (k < m)
    BY <2>1, <2>2 DEF OpToRel
  <2>4. m # 1
    BY <1>3
  <2>5. m - 1 \in 1..Len(s) /\ m - 1 < m
    BY <2>4
  <2>6. F[m - 1] = G[m - 1]
    BY <2>3, <2>5
  <2>7. F[m] = G[m]
    BY <1>3, <2>4, <2>6
  <2> QED BY <2>7
<1>5. Len(s) \in 1..Len(s)
  OBVIOUS
<1> QED BY <1>1, <1>4, <1>5

\* One piece each: the pieces, one after the other.
LEMMA FlattenSingles ==
  ASSUME NEW S, NEW s \in Seq(Seq(S)), \A k \in 1..Len(s) : Len(s[k]) = 1
  PROVE  /\ FlattenSeq(s) \in Seq(S)
         /\ Len(FlattenSeq(s)) = Len(s)
         /\ \A k \in 1..Len(s) : FlattenSeq(s)[k] = s[k][1]
<1> DEFINE G == [i \in 1..Len(s) |-> [k \in 1..i |-> s[k][1]]]
<1>1. PICK n \in Nat : n = Len(s)
  OBVIOUS
<1>2. ASSUME NEW k \in 1..n PROVE s[k] \in Seq(S) /\ Len(s[k]) = 1 /\ s[k][1] \in S
  <2>1. s[k] \in Seq(S) /\ Len(s[k]) = 1
    BY <1>1
  <2> QED BY <2>1
<1>3. CASE n = 0
  <2>1. FlattenSeq(s) = s
    BY <1>1, <1>3 DEF FlattenSeq
  <2>2. s = <<>>
    BY <1>1, <1>3, EmptySeq
  <2>3. <<>> \in Seq(S) /\ Len(<<>>) = 0
    BY EmptySeq
  <2> QED BY <2>1, <2>2, <2>3
<1>4. CASE n # 0
  <2>1. ASSUME NEW i \in 1..n
        PROVE  G[i] \in Seq(S) /\ Len(G[i]) = i /\ \A k \in 1..i : G[i][k] = s[k][1]
    BY <1>1, <1>2
  <2>2. ASSUME NEW i \in 1..n PROVE G[i] = IF i = 1 THEN s[i] ELSE G[i - 1] \o s[i]
    <3>1. s[i] \in Seq(S) /\ Len(s[i]) = 1
      BY <1>2
    <3>2. G[i] \in Seq(S) /\ Len(G[i]) = i /\ \A k \in 1..i : G[i][k] = s[k][1]
      BY <2>1
    <3> HIDE DEF G
    <3>3. CASE i = 1
      <4>1. Len(G[i]) = Len(s[i]) /\ \A k \in 1..Len(G[i]) : G[i][k] = s[i][k]
        BY <3>1, <3>2, <3>3
      <4> QED BY <3>1, <3>2, <3>3, <4>1, SeqEqual
    <3>4. CASE i # 1
      <4>1. i - 1 \in 1..n
        BY <3>4
      <4>2. G[i - 1] \in Seq(S) /\ Len(G[i - 1]) = i - 1 /\ \A k \in 1..(i - 1) : G[i - 1][k] = s[k][1]
        BY <2>1, <4>1
      <4>3. /\ G[i - 1] \o s[i] \in Seq(S) /\ Len(G[i - 1] \o s[i]) = Len(G[i - 1]) + Len(s[i])
            /\ \A k \in 1..(Len(G[i - 1]) + Len(s[i])) : (G[i - 1] \o s[i])[k] =
                 IF k <= Len(G[i - 1]) THEN G[i - 1][k] ELSE s[i][k - Len(G[i - 1])]
        BY <3>1, <4>2, ConcatProperties
      <4>4. Len(G[i - 1]) + Len(s[i]) = i
        BY <3>1, <4>2
      <4>5. ASSUME NEW k \in 1..i PROVE G[i][k] = (G[i - 1] \o s[i])[k]
        <5>1. CASE k = i
          <6>1. ~(k <= Len(G[i - 1])) /\ k - Len(G[i - 1]) = 1
            BY <4>2, <5>1
          <6>2. (G[i - 1] \o s[i])[k] = s[i][1]
            BY <4>3, <4>4, <6>1
          <6> QED BY <3>2, <5>1, <6>2
        <5>2. CASE k # i
          <6>1. k \in 1..(i - 1) /\ k <= Len(G[i - 1])
            BY <4>2, <5>2
          <6> QED BY <3>2, <4>2, <4>3, <4>4, <6>1
        <5> QED BY <5>1, <5>2
      <4>6. Len(G[i]) = Len(G[i - 1] \o s[i])
        BY <3>2, <4>3, <4>4
      <4>7. G[i] = G[i - 1] \o s[i]
        <5>1. \A k \in 1..Len(G[i]) : G[i][k] = (G[i - 1] \o s[i])[k]
          BY <3>2, <4>5
        <5> QED BY <3>2, <4>3, <4>6, <5>1, SeqEqual
      <4> QED BY <3>4, <4>7
    <3> QED BY <3>3, <3>4
  <2>3. G = FlattenStep(G, s)
    BY <1>1, <2>2 DEF FlattenStep
  <2>4. n \in 1..n
    BY <1>4
  <2> HIDE DEF G
  <2>5. FlattenSeq(s) = G[n]
    BY <1>1, <1>4, <2>3, FlattenIs
  <2> QED BY <1>1, <2>1, <2>4, <2>5
<1> QED BY <1>3, <1>4

\* A pair each: the first pieces are at the odd places, the second at the even.
LEMMA FlattenPairs ==
  ASSUME NEW S, NEW s \in Seq(Seq(S)), \A k \in 1..Len(s) : Len(s[k]) = 2
  PROVE  /\ FlattenSeq(s) \in Seq(S)
         /\ Len(FlattenSeq(s)) = 2 * Len(s)
         /\ \A k \in 1..Len(s) : FlattenSeq(s)[2 * k - 1] = s[k][1] /\ FlattenSeq(s)[2 * k] = s[k][2]
<1>0. PICK n \in Nat : n = Len(s)
  OBVIOUS
<1> DEFINE Piece(p) == IF p % 2 = 1 THEN s[(p + 1) \div 2][1] ELSE s[p \div 2][2]
           G == [i \in 1..n |-> [p \in 1..(2 * i) |-> Piece(p)]]
<1>1. \A k \in 1..n : s[k] \in Seq(S) /\ Len(s[k]) = 2 /\ s[k][1] \in S /\ s[k][2] \in S
  <2> SUFFICES ASSUME NEW k \in 1..n
               PROVE  s[k] \in Seq(S) /\ Len(s[k]) = 2 /\ s[k][1] \in S /\ s[k][2] \in S
    OBVIOUS
  <2>1. s[k] \in Seq(S) /\ Len(s[k]) = 2
    BY <1>0
  <2> QED BY <2>1
<1>2. CASE n = 0
  <2>1. FlattenSeq(s) = s
    BY <1>0, <1>2 DEF FlattenSeq
  <2>2. s = <<>> /\ 2 * Len(s) = 0 /\ 1..Len(s) = {}
    <3>1. Len(s) = 0
      BY <1>0, <1>2
    <3>2. s = <<>>
      BY <3>1, EmptySeq
    <3> QED BY <3>1, <3>2
  <2>3. <<>> \in Seq(S) /\ Len(<<>>) = 0
    OBVIOUS
  <2> QED BY <2>1, <2>2, <2>3
<1>3. ASSUME NEW k \in 1..n
      PROVE  /\ 2 * k - 1 \in 1..(2 * n) /\ 2 * k \in 1..(2 * n)
             /\ Piece(2 * k - 1) = s[k][1] /\ Piece(2 * k) = s[k][2]
  <2>1. /\ (2 * k - 1) % 2 = 1 /\ ((2 * k - 1) + 1) \div 2 = k
        /\ (2 * k) % 2 # 1 /\ (2 * k) \div 2 = k
        /\ 2 * k - 1 \in 1..(2 * n) /\ 2 * k \in 1..(2 * n)
    OBVIOUS
  <2> QED BY <2>1
<1>4. ASSUME NEW p \in 1..(2 * n) PROVE Piece(p) \in S
  <2>1. CASE p % 2 = 1
    <3>1. (p + 1) \div 2 \in 1..n
      BY <2>1
    <3> QED BY <1>1, <3>1, <2>1
  <2>2. CASE p % 2 # 1
    <3>1. p \div 2 \in 1..n
      BY <2>2
    <3> QED BY <1>1, <3>1, <2>2
  <2> QED BY <2>1, <2>2
<1> HIDE DEF Piece
<1>5. CASE n # 0
  <2>1. ASSUME NEW i \in 1..n PROVE G[i] = IF i = 1 THEN s[i] ELSE G[i - 1] \o s[i]
    <3>1. s[i] \in Seq(S) /\ Len(s[i]) = 2
      BY <1>1
    <3>2. /\ G[i] \in Seq(S) /\ Len(G[i]) = 2 * i
          /\ \A p \in 1..(2 * i) : G[i][p] = Piece(p)
      BY <1>4
    <3>3. CASE i = 1
      <4>1. \A p \in 1..Len(s[i]) : G[i][p] = s[i][p]
        BY <1>3, <3>1, <3>2, <3>3
      <4>2. Len(G[i]) = Len(s[i])
        BY <3>1, <3>2, <3>3
      <4> HIDE DEF G
      <4>3. G[i] = s[i]
        BY <3>1, <3>2, <4>1, <4>2, SeqEqual
      <4> QED BY <3>3, <4>3
    <3>4. CASE i # 1
      <4>1. /\ G[i - 1] \in Seq(S) /\ Len(G[i - 1]) = 2 * i - 2
            /\ \A p \in 1..(2 * i - 2) : G[i - 1][p] = Piece(p)
        <5>1. /\ i - 1 \in 1..n /\ 2 * (i - 1) = 2 * i - 2 /\ 2 * i - 2 \in Nat
              /\ \A p \in 1..(2 * i - 2) : Piece(p) \in S
          BY <1>4, <3>4
        <5>2. G[i - 1] = [p \in 1..(2 * i - 2) |-> Piece(p)]
          BY <5>1
        <5> QED BY <5>1, <5>2
      <4> HIDE DEF G
      <4>2. /\ G[i - 1] \o s[i] \in Seq(S) /\ Len(G[i - 1] \o s[i]) = 2 * i
            /\ \A p \in 1..(2 * i) : (G[i - 1] \o s[i])[p] =
                 IF p <= 2 * i - 2 THEN G[i - 1][p] ELSE s[i][p - (2 * i - 2)]
        <5>1. Len(G[i - 1]) + Len(s[i]) = 2 * i
          BY <3>1, <4>1
        <5>2. /\ G[i - 1] \o s[i] \in Seq(S) /\ Len(G[i - 1] \o s[i]) = Len(G[i - 1]) + Len(s[i])
              /\ \A p \in 1..(Len(G[i - 1]) + Len(s[i])) : (G[i - 1] \o s[i])[p] =
                   IF p <= Len(G[i - 1]) THEN G[i - 1][p] ELSE s[i][p - Len(G[i - 1])]
          BY <3>1, <4>1, ConcatProperties
        <5> QED BY <4>1, <5>1, <5>2
      <4>3. ASSUME NEW p \in 1..(2 * i) PROVE (G[i - 1] \o s[i])[p] = G[i][p]
        <5>1. CASE p <= 2 * i - 2
          <6>1. p \in 1..(2 * i - 2)
            BY <5>1
          <6> QED BY <6>1, <5>1, <3>2, <4>1, <4>2
        <5>2. CASE p = 2 * i - 1
          <6>1. ~(p <= 2 * i - 2) /\ p - (2 * i - 2) = 1
            BY <5>2
          <6>2. (G[i - 1] \o s[i])[p] = s[i][1]
            BY <4>2, <6>1
          <6>3. Piece(p) = s[i][1]
            BY <1>3, <5>2
          <6> QED BY <6>2, <6>3, <3>1, <3>2
        <5>3. CASE p = 2 * i
          <6>1. ~(p <= 2 * i - 2) /\ p - (2 * i - 2) = 2
            BY <5>3
          <6>2. (G[i - 1] \o s[i])[p] = s[i][2]
            BY <4>2, <6>1
          <6>3. Piece(p) = s[i][2]
            BY <1>3, <5>3
          <6> QED BY <6>2, <6>3, <3>1, <3>2
        <5>4. p <= 2 * i - 2 \/ p = 2 * i - 1 \/ p = 2 * i
          OBVIOUS
        <5> QED BY <5>1, <5>2, <5>3, <5>4
      <4>4. G[i] = G[i - 1] \o s[i]
        BY <3>2, <4>2, <4>3, SeqEqual
      <4> QED BY <3>4, <4>4
    <3> QED BY <3>3, <3>4
  <2>2. G = FlattenStep(G, s)
    BY <1>0, <2>1 DEF FlattenStep
  <2>3. FlattenSeq(s) = G[n]
    <3> HIDE DEF G
    <3> QED BY <1>0, <1>5, <2>2, FlattenIs
  <2>4. G[n] \in Seq(S) /\ Len(G[n]) = 2 * n /\ \A p \in 1..(2 * n) : G[n][p] = Piece(p)
    BY <1>4, <1>5
  <2> HIDE DEF G
  <2>5. ASSUME NEW k \in 1..n PROVE FlattenSeq(s)[2 * k - 1] = s[k][1] /\ FlattenSeq(s)[2 * k] = s[k][2]
    BY <1>3, <2>3, <2>4
  <2> QED BY <1>0, <2>3, <2>4, <2>5
<1> QED BY <1>2, <1>5

-----------------------------------------------------------------------------
(* The file.                                                               *)

Pieces == {Header} \cup {TypeOf(e) : e \in 1..MaxEvents} \cup {Data(e) : e \in 1..MaxEvents}

\* The records of a sequence of events, piece by piece.
LEMMA RecordsShape ==
  ASSUME NEW d \in Seq(1..MaxEvents), NEW n \in Nat, n = Len(d),
         NEW records, records = FlattenSeq([k \in DOMAIN d |-> Record(d[k])])
  PROVE  /\ records \in Seq(Pieces) /\ Len(records) = 2 * n
         /\ \A k \in 1..n : records[2 * k - 1] = TypeOf(d[k]) /\ records[2 * k] = Data(d[k])
<1>1. PICK s : s = [k \in DOMAIN d |-> Record(d[k])]
  OBVIOUS
<1>2. DOMAIN d = 1..n /\ s \in [1..n -> Seq(Pieces)]
  <2>1. DOMAIN d = 1..n
    OBVIOUS
  <2>2. ASSUME NEW k \in 1..n PROVE Record(d[k]) \in Seq(Pieces)
    <3>1. d[k] \in 1..MaxEvents
      BY ElementOfSeq
    <3>2. TypeOf(d[k]) \in Pieces /\ Data(d[k]) \in Pieces
      BY <3>1 DEF Pieces
    <3> QED BY <3>2 DEF Record
  <2> QED BY <1>1, <2>1, <2>2
<1>3. s \in Seq(Seq(Pieces)) /\ Len(s) = n
  BY <1>2
<1>4. \A k \in 1..n : Len(s[k]) = 2 /\ s[k][1] = TypeOf(d[k]) /\ s[k][2] = Data(d[k])
  <2>1. \A k \in 1..n : s[k] = <<TypeOf(d[k]), Data(d[k])>>
    BY <1>1, <1>2 DEF Record
  <2>2. ASSUME NEW k \in 1..n, NEW x, NEW y, s[k] = <<x, y>>
        PROVE  Len(s[k]) = 2 /\ s[k][1] = x /\ s[k][2] = y
    BY <2>2
  <2> QED BY <2>1, <2>2
<1>5. records = FlattenSeq(s)
  BY <1>1
<1>6. /\ records \in Seq(Pieces) /\ Len(records) = 2 * n
      /\ \A k \in 1..n : records[2 * k - 1] = s[k][1] /\ records[2 * k] = s[k][2]
  <2>1. \A k \in 1..Len(s) : Len(s[k]) = 2
    BY <1>3, <1>4
  <2>2. /\ FlattenSeq(s) \in Seq(Pieces) /\ Len(FlattenSeq(s)) = 2 * Len(s)
        /\ \A k \in 1..Len(s) : FlattenSeq(s)[2 * k - 1] = s[k][1] /\ FlattenSeq(s)[2 * k] = s[k][2]
    BY <1>3, <2>1, FlattenPairs
  <2> QED BY <1>3, <1>5, <2>2
<1> QED BY <1>4, <1>6

\* The file of a saver that is there: the header, and two pieces for each of
\* the events it was called with (market_stream_saver.cc:32-43).
LEMMA FileShape ==
  ASSUME NEW i \in Subscribers, i = Saver, TypeOK, i <= message_queues,
         NEW n \in Nat, n = Len(delivered[i])
  PROVE  /\ Len(File) = 1 + 2 * n
         /\ \A k \in 1..n :
              File[2 * k] = TypeOf(delivered[i][k]) /\ File[2 * k + 1] = Data(delivered[i][k])
<1>1. delivered[i] \in Seq(1..MaxEvents)
  BY DEF TypeOK
<1>2. PICK records : records = FlattenSeq([k \in DOMAIN delivered[i] |-> Record(delivered[i][k])])
  OBVIOUS
<1>3. /\ records \in Seq(Pieces) /\ Len(records) = 2 * n
      /\ \A k \in 1..n : /\ records[2 * k - 1] = TypeOf(delivered[i][k])
                         /\ records[2 * k] = Data(delivered[i][k])
  <2>1. n \in Nat /\ n = Len(delivered[i])
    OBVIOUS
  <2> QED BY <1>1, <1>2, <2>1, RecordsShape
<1>4. File = <<Header>> \o records
  <2>1. ~(message_queues < Saver)
    BY HubConstants DEF TypeOK, Subscribers, HubConstants
  <2> QED BY <1>2, <2>1, Zenon DEF File
<1>5. <<Header>> \in Seq(Pieces) /\ Len(<<Header>>) = 1
  BY DEF Pieces
<1>6. /\ Len(File) = 1 + 2 * n
      /\ \A p \in 1..(1 + 2 * n) : File[p] = IF p <= 1 THEN <<Header>>[p] ELSE records[p - 1]
  <2>1. PICK header : header = <<Header>>
    OBVIOUS
  <2>2. header \in Seq(Pieces) /\ Len(header) = 1 /\ File = header \o records
    BY <1>4, <1>5, <2>1
  <2>3. /\ Len(File) = Len(header) + Len(records)
        /\ \A p \in 1..(Len(header) + Len(records)) :
             File[p] = IF p <= Len(header) THEN header[p] ELSE records[p - Len(header)]
    BY <1>3, <2>2, ConcatProperties
  <2> QED BY <1>3, <2>1, <2>2, <2>3
<1>7. ASSUME NEW k \in 1..n
      PROVE  File[2 * k] = records[2 * k - 1] /\ File[2 * k + 1] = records[2 * k]
  <2>1. /\ 2 * k \in 1..(1 + 2 * n) /\ ~(2 * k <= 1)
        /\ 2 * k + 1 \in 1..(1 + 2 * n) /\ ~(2 * k + 1 <= 1) /\ (2 * k + 1) - 1 = 2 * k
    OBVIOUS
  <2> QED BY <1>6, <2>1
<1> QED BY <1>3, <1>6, <1>7

FileLen == IF message_queues < Saver THEN 0 ELSE 1 + 2 * Len(delivered[Saver])

\* How long the file is, before and after the saver has subscribed.
LEMMA FileLength == TypeOK => Len(File) = FileLen
<1> SUFFICES ASSUME TypeOK PROVE Len(File) = FileLen
  OBVIOUS
<1>1. PICK i \in Subscribers : i = Saver
  BY TheListeners
<1>2. i \in Nat /\ message_queues \in Nat
  BY HubConstants DEF TypeOK, Subscribers, HubConstants
<1>3. CASE message_queues < i
  <2>1. File = <<>>
    BY <1>1, <1>3 DEF File
  <2> QED BY <1>1, <1>3, <2>1 DEF FileLen
<1>4. CASE i <= message_queues
  <2>1. Len(delivered[i]) \in Nat
    BY DEF TypeOK
  <2>2. Len(File) = 1 + 2 * Len(delivered[i])
    BY <1>1, <1>4, <2>1, FileShape
  <2> QED BY <1>1, <1>2, <1>4, <2>2 DEF FileLen
<1> QED BY <1>2, <1>3, <1>4

\* Once Shutdown has returned nothing more is handled and nobody subscribes.
LEMMA DoneIsDone ==
  ASSUME NEW i \in Subscribers, i <= Listeners, HandledInv, [Next]_vars, main_pc = "done", main_pc' = "done"
  PROVE  delivered'[i] = delivered[i] /\ message_queues' = message_queues
<1>1. TypeOK /\ ThreadInv /\ PassedAt(i) /\ ProcessInv
  BY DEF HandledInv, IInv, PassedInv
<1>2. message_queues = Listeners
  BY <1>1 DEF ProcessInv, AllSubscribed
<1>3. i <= message_queues
  BY <1>2
<1>4. ~HandleEvent(i) /\ ~Subscribe
  BY <1>1, <1>3 DEF PassedAt, HandleEvent, Subscribe, MainMayStart
<1>5. IInv
  BY DEF HandledInv
<1>6. message_queues' = message_queues
  BY <1>4 DEF Next, DispatchEvent, Waiting, StartWaiting, PollQueue, StopWaiting, Shutdown, Stopping,
              StopSetFlag, StopNotify, StopJoin, ShutdownReturns, Finished, PushEvent, ThreadLoop, PopEvent,
              ExitLoop, FindNothing, Block, HandleEvent, CountOut, WakeSpuriously, vars, main_vars
<1> QED BY <1>4, <1>5, <1>6, HandlerStep

\* The vector of queues only grows.
LEMMA QueuesGrow == [Next]_vars => message_queues' \in {message_queues, message_queues + 1}
BY DEF Next, DispatchEvent, Subscribe, Waiting, StartWaiting, PollQueue, StopWaiting, Shutdown, Stopping,
       StopSetFlag, StopNotify, StopJoin, ShutdownReturns, Finished, PushEvent, ThreadLoop, PopEvent, ExitLoop,
       FindNothing, Block, HandleEvent, CountOut, WakeSpuriously, vars, main_vars

\* The file never gets shorter.
LEMMA FileGrows ==
  ASSUME NEW i \in Subscribers, i = Saver, i = Saver', IInv, IInv', [Next]_vars
  PROVE  FileLen \in Nat /\ FileLen' \in Nat /\ FileLen <= FileLen'
<1>1. TypeOK /\ TypeOK'
  BY DEF IInv
<1>2. /\ i \in Nat /\ message_queues \in Nat
      /\ Len(delivered[i]) \in Nat /\ Len(delivered'[i]) \in Nat
  <2>1. i \in Nat /\ message_queues \in Nat
    BY <1>1, HubConstants DEF TypeOK, Subscribers, HubConstants
  <2>2. Len(delivered[i]) \in Nat
    BY <1>1 DEF TypeOK
  <2>3. Len(delivered'[i]) \in Nat
    BY <1>1 DEF TypeOK
  <2> QED BY <2>1, <2>2, <2>3
<1>3. FileLen = IF message_queues < i THEN 0 ELSE 1 + 2 * Len(delivered[i])
  BY DEF FileLen
<1>4. FileLen' = IF message_queues' < i THEN 0 ELSE 1 + 2 * Len(delivered'[i])
  BY DEF FileLen
<1>5. message_queues' \in {message_queues, message_queues + 1}
  BY QueuesGrow
<1>6. Len(delivered[i]) <= Len(delivered'[i])
  <2>1. CASE HandleEvent(i)
    <3>1. delivered'[i] = Append(delivered[i], current[i]) /\ delivered[i] \in Seq(1..MaxEvents)
      BY <2>1, HandledOneMore
    <3>2. Len(delivered'[i]) = Len(delivered[i]) + 1
      BY <3>1
    <3> QED BY <1>2, <3>2
  <2>2. CASE delivered'[i] = delivered[i]
    BY <1>2, <2>2
  <2>3. CASE Subscribe
    BY <1>2, <2>3 DEF Subscribe
  <2> QED BY <2>1, <2>2, <2>3, HandlerStep
<1> QED BY <1>2, <1>3, <1>4, <1>5, <1>6

\* Only the saver writes, at first; what is on the disk is never more than
\* the file, and all of it once the saver is gone.
LEMMA DiskNext ==
  ASSUME HandledInv, HandledInv', DiskInv, [RecordingNext]_all_vars
  PROVE  DiskInv'
<1>1. PICK i \in Subscribers : i = Saver
  BY TheListeners
<1>2. command' = command /\ i = Saver' /\ Listeners' = Listeners
  <2>1. command' = command
    BY ProcessSteps DEF RecordingNext, HubStep, TimerEnds, recording_vars, process_vars
  <2> QED BY <1>1, <2>1 DEF Saver, Saving, Listeners
<1>3. TypeOK /\ TypeOK' /\ TeardownInv /\ TeardownInv' /\ IInv /\ IInv'
  BY DEF HandledInv, IInv
<1>4. Len(File) = FileLen
  BY <1>3, FileLength
<1>5. (TypeOK => Len(File) = FileLen)'
  BY FileLength, PTL
<1>6. [Next]_vars
  BY StepIsHubs DEF all_vars
<1>7. FileLen \in Nat /\ FileLen' \in Nat /\ FileLen <= FileLen'
  BY <1>1, <1>2, <1>3, <1>6, FileGrows
<1>8. i \in 1..Listeners /\ Listeners \in 1..3 /\ alive \in Nat /\ alive' \in Nat
  BY <1>1, <1>2, <1>3, TheListeners DEF TeardownInv, Listener
<1>9. main_pc = "done" => FileLen' = FileLen
  <2>1. main_pc = "done" => delivered'[i] = delivered[i] /\ message_queues' = message_queues
    BY <1>6, <1>8, DoneIsDone, DoneStays
  <2> QED BY <1>1, <1>2, <2>1 DEF FileLen
<1>10. /\ on_disk \in 0..FileLen /\ on_disk \in Nat
       /\ network_thread # "exited" /\ 2 + i <= alive => on_disk = 0
       /\ network_thread # "exited" /\ alive < 2 + i => on_disk = FileLen /\ main_pc = "done"
  <2>1. alive < 2 + i => main_pc = "done"
    BY <1>3, <1>8 DEF TeardownInv, Listener
  <2> QED BY <1>1, <1>4, <1>7, <2>1 DEF DiskInv, Listener
<1> SUFFICES /\ on_disk' \in 0..FileLen'
             /\ network_thread' # "exited" /\ 2 + i <= alive' => on_disk' = 0
             /\ network_thread' # "exited" /\ alive' < 2 + i => on_disk' = FileLen'
  BY <1>2, <1>3, <1>5 DEF DiskInv, Listener
<1>11. CASE UNCHANGED <<on_disk, alive>> /\ (network_thread' # "exited" => network_thread # "exited")
  <2>1. network_thread' # "exited" /\ alive' < 2 + i => FileLen' = FileLen /\ on_disk = FileLen
    BY <1>9, <1>10, <1>11
  <2> QED BY <1>7, <1>10, <1>11, <2>1
<1>12. ASSUME NEW j \in Subscribers, DestroyListener(j)
       PROVE  /\ on_disk' \in 0..FileLen'
              /\ network_thread' # "exited" /\ 2 + i <= alive' => on_disk' = 0
              /\ network_thread' # "exited" /\ alive' < 2 + i => on_disk' = FileLen'
  <2>1. /\ j # i /\ alive = 2 + j /\ alive' = alive - 1 /\ main_pc = "done"
        /\ UNCHANGED <<on_disk, network_thread>>
    BY <1>1, <1>12 DEF DestroyListener, Leaving, Listener
  <2>2. j \in Nat /\ FileLen' = FileLen
    BY <1>9, <2>1, TheListeners
  <2>3. 2 + i <= alive' => 2 + i <= alive
    BY <1>8, <2>1, <2>2
  <2>4. alive' < 2 + i => alive < 2 + i
    BY <1>8, <2>1, <2>2
  <2> QED BY <1>7, <1>10, <2>1, <2>2, <2>3, <2>4
<1>13. CASE CloseFile
  <2>1. alive = 2 + i /\ alive' = alive - 1 /\ main_pc = "done" /\ on_disk' = FileLen
    BY <1>1, <1>4, <1>13 DEF CloseFile, Leaving, Listener
  <2> QED BY <1>7, <1>8, <1>9, <2>1
<1>14. CASE JoinNetwork \/ DestroyHub
  <2>1. /\ alive \in {1, 2} /\ alive' = alive - 1 /\ main_pc = "done"
        /\ UNCHANGED <<on_disk, network_thread>>
    BY <1>14, TheListeners DEF JoinNetwork, DestroyHub, Leaving
  <2> QED BY <1>7, <1>8, <1>9, <1>10, <2>1
<1>15. CASE ExitOnError
  <2>1. on_disk' \in on_disk..FileLen /\ network_thread' = "exited"
    BY <1>4, <1>15 DEF ExitOnError
  <2> QED BY <1>7, <1>10, <2>1
<1>16. CASE Initialize \/ HubStep \/ TimerEnds \/ Unsubscribe \/ NetworkEnds \/ UNCHANGED all_vars
  BY <1>11, <1>16 DEF Initialize, HubStep, TimerEnds, Unsubscribe, NetworkEnds, all_vars, recording_vars,
                      process_vars
<1> QED BY <1>12, <1>13, <1>14, <1>15, <1>16 DEF RecordingNext, Return

\* The inductive invariant of the whole recording.
THEOREM RecordingInductive == RecordingSpec => []RInv
<1>1. RecordingInit => DiskInv
  <2> SUFFICES ASSUME RecordingInit PROVE DiskInv
    OBVIOUS
  <2>1. message_queues = 0 /\ on_disk = 0 /\ alive = Listener(Listeners)
    BY DEF RecordingInit, Init
  <2>2. Saver \in 1..Listeners /\ Listeners \in 1..3
    BY TheListeners
  <2>3. File = <<>>
    BY <2>1, <2>2 DEF File
  <2>4. ~(alive < Listener(Saver))
    BY <2>1, <2>2 DEF Listener
  <2> QED BY <2>1, <2>3, <2>4 DEF DiskInv
<1>2. HandledInv /\ HandledInv' /\ DiskInv /\ [RecordingNext]_all_vars => DiskInv'
  BY DiskNext
<1> QED BY <1>1, <1>2, HandledAlways, PTL DEF RecordingSpec, RInv

\* The types of the recording.
THEOREM RecordingTypeCorrect == RecordingSpec => []RecordingTypeOK
<1>1. HandledInv /\ DiskInv => RecordingTypeOK
  <2> SUFFICES ASSUME HandledInv, DiskInv PROVE RecordingTypeOK
    OBVIOUS
  <2>1. TypeOK /\ ProcessInv /\ TeardownInv
    BY DEF HandledInv, IInv
  <2>2. dispatched \in Nat
    BY <2>1, HubConstants DEF TypeOK, HubConstants
  <2>3. settled \in 0..dispatched
    BY <2>1, <2>2 DEF ProcessInv
  <2> QED BY <2>1, <2>3 DEF ProcessInv, TeardownInv, DiskInv, RecordingTypeOK
<1> QED BY <1>1, RecordingInductive, PTL DEF RInv

-----------------------------------------------------------------------------
(* The replay.                                                             *)

\* How many records are whole on the disk.
Whole == (on_disk - 1) \div 2

\* The k-th ReadNext finds a record exactly if it is whole on the disk, and it
\* is the k-th event the saver was called with
\* (saved_market_stream_forwarder.cc:44-77).
LEMMA ReadsWholeRecords ==
  ASSUME NEW i \in Subscribers, i = Saver, TypeOK, i <= message_queues,
         NEW n \in Nat, n = Len(delivered[i]), on_disk \in 1..(1 + 2 * n),
         NEW k \in Nat \ {0}
  PROVE  ReadNext(k) = IF k <= Whole THEN <<Data(delivered[i][k])>> ELSE <<>>
<1>1. on_disk \in Nat /\ Whole \in 0..n /\ 2 * Whole + 1 <= on_disk /\ on_disk < 2 * Whole + 3
  BY DEF Whole
<1>2. CASE k <= Whole
  <2>1. k \in 1..n /\ 2 * k <= on_disk /\ 2 * k + 1 <= on_disk
    BY <1>1, <1>2
  <2>2. /\ Disk(2 * k) = TypeOf(delivered[i][k])
        /\ Disk(2 * k + 1) = Data(delivered[i][k])
    BY <2>1, FileShape DEF Disk
  <2>3. TypeOf(delivered[i][k]) # Cut /\ Data(delivered[i][k]) # Cut
    <3>1. TypeOf(delivered[i][k]).piece # "cut" /\ Data(delivered[i][k]).piece # "cut" /\ Cut.piece = "cut"
      BY DEF TypeOf, Data, Cut
    <3> QED BY <3>1
  <2> QED BY <1>2, <2>2, <2>3 DEF ReadNext
<1>3. CASE ~(k <= Whole)
  <2>1. ~(2 * k + 1 <= on_disk)
    BY <1>1, <1>3
  <2>2. Disk(2 * k + 1) = Cut
    BY <2>1 DEF Disk
  <2> QED BY <1>3, <2>2 DEF ReadNext
<1> QED BY <1>2, <1>3

\* What ForwardNext forwards before the first ReadNext that finds nothing.
LEMMA LoadedIsWhole ==
  ASSUME NEW i \in Subscribers, i = Saver, HandledInv, DiskInv, CanLoad
  PROVE  /\ Whole \in 0..Len(delivered[i])
         /\ Len(Loaded) = Whole
         /\ Loaded = [k \in 1..Len(Loaded) |-> Data(subscribed_at[i] + k)]
<1>1. TypeOK /\ PositionInv /\ HandledAt(i)
  BY DEF HandledInv, IInv
<1>2. PICK n \in Nat : n = Len(delivered[i])
  BY <1>1, HandledTypes
<1>3. i \in Nat /\ message_queues \in Nat /\ dispatched \in Nat /\ on_disk \in 1..Len(File)
  BY <1>1, HubConstants DEF TypeOK, Subscribers, HubConstants, DiskInv, CanLoad
<1>4. i <= message_queues /\ on_disk \in 1..(1 + 2 * n)
  <2>1. Len(File) = FileLen
    BY <1>1, FileLength
  <2> QED BY <2>1, <1>2, <1>3 DEF FileLen
<1>5. n <= dispatched
  <2>1. PositionAt(i)
    BY <1>1, <1>4 DEF PositionInv
  <2>2. Popped(i) + Len(events_queue[i]) = Pushed(i)
    BY <2>1 DEF PositionAt
  <2>3. Popped(i) >= n /\ Popped(i) \in Nat
    BY <1>1, <1>2 DEF Popped, TypeOK
  <2>4. Len(events_queue[i]) \in Nat /\ Pushed(i) <= dispatched
    BY <1>1, <1>3 DEF Pushed, TypeOK
  <2> QED BY <2>2, <2>3, <2>4, <1>3
<1>6. PICK w \in Nat : w = Whole /\ w <= n
  BY <1>4 DEF Whole
<1>7. \A k \in Nat \ {0} : ReadNext(k) = IF k <= w THEN <<Data(delivered[i][k])>> ELSE <<>>
  BY <1>1, <1>2, <1>4, <1>6, ReadsWholeRecords
<1> DEFINE ends == {k \in 1..(dispatched + 1) : ReadNext(k) = <<>>}
           first_end == CHOOSE k \in ends : \A j \in ends : k <= j
           read == [k \in 1..(first_end - 1) |-> ReadNext(k)]
<1>8. ends = (w + 1)..(dispatched + 1)
  <2>1. ASSUME NEW k \in 1..(dispatched + 1) PROVE ReadNext(k) = <<>> <=> ~(k <= w)
    <3>1. ReadNext(k) = IF k <= w THEN <<Data(delivered[i][k])>> ELSE <<>>
      BY <1>3, <1>7
    <3>2. <<Data(delivered[i][k])>> # <<>>
      OBVIOUS
    <3> QED BY <3>1, <3>2
  <2> QED BY <1>3, <2>1
<1> HIDE DEF ends
<1>9. first_end = w + 1
  <2>1. w + 1 \in ends /\ \A j \in ends : w + 1 <= j
    BY <1>3, <1>5, <1>6, <1>8
  <2>2. first_end \in ends /\ \A j \in ends : first_end <= j
    BY <2>1
  <2> HIDE DEF first_end
  <2> QED BY <1>3, <1>8, <2>1, <2>2
<1>10. Loaded = FlattenSeq(read)
  BY DEF Loaded, ends
<1> HIDE DEF first_end
<1>11. PICK s : s = [k \in 1..w |-> ReadNext(k)]
  OBVIOUS
<1>12. Loaded = FlattenSeq(s)
  BY <1>9, <1>10, <1>11
<1>13. \A k \in 1..w : s[k] = <<Data(subscribed_at[i] + k)>> /\ Data(subscribed_at[i] + k) \in Pieces
  <2> SUFFICES ASSUME NEW k \in 1..w
               PROVE  s[k] = <<Data(subscribed_at[i] + k)>> /\ Data(subscribed_at[i] + k) \in Pieces
    OBVIOUS
  <2>1. k \in 1..n /\ delivered[i][k] = subscribed_at[i] + k
    BY <1>1, <1>2, <1>6 DEF HandledAt
  <2>2. delivered[i][k] \in 1..MaxEvents
    BY <1>1, <1>2, <2>1, ElementOfSeq DEF TypeOK
  <2> QED BY <1>7, <1>11, <2>1, <2>2 DEF Pieces
<1>14. s \in Seq(Seq(Pieces)) /\ Len(s) = w /\ \A k \in 1..Len(s) : Len(s[k]) = 1
  <2>1. ASSUME NEW k \in 1..w PROVE s[k] \in Seq(Pieces) /\ Len(s[k]) = 1
    <3>1. PICK e \in Pieces : s[k] = <<e>>
      BY <1>13
    <3> QED BY <3>1
  <2>2. s \in [1..w -> Seq(Pieces)]
    BY <1>11, <2>1
  <2>3. s \in Seq(Seq(Pieces)) /\ Len(s) = w
    BY <2>2
  <2> QED BY <2>1, <2>3
<1>15. /\ Loaded \in Seq(Pieces) /\ Len(Loaded) = w
       /\ \A k \in 1..w : Loaded[k] = s[k][1]
  BY <1>12, <1>14, FlattenSingles
<1>16. \A k \in 1..w : Loaded[k] = Data(subscribed_at[i] + k)
  BY <1>13, <1>15
<1>17. Loaded = [k \in 1..w |-> Data(subscribed_at[i] + k)]
  BY <1>15, <1>16
<1> QED BY <1>2, <1>6, <1>15, <1>17

\* Whatever ended the recording, and wherever the disk's part of the file
\* ends, the replay is what the saver was called with, from its subscription
\* on (saved_market_stream_forwarder.cc:44-77, market_stream_saver.cc:32-43).
THEOREM ReplayCorrect == RecordingSpec => []ReplayIsRecorded
<1>1. HandledInv /\ DiskInv => ReplayIsRecorded
  <2> SUFFICES ASSUME HandledInv, DiskInv, CanLoad
               PROVE  Loaded = [k \in 1..Len(Loaded) |-> Data(subscribed_at[Saver] + k)]
    BY DEF ReplayIsRecorded
  <2>1. PICK i \in Subscribers : i = Saver
    BY TheListeners
  <2>2. Loaded = [k \in 1..Len(Loaded) |-> Data(subscribed_at[i] + k)]
    BY <2>1, LoadedIsWhole
  <2> QED BY <2>1, <2>2
<1> QED BY <1>1, RecordingInductive, PTL DEF RInv

\* A recording that the timer ended is loaded with every event whose dispatch
\* was over at the Shutdown, and one more at most
\* (command_stream_save_handler.cc:72-77, market_stream_saver.cc:25-28).
THEOREM TimerCorrect == RecordingSpec => []TimerLosesNothing
<1>1. HandledInv /\ DiskInv => TimerLosesNothing
  <2> SUFFICES ASSUME HandledInv, DiskInv, network_thread # "exited", alive < Listener(Saver)
               PROVE  CanLoad /\ subscribed_at[Saver] + Len(Loaded) \in settled..(settled + 1)
    BY DEF TimerLosesNothing
  <2>1. PICK i \in Subscribers : i = Saver /\ i <= Listeners
    BY TheListeners
  <2>2. TypeOK /\ ProcessInv /\ main_pc = "done" /\ on_disk = Len(File)
    <3>1. TypeOK /\ ProcessInv /\ TeardownInv
      BY DEF HandledInv, IInv
    <3>2. alive # Listener(Listeners)
      BY TheListeners DEF Listener
    <3> QED BY <3>1, <3>2 DEF TeardownInv, DiskInv
  <2>3. PICK n \in Nat : n = Len(delivered[i])
    BY <2>2, HandledTypes
  <2>4. on_disk = 1 + 2 * n
    <3>1. message_queues = Listeners
      BY <2>2 DEF ProcessInv, AllSubscribed
    <3>2. ~(message_queues < i)
      BY <2>1, <3>1, TheListeners
    <3> QED BY <2>1, <2>2, <2>3, <3>2, FileLength DEF FileLen
  <2>5. CanLoad
    BY <2>4 DEF CanLoad
  <2>6. Len(Loaded) = Whole
    BY <2>1, <2>5, LoadedIsWhole
  <2>7. Whole = n
    BY <2>4 DEF Whole
  <2>8. subscribed_at[i] + n \in settled..(settled + 1)
    BY <2>1, <2>2, <2>3, DoneHasAll
  <2> QED BY <2>1, <2>5, <2>6, <2>7, <2>8
<1> QED BY <1>1, RecordingInductive, PTL DEF RInv

=============================================================================
