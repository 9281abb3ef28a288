------------------------------ MODULE EventHub ------------------------------
(***************************************************************************)
(* events::EventHub<MessageQueue>: one MessageQueueThread per subscriber,  *)
(* each with its own FIFO queue, mutex, condition variable and thread; a   *)
(* dispatcher that pushes every event to every queue in turn; the main     *)
(* thread, which subscribes handlers, waits for the queues to drain and    *)
(* shuts the hub down; and the transport unit state, a counter shared by   *)
(* all the queues whose zero crossings set the kTransport unit busy or     *)
(* ready.                                                                  *)
(*                                                                         *)
(* An event is its position in the order of the DispatchEvent calls that   *)
(* the hub accepted.  What a thread does under mutex_ is one step, except  *)
(* that evaluating the wait predicate and blocking are two steps: Stop     *)
(* writes is_stopped_ and notifies WITHOUT the mutex and can come between. *)
(***************************************************************************)
EXTENDS Integers, Sequences, FiniteSets

CONSTANTS
  MaxSubscribers,     \* bound: how many handlers subscribe
  MaxEvents,          \* bound: how many events the hub accepts
  DispatchFromMain    \* TRUE: main itself dispatches (stream load, replay);
                      \* FALSE: another thread does (the network thread)

ASSUME HubConstants ==
  /\ MaxSubscribers \in Nat
  /\ MaxEvents \in Nat
  /\ DispatchFromMain \in BOOLEAN

Subscribers == 1..MaxSubscribers
NoEvent == 0

VARIABLES
  message_queues,     \* how many MessageQueueThreads the vector holds
  subscribed_at,      \* history: events accepted before i subscribed
  dispatched,         \* history: events accepted by DispatchEvent
  push_to,            \* the queue the dispatch loop pushes to next, 0: none
  events_queue,       \* events_queue_ of each thread
  pc,                 \* where each thread is in ThreadLoop
  current,            \* the event a thread has popped and not yet counted out
  is_processing,      \* is_processing_event_
  is_stopped,         \* is_stopped_
  delivered,          \* history: the events cb_ was called with
  event_hub_stopped,  \* event_hub_stopped_
  main_pc,            \* where main is: run, poll, stop, notify, join, done
  main_i,             \* the queue main's loop is at
  total_event_count,  \* TransportUnitStateImpl::total_event_count_
  transport_busy      \* the kTransport bit

thread_vars == <<pc, current, is_processing, delivered>>
main_vars == <<message_queues, subscribed_at, is_stopped, event_hub_stopped, main_pc, main_i>>
transport_vars == <<total_event_count, transport_busy>>
vars == <<dispatched, push_to, events_queue, thread_vars, main_vars, transport_vars>>

Init ==
  /\ message_queues = 0
  /\ subscribed_at = [i \in Subscribers |-> 0]
  /\ dispatched = 0
  /\ push_to = 0
  /\ events_queue = [i \in Subscribers |-> <<>>]
  /\ pc = [i \in Subscribers |-> "absent"]
  /\ current = [i \in Subscribers |-> NoEvent]
  /\ is_processing = [i \in Subscribers |-> FALSE]
  /\ is_stopped = [i \in Subscribers |-> FALSE]
  /\ delivered = [i \in Subscribers |-> <<>>]
  /\ event_hub_stopped = FALSE
  /\ main_pc = "run"
  /\ main_i = 0
  /\ total_event_count = 0
  /\ transport_busy = FALSE

-----------------------------------------------------------------------------
(* TransportUnitStateImpl: both under its own mutex.                       *)

\* Mutant: an event is counted only when it is the first one.
MutantAddOneEvent ==
  /\ transport_busy' = TRUE
  /\ total_event_count' = IF total_event_count = 0 THEN 1 ELSE total_event_count

AddOneEvent ==
  /\ transport_busy' = (transport_busy \/ total_event_count = 0)
  /\ total_event_count' = total_event_count + 1

\* Mutant: off by one, the unit is ready again with one event left.
MutantRemoveOneEvent ==
  /\ total_event_count' = total_event_count - 1
  /\ transport_busy' = (transport_busy /\ total_event_count' > 1)

RemoveOneEvent ==
  /\ total_event_count' = total_event_count - 1
  /\ transport_busy' = (transport_busy /\ total_event_count' # 0)

-----------------------------------------------------------------------------
(* The dispatching thread.                                                 *)

\* mutex_ of queue i is held between two steps only by a thread that has
\* found nothing to do and is about to block on cv_.
Locked(i) == pc[i] = "toBlock"

\* Mutant: nobody is notified.
MutantNotify(i) == pc' = pc

\* cv_.notify_one(): only the queue's own thread ever waits on cv_.
Notify(i) == pc' = IF pc[i] = "waiting" THEN [pc EXCEPT ![i] = "check"] ELSE pc

\* DispatchEvent looks at event_hub_stopped_ once, before its loop.
DispatchEvent ==
  /\ push_to = 0
  /\ ~event_hub_stopped
  /\ DispatchFromMain => main_pc = "run"
  /\ dispatched < MaxEvents
  /\ dispatched' = dispatched + 1
  /\ push_to' = IF message_queues = 0 THEN 0 ELSE 1
  /\ UNCHANGED <<events_queue, thread_vars, main_vars, transport_vars>>

PushEvent(i) ==
  /\ push_to = i
  /\ ~Locked(i)
  /\ AddOneEvent
  /\ events_queue' = [events_queue EXCEPT ![i] = Append(@, dispatched)]
  /\ Notify(i)
  /\ push_to' = IF i = message_queues THEN 0 ELSE i + 1
  /\ UNCHANGED <<dispatched, current, is_processing, delivered, main_vars>>

-----------------------------------------------------------------------------
(* ThreadLoop.                                                             *)

HasWork(i) == events_queue[i] # <<>>

\* Mutant: the event is copied from the front but not popped.
MutantPopEvent(i) ==
  /\ pc[i] = "check"
  /\ HasWork(i)
  /\ current' = [current EXCEPT ![i] = Head(events_queue[i])]
  /\ is_processing' = [is_processing EXCEPT ![i] = TRUE]
  /\ pc' = [pc EXCEPT ![i] = "handling"]
  /\ UNCHANGED <<dispatched, push_to, events_queue, delivered, main_vars, transport_vars>>

\* Lock, find the wait predicate true and an event to take, pop it, unlock.
PopEvent(i) ==
  /\ pc[i] = "check"
  /\ HasWork(i)
  /\ current' = [current EXCEPT ![i] = Head(events_queue[i])]
  /\ events_queue' = [events_queue EXCEPT ![i] = Tail(@)]
  /\ is_processing' = [is_processing EXCEPT ![i] = TRUE]
  /\ pc' = [pc EXCEPT ![i] = "handling"]
  /\ UNCHANGED <<dispatched, push_to, delivered, main_vars, transport_vars>>

\* Mutant: a stopped thread leaves at once, whatever its queue holds.
MutantExitLoop(i) ==
  /\ pc[i] = "check"
  /\ is_stopped[i]
  /\ is_processing' = [is_processing EXCEPT ![i] = FALSE]
  /\ pc' = [pc EXCEPT ![i] = "exited"]
  /\ UNCHANGED <<dispatched, push_to, events_queue, current, delivered, main_vars, transport_vars>>

\* Lock, find the thread stopped and the queue empty, return.
ExitLoop(i) ==
  /\ pc[i] = "check"
  /\ ~HasWork(i)
  /\ is_stopped[i]
  /\ is_processing' = [is_processing EXCEPT ![i] = FALSE]
  /\ pc' = [pc EXCEPT ![i] = "exited"]
  /\ UNCHANGED <<dispatched, push_to, events_queue, current, delivered, main_vars, transport_vars>>

\* Lock and find the wait predicate false; mutex_ stays held ...
FindNothing(i) ==
  /\ pc[i] = "check"
  /\ ~HasWork(i)
  /\ ~is_stopped[i]
  /\ is_processing' = [is_processing EXCEPT ![i] = FALSE]
  /\ pc' = [pc EXCEPT ![i] = "toBlock"]
  /\ UNCHANGED <<dispatched, push_to, events_queue, current, delivered, main_vars, transport_vars>>

\* ... until the thread is in the condition variable's wait set.
Block(i) ==
  /\ pc[i] = "toBlock"
  /\ pc' = [pc EXCEPT ![i] = "waiting"]
  /\ UNCHANGED <<dispatched, push_to, events_queue, current, is_processing, delivered,
                 main_vars, transport_vars>>

\* A condition variable may wake without a notification.
WakeSpuriously(i) ==
  /\ pc[i] = "waiting"
  /\ pc' = [pc EXCEPT ![i] = "check"]
  /\ UNCHANGED <<dispatched, push_to, events_queue, current, is_processing, delivered,
                 main_vars, transport_vars>>

\* event(): the callback runs to its end, outside mutex_.
HandleEvent(i) ==
  /\ pc[i] = "handling"
  /\ delivered' = [delivered EXCEPT ![i] = Append(@, current[i])]
  /\ pc' = [pc EXCEPT ![i] = "handled"]
  /\ UNCHANGED <<dispatched, push_to, events_queue, current, is_processing, main_vars, transport_vars>>

CountOut(i) ==
  /\ pc[i] = "handled"
  /\ RemoveOneEvent
  /\ current' = [current EXCEPT ![i] = NoEvent]
  /\ pc' = [pc EXCEPT ![i] = "check"]
  /\ UNCHANGED <<dispatched, push_to, events_queue, is_processing, delivered, main_vars>>

ThreadLoop(i) ==
  \/ PopEvent(i) \/ ExitLoop(i) \/ FindNothing(i) \/ Block(i)
  \/ HandleEvent(i) \/ CountOut(i)

-----------------------------------------------------------------------------
(* The main thread.                                                        *)

MainMayStart == main_pc = "run" /\ (DispatchFromMain => push_to = 0)

\* Handler::Subscribe: a MessageQueueThread is created and appended.  Doing
\* so while another thread is inside the dispatch loop is a data race on the
\* vector and is left out.
Subscribe ==
  /\ MainMayStart
  /\ push_to = 0
  /\ message_queues < MaxSubscribers
  /\ message_queues' = message_queues + 1
  /\ subscribed_at' = [subscribed_at EXCEPT ![message_queues'] = dispatched]
  /\ pc' = [pc EXCEPT ![message_queues'] = "check"]
  /\ UNCHANGED <<dispatched, push_to, events_queue, current, is_processing, delivered,
                 is_stopped, event_hub_stopped, main_pc, main_i, transport_vars>>

StartWaiting ==
  /\ MainMayStart
  /\ main_pc' = "poll"
  /\ main_i' = 1
  /\ UNCHANGED <<dispatched, push_to, events_queue, thread_vars, message_queues,
                 subscribed_at, is_stopped, event_hub_stopped, transport_vars>>

\* Mutant: an event being handled is not work.
MutantIsWorking(i) == HasWork(i)

IsWorking(i) == HasWork(i) \/ is_processing[i]

\* One IsWorking call of WaitForAllEventsProcessed; a working queue restarts
\* the scan from the first one.
PollQueue ==
  /\ main_pc = "poll"
  /\ main_i <= message_queues
  /\ ~Locked(main_i)
  /\ main_i' = IF IsWorking(main_i) THEN 1 ELSE main_i + 1
  /\ UNCHANGED <<dispatched, push_to, events_queue, thread_vars, message_queues,
                 subscribed_at, is_stopped, event_hub_stopped, main_pc, transport_vars>>

StopWaiting ==
  /\ main_pc = "poll"
  /\ main_i > message_queues
  /\ main_pc' = "run"
  /\ main_i' = 0
  /\ UNCHANGED <<dispatched, push_to, events_queue, thread_vars, message_queues,
                 subscribed_at, is_stopped, event_hub_stopped, transport_vars>>

Shutdown ==
  /\ MainMayStart
  /\ event_hub_stopped' = TRUE
  /\ main_pc' = "stop"
  /\ main_i' = 1
  /\ UNCHANGED <<dispatched, push_to, events_queue, thread_vars, message_queues,
                 subscribed_at, is_stopped, transport_vars>>

\* Mutant: Stop notifies the thread but forgets to set its flag.
MutantStopSetFlag ==
  /\ main_pc = "stop"
  /\ main_i <= message_queues
  /\ main_pc' = "notify"
  /\ UNCHANGED <<dispatched, push_to, events_queue, thread_vars, message_queues, is_stopped,
                 subscribed_at, event_hub_stopped, main_i, transport_vars>>

\* MessageQueueThread::Stop, in three steps: neither the store nor the
\* notification is made under mutex_.
StopSetFlag ==
  /\ main_pc = "stop"
  /\ main_i <= message_queues
  /\ is_stopped' = [is_stopped EXCEPT ![main_i] = TRUE]
  /\ main_pc' = "notify"
  /\ UNCHANGED <<dispatched, push_to, events_queue, thread_vars, message_queues,
                 subscribed_at, event_hub_stopped, main_i, transport_vars>>

StopNotify ==
  /\ main_pc = "notify"
  /\ Notify(main_i)
  /\ main_pc' = "join"
  /\ UNCHANGED <<dispatched, push_to, events_queue, current, is_processing, delivered,
                 message_queues, subscribed_at, is_stopped, event_hub_stopped, main_i,
                 transport_vars>>

\* Mutant: the thread is let go instead of joined.
MutantStopJoin ==
  /\ main_pc = "join"
  /\ main_pc' = "stop"
  /\ main_i' = main_i + 1
  /\ UNCHANGED <<dispatched, push_to, events_queue, thread_vars, message_queues,
                 subscribed_at, is_stopped, event_hub_stopped, transport_vars>>

StopJoin ==
  /\ main_pc = "join"
  /\ pc[main_i] = "exited"
  /\ main_pc' = "stop"
  /\ main_i' = main_i + 1
  /\ UNCHANGED <<dispatched, push_to, events_queue, thread_vars, message_queues,
                 subscribed_at, is_stopped, event_hub_stopped, transport_vars>>

ShutdownReturns ==
  /\ main_pc = "stop"
  /\ main_i > message_queues
  /\ main_pc' = "done"
  /\ main_i' = 0
  /\ UNCHANGED <<dispatched, push_to, events_queue, thread_vars, message_queues,
                 subscribed_at, is_stopped, event_hub_stopped, transport_vars>>

\* The hub is shut down and no dispatch loop is left: nothing more happens.
Finished == main_pc = "done" /\ push_to = 0 /\ UNCHANGED vars

Waiting == StartWaiting \/ PollQueue \/ StopWaiting
Stopping == StopSetFlag \/ StopNotify \/ StopJoin \/ ShutdownReturns

Next ==
  \/ DispatchEvent
  \/ Subscribe
  \/ Waiting
  \/ Shutdown
  \/ Stopping
  \/ Finished
  \/ \E i \in Subscribers : PushEvent(i) \/ ThreadLoop(i) \/ WakeSpuriously(i)

\* Every thread the scheduler runs makes progress, and one that asks for a
\* mutex its holder keeps releasing gets it (strong fairness of the steps
\* that must find mutex_ free); nothing obliges a condition variable to wake
\* spuriously, a market to send events or a user to subscribe or shut down.
Fairness ==
  /\ \A i \in Subscribers : SF_vars(PushEvent(i)) /\ WF_vars(ThreadLoop(i))
  /\ SF_vars(PollQueue) /\ WF_vars(StopWaiting)
  /\ WF_vars(Stopping)

Spec == Init /\ [][Next]_vars
FairSpec == Spec /\ Fairness

-----------------------------------------------------------------------------
(* Properties.                                                             *)

\* Every variable keeps its type: queues and histories hold accepted events,
\* and the unit-state counter is never seen below zero (RemoveOneEvent
\* exits the program there, event_hub.cc:28).
TypeOK ==
  /\ message_queues \in 0..MaxSubscribers
  /\ subscribed_at \in [Subscribers -> 0..MaxEvents]
  /\ dispatched \in 0..MaxEvents
  /\ push_to \in 0..message_queues
  /\ events_queue \in [Subscribers -> Seq(1..MaxEvents)]
  /\ pc \in [Subscribers -> {"absent", "check", "toBlock", "waiting", "handling", "handled", "exited"}]
  /\ current \in [Subscribers -> 0..MaxEvents]
  /\ is_processing \in [Subscribers -> BOOLEAN]
  /\ is_stopped \in [Subscribers -> BOOLEAN]
  /\ delivered \in [Subscribers -> Seq(1..MaxEvents)]
  /\ event_hub_stopped \in BOOLEAN
  /\ main_pc \in {"run", "poll", "stop", "notify", "join", "done"}
  /\ main_i \in 0..(MaxSubscribers + 1)
  /\ total_event_count \in Nat
  /\ transport_busy \in BOOLEAN

Elements(s) == {s[k] : k \in DOMAIN s}

\* The events pushed to a queue and not yet counted out by its thread.
InFlight ==
  {p \in Subscribers \X (1..MaxEvents) : p[2] \in Elements(events_queue[p[1]]) \/ p[2] = current[p[1]]}

\* The transport unit is busy exactly while some queue holds an event or some
\* handler is working on one, and the counter is how many there are: what the
\* replay relies on when it jumps the clock as soon as no unit is busy
\* (event_hub.cc:14-32, called from event_hub.h:127-129 and 175-177).
BusyIffInFlight ==
  /\ total_event_count = Cardinality(InFlight)
  /\ transport_busy <=> InFlight # {}

\* WaitForAllEventsProcessed (event_hub.h:101-113) scans the queues one after
\* the other, each under its own mutex; when nobody dispatches meanwhile, its
\* return means that no event is in flight any more.
WaitMeansDrained == [][StopWaiting => InFlight = {}]_vars

\* Shutdown (event_hub.h:92-99) returns with every accepted event handled by
\* every subscriber that was there to get it and the transport unit ready.
\* Asked of a hub whose dispatching thread is the one that shuts it down.
ShutdownDrains ==
  main_pc = "done" =>
    /\ total_event_count = 0
    /\ ~transport_busy
    /\ \A i \in 1..message_queues : subscribed_at[i] + Len(delivered[i]) = dispatched

\* No handler is called after Shutdown has returned: the objects the
\* callbacks use are destroyed next (event_hub.h:142-144).
NoCallbackAfterShutdown == [][main_pc = "done" => UNCHANGED delivered]_vars

\* The hub implements the abstract bus: one order of events, each subscriber
\* called with exactly those accepted after it subscribed, in order (safety).
Bus == INSTANCE EventBus WITH members <- message_queues
ImplementsBus == Bus!Spec

\* ... and, when main itself dispatches, with all of them (liveness): a push
\* is made under mutex_, so no wakeup for an event is ever lost.
DeliversAll == Bus!FairSpec

\* "Stopping MessageQueueThreads finished" (event_hub.h:98): a Shutdown that
\* has begun returns.
ShutdownReturnsEventually == main_pc = "stop" ~> main_pc = "done"

\* The only way a Shutdown does not return is that Stop's store and
\* notification fell between a thread's look at its predicate and its wait
\* (event_hub.h:138-141 and 160): then main joins a thread nobody will wake.
LostWakeup ==
  /\ main_pc = "join"
  /\ pc[main_i] = "waiting"
  /\ is_stopped[main_i]
ReturnsOrLosesWakeup == main_pc = "stop" ~> (main_pc = "done" \/ LostWakeup)

=============================================================================
