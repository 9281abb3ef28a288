---------------------------- MODULE EventHubProofs ----------------------------
(***************************************************************************)
(* What is proved of EventHub for any number of subscribers and events.    *)
(* The invariant behind all of it says where in the order of accepted      *)
(* events each queue stands (PositionInv): the events delivered, the one   *)
(* being handled and the ones queued are consecutive, and they end with    *)
(* the last event accepted, or the one before it if the dispatch loop has  *)
(* not come to the queue yet.                                              *)
(***************************************************************************)
EXTENDS EventHub, FiniteSetTheorems, SequenceTheorems, TLAPS

\* What ties the main thread's loops to the vector of queues.
MainInv ==
  /\ main_pc \in {"poll", "stop"} => main_i \in 1..(message_queues + 1)
  /\ main_pc \in {"notify", "join"} => main_i \in 1..message_queues
  /\ push_to # 0 => dispatched > 0
  /\ (DispatchFromMain /\ main_pc # "run") => push_to = 0

\* A queue has a thread exactly when it is in the vector.
ThreadAt(i) ==
  /\ i <= message_queues <=> pc[i] # "absent"
  /\ pc[i] = "absent" => events_queue[i] = <<>> /\ delivered[i] = <<>>
  /\ pc[i] \notin {"handling", "handled"} => current[i] = NoEvent
  /\ pc[i] \in {"handling", "handled"} => is_processing[i]

ThreadInv == \A i \in Subscribers : ThreadAt(i)

\* The position of the last event thread i has popped.
Popped(i) == subscribed_at[i] + Len(delivered[i]) + (IF pc[i] = "handling" THEN 1 ELSE 0)

\* The position of the last event pushed to queue i.
Pushed(i) == IF push_to # 0 /\ push_to <= i THEN dispatched - 1 ELSE dispatched

PositionAt(i) ==
  /\ Popped(i) + Len(events_queue[i]) = Pushed(i)
  /\ \A k \in 1..Len(events_queue[i]) : events_queue[i][k] = Popped(i) + k
  /\ pc[i] \in {"handling", "handled"} => current[i] = Popped(i) /\ Popped(i) > 0

PositionInv == \A i \in Subscribers : i <= message_queues => PositionAt(i)

\* The inductive invariant.
IInv == TypeOK /\ MainInv /\ ThreadInv /\ PositionInv /\ BusyIffInFlight

-----------------------------------------------------------------------------
(* Sequences and their elements.                                           *)

\* Appending adds one element.
LEMMA ElementsOfAppend ==
  ASSUME NEW S, NEW s \in Seq(S), NEW e \in S
  PROVE  Elements(Append(s, e)) = Elements(s) \cup {e}
<1>1. /\ Append(s, e) \in Seq(S)
      /\ Len(Append(s, e)) = Len(s) + 1
      /\ \A k \in 1..Len(s) : Append(s, e)[k] = s[k]
      /\ Append(s, e)[Len(s) + 1] = e
  BY AppendProperties
<1>2. DOMAIN s = 1..Len(s) /\ Len(s) \in Nat
  BY LenProperties
<1>3. DOMAIN Append(s, e) = 1..(Len(s) + 1)
  BY <1>1, LenProperties
<1> QED BY <1>1, <1>2, <1>3 DEF Elements

\* A sequence's elements are its head and its tail's.
LEMMA ElementsOfTail ==
  ASSUME NEW S, NEW s \in Seq(S), s # <<>>
  PROVE  /\ Head(s) = s[1]
         /\ Elements(s) = Elements(Tail(s)) \cup {Head(s)}
<1>1. /\ Tail(s) \in Seq(S)
      /\ Len(Tail(s)) = Len(s) - 1
      /\ \A k \in 1..Len(Tail(s)) : Tail(s)[k] = s[k + 1]
  BY HeadTailProperties
<1>2. DOMAIN s = 1..Len(s) /\ Len(s) \in Nat /\ Len(s) # 0
  BY LenProperties, EmptySeq
<1>3. DOMAIN Tail(s) = 1..(Len(s) - 1)
  BY <1>1, LenProperties
<1>4. Head(s) = s[1]
  OBVIOUS
<1>5. Elements(s) \subseteq Elements(Tail(s)) \cup {s[1]}
  <2> SUFFICES ASSUME NEW k \in DOMAIN s PROVE s[k] \in Elements(Tail(s)) \cup {s[1]}
    BY DEF Elements
  <2>1. CASE k = 1
    BY <2>1
  <2>2. CASE k # 1
    <3>1. k - 1 \in DOMAIN Tail(s) /\ Tail(s)[k - 1] = s[k]
      BY <2>2, <1>1, <1>2, <1>3
    <3> QED BY <3>1 DEF Elements
  <2> QED BY <2>1, <2>2
<1>6. Elements(Tail(s)) \cup {s[1]} \subseteq Elements(s)
  BY <1>1, <1>2, <1>3 DEF Elements
<1> QED BY <1>4, <1>5, <1>6

\* The empty sequence has none.
LEMMA ElementsOfEmpty == Elements(<<>>) = {}
BY DEF Elements

-----------------------------------------------------------------------------
(* The events in flight.                                                   *)

\* The events in flight are pairs from two finite intervals: they can be counted.
LEMMA InFlightFinite == IsFiniteSet(InFlight)
<1>1. IsFiniteSet(Subscribers) /\ IsFiniteSet(1..MaxEvents)
  BY HubConstants, FS_Interval DEF HubConstants, Subscribers
<1>2. IsFiniteSet(Subscribers \X (1..MaxEvents))
  BY <1>1, FS_Product
<1> QED BY <1>2, FS_Subset DEF InFlight

\* A step that leaves queues, threads' events and the counter alone keeps
\* the counter right.
LEMMA BusyUnchanged ==
  ASSUME BusyIffInFlight, UNCHANGED <<events_queue, current, transport_vars>>
  PROVE  BusyIffInFlight'
BY DEF BusyIffInFlight, InFlight, transport_vars

-----------------------------------------------------------------------------
(* The invariant.                                                          *)

\* A hub that was just constructed has no queue, no thread and no event.
LEMMA InitInv == Init => IInv
<1> SUFFICES ASSUME Init PROVE IInv
  OBVIOUS
<1>1. TypeOK
  <2>1. <<>> \in Seq(1..MaxEvents)
    BY EmptySeq
  <2>2. /\ events_queue \in [Subscribers -> Seq(1..MaxEvents)]
        /\ delivered \in [Subscribers -> Seq(1..MaxEvents)]
    BY <2>1 DEF Init
  <2>3. /\ subscribed_at \in [Subscribers -> 0..MaxEvents]
        /\ current \in [Subscribers -> 0..MaxEvents]
    BY HubConstants DEF Init, NoEvent, HubConstants
  <2>4. /\ is_processing \in [Subscribers -> BOOLEAN]
        /\ is_stopped \in [Subscribers -> BOOLEAN]
        /\ pc \in [Subscribers ->
                     {"absent", "check", "toBlock", "waiting", "handling", "handled", "exited"}]
    BY DEF Init
  <2>5. /\ message_queues \in 0..MaxSubscribers
        /\ dispatched \in 0..MaxEvents
        /\ push_to \in 0..message_queues
        /\ main_i \in 0..(MaxSubscribers + 1)
        /\ total_event_count \in Nat
    BY HubConstants DEF Init, HubConstants
  <2>6. /\ main_pc \in {"run", "poll", "stop", "notify", "join", "done"}
        /\ event_hub_stopped \in BOOLEAN
        /\ transport_busy \in BOOLEAN
    BY DEF Init
  <2> QED BY <2>2, <2>3, <2>4, <2>5, <2>6 DEF TypeOK
<1>2. MainInv
  BY DEF Init, MainInv
<1>3. ThreadInv
  BY HubConstants DEF Init, ThreadInv, ThreadAt, Subscribers, NoEvent, HubConstants
<1>4. PositionInv
  BY HubConstants DEF Init, PositionInv, Subscribers, HubConstants
<1>5. InFlight = {}
  BY ElementsOfEmpty DEF Init, InFlight, Subscribers, NoEvent
<1>6. BusyIffInFlight
  BY <1>5, FS_EmptySet DEF Init, BusyIffInFlight
<1> QED BY <1>1, <1>2, <1>3, <1>4, <1>6 DEF IInv

\* Main's steps move main_pc and main_i, and wake a thread at most.
MainStep ==
  \/ StartWaiting \/ PollQueue \/ StopWaiting \/ Shutdown
  \/ StopSetFlag \/ StopNotify \/ StopJoin \/ ShutdownReturns \/ Finished

\* Main's loops over the queues (event_hub.h:92-113, 138-146) touch no event.
LEMMA MainStepInv == IInv /\ MainStep => IInv'
<1> SUFFICES ASSUME IInv, MainStep PROVE IInv'
  OBVIOUS
<1> USE HubConstants DEF HubConstants, Subscribers
<1>1. /\ UNCHANGED <<dispatched, push_to, events_queue, current, is_processing, delivered,
                     message_queues, subscribed_at, transport_vars>>
      /\ pc' = pc \/ (main_pc = "notify" /\ pc[main_i] = "waiting" /\ pc' = [pc EXCEPT ![main_i] = "check"])
  BY DEF MainStep, StartWaiting, PollQueue, StopWaiting, Shutdown, StopSetFlag, StopNotify, StopJoin,
         ShutdownReturns, Finished, thread_vars, transport_vars, main_vars, vars, Notify
<1>2. TypeOK /\ MainInv /\ ThreadInv /\ PositionInv
  BY DEF IInv
<1>3. /\ MainInv'
      /\ main_i' \in 0..(MaxSubscribers + 1)
      /\ main_pc' \in {"run", "poll", "stop", "notify", "join", "done"}
  <2> USE <1>1, <1>2 DEF TypeOK, MainInv
  <2>1. CASE StartWaiting
    BY <2>1 DEF StartWaiting, MainMayStart
  <2>2. CASE PollQueue
    BY <2>2 DEF PollQueue
  <2>3. CASE StopWaiting
    BY <2>3 DEF StopWaiting
  <2>4. CASE Shutdown
    BY <2>4 DEF Shutdown, MainMayStart
  <2>5. CASE StopSetFlag
    BY <2>5 DEF StopSetFlag
  <2>6. CASE StopNotify
    BY <2>6 DEF StopNotify
  <2>7. CASE StopJoin
    BY <2>7 DEF StopJoin
  <2>8. CASE ShutdownReturns
    BY <2>8 DEF ShutdownReturns
  <2>9. CASE Finished
    BY <2>9 DEF Finished, vars, main_vars
  <2> QED BY <2>1, <2>2, <2>3, <2>4, <2>5, <2>6, <2>7, <2>8, <2>9 DEF MainStep
<1>4. is_stopped' \in [Subscribers -> BOOLEAN] /\ event_hub_stopped' \in BOOLEAN
  BY <1>2
  DEF TypeOK, MainInv, MainStep, StartWaiting, PollQueue, StopWaiting, Shutdown, StopSetFlag, StopNotify,
      StopJoin, ShutdownReturns, Finished, main_vars, vars
<1>5. TypeOK'
  BY <1>1, <1>2, <1>3, <1>4 DEF TypeOK, transport_vars
<1>6. ThreadInv'
  BY <1>1, <1>2 DEF TypeOK, ThreadInv, ThreadAt, MainInv
<1>7. PositionInv'
  BY <1>1, <1>2 DEF TypeOK, PositionInv, PositionAt, Popped, Pushed
<1>8. BusyIffInFlight'
  BY <1>1, BusyUnchanged DEF IInv
<1> QED BY <1>3, <1>5, <1>6, <1>7, <1>8 DEF IInv

\* An accepted event is behind every queue's last one until it is pushed there.
LEMMA DispatchEventInv == IInv /\ DispatchEvent => IInv'
<1> SUFFICES ASSUME IInv, DispatchEvent PROVE IInv'
  OBVIOUS
<1> USE HubConstants DEF HubConstants, Subscribers
<1>1. TypeOK /\ MainInv /\ ThreadInv /\ PositionInv
  BY DEF IInv
<1>2. TypeOK'
  BY <1>1 DEF DispatchEvent, TypeOK, thread_vars, main_vars, transport_vars
<1>3. MainInv'
  BY <1>1 DEF DispatchEvent, TypeOK, MainInv, main_vars
<1>4. ThreadInv'
  BY <1>1 DEF DispatchEvent, ThreadInv, ThreadAt, main_vars, thread_vars
<1>5. PositionInv'
  BY <1>1 DEF DispatchEvent, TypeOK, PositionInv, PositionAt, Popped, Pushed, main_vars, thread_vars
<1>6. BusyIffInFlight'
  BY BusyUnchanged DEF IInv, DispatchEvent, thread_vars
<1> QED BY <1>2, <1>3, <1>4, <1>5, <1>6 DEF IInv

\* A new queue stands right behind the events accepted so far (event_hub.h:53-57).
LEMMA SubscribeInv == IInv /\ Subscribe => IInv'
<1> SUFFICES ASSUME IInv, Subscribe PROVE IInv'
  OBVIOUS
<1> USE HubConstants DEF HubConstants, Subscribers
<1> DEFINE new == message_queues + 1
<1>1. TypeOK /\ MainInv /\ ThreadInv /\ PositionInv
  BY DEF IInv
<1>2. /\ new \in Subscribers /\ message_queues' = new
      /\ push_to = 0
      /\ pc' = [pc EXCEPT ![new] = "check"]
      /\ subscribed_at' = [subscribed_at EXCEPT ![new] = dispatched]
      /\ UNCHANGED <<dispatched, push_to, events_queue, current, is_processing, delivered>>
  BY <1>1 DEF Subscribe, TypeOK
<1>3. pc[new] = "absent" /\ events_queue[new] = <<>> /\ delivered[new] = <<>> /\ current[new] = NoEvent
  <2>1. ThreadAt(new) /\ ~(new <= message_queues)
    BY <1>1, <1>2 DEF TypeOK, ThreadInv
  <2> QED BY <2>1 DEF ThreadAt
<1>4. TypeOK'
  BY <1>1, <1>2 DEF Subscribe, TypeOK, transport_vars
<1>5. MainInv'
  BY <1>1 DEF Subscribe, MainMayStart, MainInv, TypeOK
<1>6. ThreadInv'
  <2> SUFFICES ASSUME NEW i \in Subscribers PROVE ThreadAt(i)'
    BY DEF ThreadInv
  <2>1. CASE i = new
    BY <2>1, <1>1, <1>2, <1>3 DEF TypeOK, ThreadAt
  <2>2. CASE i # new
    <3>1. ThreadAt(i) /\ pc'[i] = pc[i]
      BY <2>2, <1>1, <1>2 DEF TypeOK, ThreadInv
    <3>2. i <= message_queues' <=> i <= message_queues
      BY <2>2, <1>1, <1>2 DEF TypeOK
    <3> QED BY <3>1, <3>2, <1>2 DEF ThreadAt
  <2> QED BY <2>1, <2>2
<1>7. PositionInv'
  <2> SUFFICES ASSUME NEW i \in Subscribers, i <= new PROVE PositionAt(i)'
    BY <1>2 DEF PositionInv
  <2>1. CASE i = new
    BY <2>1, <1>1, <1>2, <1>3 DEF TypeOK, PositionAt, Popped, Pushed
  <2>2. CASE i # new
    <3>1. PositionAt(i) /\ pc'[i] = pc[i] /\ subscribed_at'[i] = subscribed_at[i]
      BY <2>2, <1>1, <1>2 DEF TypeOK, PositionInv
    <3> QED BY <3>1, <1>2 DEF PositionAt, Popped, Pushed
  <2> QED BY <2>1, <2>2
<1>8. BusyIffInFlight'
  BY BusyUnchanged DEF IInv, Subscribe
<1> QED BY <1>4, <1>5, <1>6, <1>7, <1>8 DEF IInv

\* What a push appends comes after everything the queue's thread has had.
LEMMA PushEventInv == ASSUME NEW t \in Subscribers PROVE IInv /\ PushEvent(t) => IInv'
<1> SUFFICES ASSUME IInv, PushEvent(t) PROVE IInv'
  OBVIOUS
<1> USE HubConstants DEF HubConstants
<1>1. TypeOK /\ MainInv /\ ThreadInv /\ PositionInv
  BY DEF IInv
<1>2. /\ t \in Nat \ {0} /\ t <= message_queues /\ push_to = t
      /\ dispatched \in 1..MaxEvents
      /\ pc[t] # "absent"
      /\ events_queue[t] \in Seq(1..MaxEvents)
  BY <1>1 DEF PushEvent, TypeOK, MainInv, ThreadInv, ThreadAt, Subscribers
<1>3. /\ events_queue' = [events_queue EXCEPT ![t] = Append(events_queue[t], dispatched)]
      /\ push_to' = IF t = message_queues THEN 0 ELSE t + 1
      /\ pc' = pc \/ (pc[t] = "waiting" /\ pc' = [pc EXCEPT ![t] = "check"])
      /\ UNCHANGED <<dispatched, current, is_processing, delivered, message_queues, subscribed_at,
                     is_stopped, event_hub_stopped, main_pc, main_i>>
  BY DEF PushEvent, Notify, main_vars
<1>4. \A i \in Subscribers :
        /\ Popped(i)' = Popped(i)
        /\ pc'[i] # pc[i] => pc[i] = "waiting" /\ pc'[i] = "check"
        /\ i # t => events_queue'[i] = events_queue[i]
  BY <1>1, <1>3 DEF TypeOK, Popped
<1>5. /\ Len(events_queue'[t]) = Len(events_queue[t]) + 1
      /\ \A k \in 1..Len(events_queue[t]) : events_queue'[t][k] = events_queue[t][k]
      /\ events_queue'[t][Len(events_queue[t]) + 1] = dispatched
      /\ events_queue'[t] \in Seq(1..MaxEvents)
      /\ Elements(events_queue'[t]) = Elements(events_queue[t]) \cup {dispatched}
  <2>1. events_queue'[t] = Append(events_queue[t], dispatched)
    BY <1>1, <1>3 DEF TypeOK
  <2> QED BY <2>1, <1>2, AppendProperties, ElementsOfAppend
<1>6. TypeOK'
  <2>1. events_queue' \in [Subscribers -> Seq(1..MaxEvents)]
    BY <1>1, <1>3, <1>5 DEF TypeOK
  <2>2. push_to' \in 0..message_queues'
    BY <1>1, <1>2, <1>3 DEF TypeOK
  <2>3. total_event_count' \in Nat /\ transport_busy' \in BOOLEAN
    BY <1>1 DEF TypeOK, PushEvent, AddOneEvent
  <2>4. pc' \in [Subscribers -> {"absent", "check", "toBlock", "waiting", "handling", "handled", "exited"}]
    BY <1>1, <1>3 DEF TypeOK
  <2> QED BY <1>1, <1>3, <2>1, <2>2, <2>3, <2>4 DEF TypeOK
<1>7. MainInv'
  <2>1. ~(DispatchFromMain /\ main_pc # "run")
    BY <1>1, <1>2 DEF MainInv, Subscribers
  <2> QED BY <2>1, <1>1, <1>2, <1>3 DEF MainInv
<1>8. ThreadInv'
  <2> SUFFICES ASSUME NEW i \in Subscribers PROVE ThreadAt(i)'
    BY DEF ThreadInv
  <2>1. ThreadAt(i)
    BY <1>1 DEF ThreadInv
  <2> QED BY <2>1, <1>2, <1>3, <1>4 DEF ThreadAt
<1>9. PositionInv'
  <2> SUFFICES ASSUME NEW i \in Subscribers, i <= message_queues PROVE PositionAt(i)'
    BY <1>3 DEF PositionInv
  <2>1. PositionAt(i) /\ i \in Nat /\ message_queues \in Nat /\ dispatched \in Nat
    BY <1>1, <1>2 DEF PositionInv, Subscribers, TypeOK
  <2>2. CASE i = t
    <3>1. Pushed(i) = dispatched - 1 /\ Pushed(i)' = dispatched
      BY <2>1, <2>2, <1>2, <1>3 DEF Pushed
    <3>2. Popped(i) \in Nat /\ Len(events_queue[i]) \in Nat
      BY <1>1 DEF TypeOK, Popped
    <3>3. /\ Popped(i)' = Popped(i)
          /\ Len(events_queue'[i]) = Len(events_queue[i]) + 1
          /\ Popped(i) + Len(events_queue[i]) = dispatched - 1
      BY <2>1, <2>2, <3>1, <1>4, <1>5 DEF PositionAt
    <3>4. Popped(i)' + Len(events_queue'[i]) = Pushed(i)'
      BY <2>1, <3>1, <3>2, <3>3
    <3>5. ASSUME NEW k \in 1..Len(events_queue'[i])
          PROVE  events_queue'[i][k] = Popped(i)' + k
      <4>1. CASE k \in 1..Len(events_queue[i])
        BY <4>1, <2>1, <2>2, <3>3, <1>5 DEF PositionAt
      <4>2. CASE k = Len(events_queue[i]) + 1
        <5>1. events_queue'[i][k] = dispatched
          BY <4>2, <2>2, <1>5
        <5>2. Popped(i) + k = dispatched
          BY <4>2, <2>1, <3>2, <3>3
        <5> QED BY <5>1, <5>2, <3>3
      <4> QED BY <4>1, <4>2, <3>2, <3>3
    <3> QED BY <2>1, <3>4, <3>5, <1>3, <1>4 DEF PositionAt
  <2>3. CASE i # t
    <3>1. Pushed(i)' = Pushed(i)
      BY <2>1, <2>3, <1>2, <1>3 DEF Pushed
    <3> QED BY <2>1, <2>3, <3>1, <1>3, <1>4 DEF PositionAt
  <2> QED BY <2>2, <2>3
<1>10. BusyIffInFlight'
  <2> DEFINE new == <<t, dispatched>>
  <2>1. new \notin InFlight
    <3>1. PositionAt(t) /\ Pushed(t) = dispatched - 1
      BY <1>1, <1>2 DEF PositionInv, Pushed, Subscribers
    <3>2. Popped(t) \in Nat /\ Len(events_queue[t]) \in Nat /\ DOMAIN events_queue[t] = 1..Len(events_queue[t])
      BY <1>1 DEF TypeOK, Popped
    <3>3. dispatched \notin Elements(events_queue[t])
      BY <3>1, <3>2, <1>2 DEF PositionAt, Elements
    <3>4. dispatched # current[t]
      BY <3>1, <3>2, <1>1, <1>2 DEF PositionAt, ThreadInv, ThreadAt, NoEvent
    <3> QED BY <3>3, <3>4 DEF InFlight
  <2>2. InFlight' = InFlight \cup {new}
    <3> SUFFICES ASSUME NEW p \in Subscribers \X (1..MaxEvents)
                 PROVE  p \in InFlight' <=> p \in InFlight \/ p = new
      BY <1>2 DEF InFlight
    <3>1. p[2] \in Elements(events_queue'[p[1]]) <=> p[2] \in Elements(events_queue[p[1]]) \/ p = new
      <4>1. CASE p[1] = t
        BY <4>1, <1>5
      <4>2. CASE p[1] # t
        BY <4>2, <1>4
      <4> QED BY <4>1, <4>2
    <3> QED BY <3>1, <1>3 DEF InFlight
  <2>3. Cardinality(InFlight') = Cardinality(InFlight) + 1
    BY <2>1, <2>2, InFlightFinite, FS_AddElement
  <2>4. total_event_count' = Cardinality(InFlight')
    BY <2>3 DEF IInv, BusyIffInFlight, PushEvent, AddOneEvent
  <2>5. transport_busy' = TRUE
    BY <1>1, FS_EmptySet DEF IInv, TypeOK, BusyIffInFlight, PushEvent, AddOneEvent
  <2> QED BY <2>2, <2>4, <2>5 DEF BusyIffInFlight
<1> QED BY <1>6, <1>7, <1>8, <1>9, <1>10 DEF IInv

\* A thread that has nothing to do moves no event.
IdleStep(t) == ExitLoop(t) \/ FindNothing(t) \/ Block(t) \/ WakeSpuriously(t)

\* A thread that looks for work, blocks, wakes or returns touches no event.
LEMMA IdleStepInv == ASSUME NEW t \in Subscribers PROVE IInv /\ IdleStep(t) => IInv'
<1> SUFFICES ASSUME IInv, IdleStep(t) PROVE IInv'
  OBVIOUS
<1> DEFINE idle == {"check", "toBlock", "waiting", "exited"}
<1>1. TypeOK /\ MainInv /\ ThreadInv /\ PositionInv
  BY DEF IInv
<1>2. /\ pc[t] \in idle
      /\ \E to \in idle : pc' = [pc EXCEPT ![t] = to]
      /\ is_processing' = is_processing \/ is_processing' = [is_processing EXCEPT ![t] = FALSE]
      /\ UNCHANGED <<dispatched, push_to, events_queue, current, delivered, main_vars, transport_vars>>
  BY DEF IdleStep, ExitLoop, FindNothing, Block, WakeSpuriously
<1>3. \A i \in Subscribers :
        /\ pc[i] \in idle => pc'[i] \in idle
        /\ pc[i] \notin idle => pc'[i] = pc[i] /\ is_processing'[i] = is_processing[i]
        /\ Popped(i)' = Popped(i)
  BY <1>1, <1>2 DEF TypeOK, Popped, main_vars
<1>4. TypeOK'
  BY <1>1, <1>2 DEF TypeOK, main_vars, transport_vars
<1>5. MainInv'
  BY <1>1, <1>2 DEF MainInv, main_vars
<1>6. ThreadInv'
  BY <1>1, <1>2, <1>3 DEF ThreadInv, ThreadAt, main_vars
<1>7. PositionInv'
  BY <1>1, <1>2, <1>3 DEF PositionInv, PositionAt, Pushed, main_vars
<1>8. BusyIffInFlight'
  BY <1>2, BusyUnchanged DEF IInv
<1> QED BY <1>4, <1>5, <1>6, <1>7, <1>8 DEF IInv

\* The event popped is the next one, and stays in flight.
LEMMA PopEventInv == ASSUME NEW t \in Subscribers PROVE IInv /\ PopEvent(t) => IInv'
<1> SUFFICES ASSUME IInv, PopEvent(t) PROVE IInv'
  OBVIOUS
<1>1. TypeOK /\ MainInv /\ ThreadInv /\ PositionInv
  BY DEF IInv
<1>2. /\ pc[t] = "check" /\ events_queue[t] # <<>>
      /\ current' = [current EXCEPT ![t] = Head(events_queue[t])]
      /\ events_queue' = [events_queue EXCEPT ![t] = Tail(events_queue[t])]
      /\ is_processing' = [is_processing EXCEPT ![t] = TRUE]
      /\ pc' = [pc EXCEPT ![t] = "handling"]
      /\ UNCHANGED <<dispatched, push_to, delivered, main_vars, transport_vars>>
  BY DEF PopEvent, HasWork
<1>3. /\ events_queue'[t] = Tail(events_queue[t]) /\ current'[t] = Head(events_queue[t])
      /\ pc'[t] = "handling" /\ is_processing'[t] = TRUE
      /\ \A i \in Subscribers : i # t =>
           /\ events_queue'[i] = events_queue[i] /\ current'[i] = current[i]
           /\ pc'[i] = pc[i] /\ is_processing'[i] = is_processing[i]
  BY <1>1, <1>2 DEF TypeOK
<1>4. /\ Tail(events_queue[t]) \in Seq(1..MaxEvents)
      /\ Len(Tail(events_queue[t])) = Len(events_queue[t]) - 1
      /\ \A k \in 1..Len(Tail(events_queue[t])) : Tail(events_queue[t])[k] = events_queue[t][k + 1]
      /\ Head(events_queue[t]) = events_queue[t][1]
      /\ Head(events_queue[t]) \in 1..MaxEvents
      /\ Elements(events_queue[t]) = Elements(Tail(events_queue[t])) \cup {Head(events_queue[t])}
      /\ Len(events_queue[t]) \in Nat \ {0}
  <2>1. events_queue[t] \in Seq(1..MaxEvents)
    BY <1>1 DEF TypeOK
  <2> QED BY <2>1, <1>2, HeadTailProperties, ElementsOfTail, EmptySeq
<1>5. current[t] = NoEvent /\ t <= message_queues
  BY <1>1, <1>2 DEF ThreadInv, ThreadAt
<1>6. TypeOK'
  <2>1. events_queue' \in [Subscribers -> Seq(1..MaxEvents)]
    BY <1>1, <1>2, <1>4 DEF TypeOK
  <2>2. current' \in [Subscribers -> 0..MaxEvents]
    BY <1>1, <1>2, <1>4 DEF TypeOK
  <2> QED BY <1>1, <1>2, <2>1, <2>2 DEF TypeOK, main_vars, transport_vars
<1>7. MainInv'
  BY <1>1, <1>2 DEF MainInv, main_vars
<1>8. ThreadInv'
  BY <1>1, <1>2, <1>3, <1>5 DEF ThreadInv, ThreadAt, main_vars
<1>9. PositionInv'
  <2> SUFFICES ASSUME NEW i \in Subscribers, i <= message_queues PROVE PositionAt(i)'
    BY <1>2 DEF PositionInv, main_vars
  <2>1. PositionAt(i) /\ Pushed(i)' = Pushed(i)
    BY <1>1, <1>2 DEF PositionInv, Pushed
  <2>2. CASE i = t
    <3>1. Popped(i) \in Nat /\ Popped(i)' = Popped(i) + 1
      BY <2>2, <1>1, <1>2, <1>3 DEF TypeOK, Popped, main_vars
    <3>2. Popped(i)' + Len(events_queue'[i]) = Pushed(i)'
      BY <2>1, <2>2, <3>1, <1>3, <1>4 DEF PositionAt
    <3>3. ASSUME NEW k \in 1..Len(events_queue'[i])
          PROVE  events_queue'[i][k] = Popped(i)' + k
      <4>1. events_queue'[i][k] = events_queue[t][k + 1] /\ k + 1 \in 1..Len(events_queue[t])
        BY <2>2, <1>3, <1>4
      <4>2. events_queue[t][k + 1] = Popped(i) + (k + 1)
        BY <2>1, <2>2, <4>1 DEF PositionAt
      <4> QED BY <3>1, <4>1, <4>2
    <3>4. current'[i] = Popped(i)'
      BY <2>1, <2>2, <3>1, <1>3, <1>4 DEF PositionAt
    <3> QED BY <3>1, <3>2, <3>3, <3>4 DEF PositionAt
  <2>3. CASE i # t
    BY <2>1, <2>3, <1>2, <1>3 DEF PositionAt, Popped, main_vars
  <2> QED BY <2>2, <2>3
<1>10. BusyIffInFlight'
  <2>1. ASSUME NEW p \in Subscribers \X (1..MaxEvents)
        PROVE  p \in InFlight' <=> p \in InFlight
    <3>1. CASE p[1] = t
      BY <3>1, <1>3, <1>4, <1>5 DEF InFlight, NoEvent
    <3>2. CASE p[1] # t
      BY <3>2, <1>3 DEF InFlight
    <3> QED BY <3>1, <3>2
  <2>2. InFlight' = InFlight
    BY <2>1 DEF InFlight
  <2> QED BY <2>2, <1>2 DEF IInv, BusyIffInFlight, transport_vars
<1> QED BY <1>6, <1>7, <1>8, <1>9, <1>10 DEF IInv

\* The event handled was already counted as popped, and stays in flight.
LEMMA HandleEventInv == ASSUME NEW t \in Subscribers PROVE IInv /\ HandleEvent(t) => IInv'
<1> SUFFICES ASSUME IInv, HandleEvent(t) PROVE IInv'
  OBVIOUS
<1>1. TypeOK /\ MainInv /\ ThreadInv /\ PositionInv
  BY DEF IInv
<1>2. /\ pc[t] = "handling"
      /\ delivered' = [delivered EXCEPT ![t] = Append(delivered[t], current[t])]
      /\ pc' = [pc EXCEPT ![t] = "handled"]
      /\ UNCHANGED <<dispatched, push_to, events_queue, current, is_processing, main_vars, transport_vars>>
  BY DEF HandleEvent
<1>3. /\ delivered'[t] = Append(delivered[t], current[t]) /\ pc'[t] = "handled"
      /\ \A i \in Subscribers : i # t => delivered'[i] = delivered[i] /\ pc'[i] = pc[i]
  BY <1>1, <1>2 DEF TypeOK
<1>4. /\ t <= message_queues
      /\ current[t] = Popped(t) /\ Popped(t) > 0
      /\ Popped(t) = subscribed_at[t] + Len(delivered[t]) + 1
  BY <1>1, <1>2 DEF ThreadInv, ThreadAt, PositionInv, PositionAt, Popped
<1>5. current[t] \in 1..MaxEvents
  BY <1>1, <1>4, HubConstants DEF TypeOK, HubConstants
<1>6. /\ delivered'[t] \in Seq(1..MaxEvents)
      /\ Len(delivered'[t]) = Len(delivered[t]) + 1
      /\ Len(delivered[t]) \in Nat
  BY <1>1, <1>3, <1>5, AppendProperties DEF TypeOK
<1>7. \A i \in Subscribers : Popped(i)' = Popped(i)
  <2> SUFFICES ASSUME NEW i \in Subscribers PROVE Popped(i)' = Popped(i)
    OBVIOUS
  <2>1. subscribed_at[i] \in Nat /\ subscribed_at' = subscribed_at
    BY <1>1, <1>2 DEF TypeOK, main_vars
  <2>2. CASE i = t
    <3>1. Popped(t)' = subscribed_at[t] + Len(delivered'[t]) + 0
      BY <2>1, <1>3 DEF Popped
    <3> QED BY <2>1, <2>2, <3>1, <1>4, <1>6
  <2>3. CASE i # t
    BY <2>1, <2>3, <1>3 DEF Popped
  <2> QED BY <2>2, <2>3
<1>8. TypeOK'
  <2>1. delivered' \in [Subscribers -> Seq(1..MaxEvents)]
    BY <1>1, <1>2, <1>3, <1>6 DEF TypeOK
  <2> QED BY <1>1, <1>2, <2>1 DEF TypeOK, main_vars, transport_vars
<1>9. MainInv'
  BY <1>1, <1>2 DEF MainInv, main_vars
<1>10. ThreadInv'
  BY <1>1, <1>2, <1>3 DEF ThreadInv, ThreadAt, main_vars
<1>11. PositionInv'
  <2> SUFFICES ASSUME NEW i \in Subscribers, i <= message_queues PROVE PositionAt(i)'
    BY <1>2 DEF PositionInv, main_vars
  <2>1. PositionAt(i) /\ Pushed(i)' = Pushed(i) /\ Popped(i)' = Popped(i)
    BY <1>1, <1>2, <1>7 DEF PositionInv, Pushed
  <2>2. pc'[i] \in {"handling", "handled"} => pc[i] \in {"handling", "handled"}
    BY <1>2, <1>3
  <2> QED BY <2>1, <2>2, <1>2 DEF PositionAt
<1>12. BusyIffInFlight'
  BY <1>2, BusyUnchanged DEF IInv
<1> QED BY <1>8, <1>9, <1>10, <1>11, <1>12 DEF IInv

\* The event counted out was the one in flight that no queue holds.
LEMMA CountOutInv == ASSUME NEW t \in Subscribers PROVE IInv /\ CountOut(t) => IInv'
<1> SUFFICES ASSUME IInv, CountOut(t) PROVE IInv'
  OBVIOUS
<1>1. TypeOK /\ MainInv /\ ThreadInv /\ PositionInv
  BY DEF IInv
<1>2. /\ pc[t] = "handled"
      /\ current' = [current EXCEPT ![t] = NoEvent]
      /\ pc' = [pc EXCEPT ![t] = "check"]
      /\ UNCHANGED <<dispatched, push_to, events_queue, is_processing, delivered, main_vars>>
  BY DEF CountOut
<1>3. /\ current'[t] = NoEvent /\ pc'[t] = "check"
      /\ \A i \in Subscribers : i # t => current'[i] = current[i] /\ pc'[i] = pc[i]
  BY <1>1, <1>2 DEF TypeOK
<1>4. PositionAt(t) /\ t <= message_queues /\ current[t] = Popped(t) /\ Popped(t) > 0
  BY <1>1, <1>2 DEF ThreadInv, ThreadAt, PositionInv, PositionAt
<1>5. current[t] \in 1..MaxEvents
  BY <1>1, <1>4, HubConstants DEF TypeOK, HubConstants
<1>6. current[t] \notin Elements(events_queue[t])
  <2>1. DOMAIN events_queue[t] = 1..Len(events_queue[t])
    BY <1>1 DEF TypeOK
  <2>2. \A k \in 1..Len(events_queue[t]) : events_queue[t][k] = current[t] + k
    BY <1>4 DEF PositionAt
  <2> QED BY <2>1, <2>2, <1>5 DEF Elements
<1> DEFINE out == <<t, current[t]>>
<1>7. out \in InFlight
  BY <1>5 DEF InFlight
<1>8. InFlight' = InFlight \ {out}
  <2>1. ASSUME NEW p \in Subscribers \X (1..MaxEvents)
        PROVE  p \in InFlight' <=> p \in InFlight /\ p # out
    <3>1. CASE p[1] = t
      BY <3>1, <1>2, <1>3, <1>6 DEF InFlight, NoEvent
    <3>2. CASE p[1] # t
      BY <3>2, <1>2, <1>3 DEF InFlight
    <3> QED BY <3>1, <3>2
  <2> QED BY <2>1 DEF InFlight
<1>9. Cardinality(InFlight') = Cardinality(InFlight) - 1 /\ Cardinality(InFlight) \in Nat
  BY <1>7, <1>8, InFlightFinite, FS_RemoveElement, FS_CardinalityType
<1>10. Cardinality(InFlight') \in Nat /\ (Cardinality(InFlight') = 0 <=> InFlight' = {})
  <2>1. IsFiniteSet(InFlight')
    BY <1>8, InFlightFinite, FS_RemoveElement
  <2> QED BY <2>1, FS_CardinalityType, FS_EmptySet
<1>11. BusyIffInFlight'
  <2>1. total_event_count' = Cardinality(InFlight')
    BY <1>9 DEF IInv, BusyIffInFlight, CountOut, RemoveOneEvent
  <2>2. transport_busy
    BY <1>7 DEF IInv, BusyIffInFlight
  <2>3. transport_busy' <=> total_event_count' # 0
    BY <2>2 DEF CountOut, RemoveOneEvent
  <2> QED BY <2>1, <2>3, <1>10 DEF BusyIffInFlight
<1>12. TypeOK'
  <2>1. total_event_count' \in Nat /\ transport_busy' \in BOOLEAN
    <3>1. total_event_count' = Cardinality(InFlight')
      BY <1>11 DEF BusyIffInFlight
    <3>2. transport_busy' \in BOOLEAN
      BY DEF CountOut, RemoveOneEvent
    <3> QED BY <3>1, <3>2, <1>10
  <2>2. current' \in [Subscribers -> 0..MaxEvents]
    BY <1>1, <1>2, HubConstants DEF TypeOK, NoEvent, HubConstants
  <2> QED BY <1>1, <1>2, <2>1, <2>2 DEF TypeOK, main_vars
<1>13. MainInv'
  BY <1>1, <1>2 DEF MainInv, main_vars
<1>14. ThreadInv'
  BY <1>1, <1>2, <1>3 DEF ThreadInv, ThreadAt, main_vars
<1>15. PositionInv'
  <2> SUFFICES ASSUME NEW i \in Subscribers, i <= message_queues PROVE PositionAt(i)'
    BY <1>2 DEF PositionInv, main_vars
  <2>1. PositionAt(i) /\ Pushed(i)' = Pushed(i)
    BY <1>1, <1>2 DEF PositionInv, Pushed
  <2>2. CASE i = t
    BY <2>1, <2>2, <1>2, <1>3 DEF PositionAt, Popped, main_vars
  <2>3. CASE i # t
    BY <2>1, <2>3, <1>2, <1>3 DEF PositionAt, Popped, main_vars
  <2> QED BY <2>2, <2>3
<1> QED BY <1>11, <1>12, <1>13, <1>14, <1>15 DEF IInv

\* A step that changes nothing.
LEMMA StutterInv == IInv /\ UNCHANGED vars => IInv'
<1> SUFFICES ASSUME IInv, UNCHANGED vars PROVE IInv'
  OBVIOUS
<1> USE DEF vars, thread_vars, main_vars, transport_vars
<1>1. TypeOK' /\ MainInv'
  BY DEF IInv, TypeOK, MainInv
<1>2. ThreadInv'
  BY DEF IInv, ThreadInv, ThreadAt
<1>3. PositionInv'
  BY DEF IInv, PositionInv, PositionAt, Popped, Pushed
<1>4. BusyIffInFlight'
  BY BusyUnchanged DEF IInv
<1> QED BY <1>1, <1>2, <1>3, <1>4 DEF IInv

\* Every step of the hub keeps the invariant.
LEMMA NextInv == IInv /\ [Next]_vars => IInv'
<1> SUFFICES ASSUME IInv, [Next]_vars PROVE IInv'
  OBVIOUS
<1>1. CASE DispatchEvent
  BY <1>1, DispatchEventInv
<1>2. CASE Subscribe
  BY <1>2, SubscribeInv
<1>3. CASE Waiting \/ Shutdown \/ Stopping \/ Finished
  BY <1>3, MainStepInv DEF MainStep, Waiting, Stopping
<1>4. ASSUME NEW i \in Subscribers, PushEvent(i) \/ ThreadLoop(i) \/ WakeSpuriously(i)
      PROVE  IInv'
  BY <1>4, PushEventInv, PopEventInv, HandleEventInv, CountOutInv, IdleStepInv DEF ThreadLoop, IdleStep
<1>5. CASE UNCHANGED vars
  BY <1>5, StutterInv
<1> QED BY <1>1, <1>2, <1>3, <1>4, <1>5 DEF Next

-----------------------------------------------------------------------------
(* The theorems.                                                           *)

\* The invariant holds in every state of every run of the hub.
THEOREM Inductive == Spec => []IInv
BY InitInv, NextInv, PTL DEF Spec

\* Queues, histories and the loop of main keep their types; in particular
\* TransportUnitStateImpl never counts below zero (event_hub.cc:28).
THEOREM TypeCorrect == Spec => []TypeOK
<1>1. IInv => TypeOK
  BY DEF IInv
<1> QED BY <1>1, Inductive, PTL

\* The kTransport unit is busy exactly while an event is queued or handled,
\* however many queues there are and however their threads interleave
\* (event_hub.cc:14-32).
THEOREM TransportCorrect == Spec => []BusyIffInFlight
<1>1. IInv => BusyIffInFlight
  BY DEF IInv
<1> QED BY <1>1, Inductive, PTL

-----------------------------------------------------------------------------
(* Drain and shutdown, and the refinement of EventBus.  On top of IInv the *)
(* argument needs what main's loops have established about the queues they *)
(* have passed (PassedAt).                                                 *)

Idle(i) == events_queue[i] = <<>> /\ pc[i] \notin {"handling", "handled"}

\* The poll loop has found every queue it passed idle, and when main is the
\* dispatcher nothing can have come in since; the stop loop has joined the
\* thread of every queue it passed.
PassedAt(i) ==
  /\ is_stopped[i] => main_pc \notin {"run", "poll"}
  /\ pc[i] = "exited" => is_stopped[i] /\ (DispatchFromMain => events_queue[i] = <<>>)
  /\ main_pc \in {"stop", "notify", "join"} /\ i < main_i => pc[i] = "exited"
  /\ main_pc = "done" /\ i <= message_queues => pc[i] = "exited"
  /\ DispatchFromMain /\ main_pc = "poll" /\ i < main_i => Idle(i)

PassedInv == \A i \in Subscribers : PassedAt(i)

\* At first main has passed no queue and no thread has returned.
LEMMA PassedInit == Init => PassedInv
BY HubConstants DEF Init, PassedInv, PassedAt, Subscribers, HubConstants

\* Only its own thread takes an event, and only in a state that is not idle
\* for main; a step of a thread keeps what main has established.
LEMMA PassedThread ==
  ASSUME NEW t \in Subscribers, IInv, PassedInv, ThreadLoop(t) \/ WakeSpuriously(t)
  PROVE  PassedInv'
<1>1. TypeOK /\ MainInv /\ ThreadInv
  BY DEF IInv
<1>2. UNCHANGED main_vars
  BY DEF ThreadLoop, WakeSpuriously, PopEvent, ExitLoop, FindNothing, Block, HandleEvent, CountOut
<1> SUFFICES ASSUME NEW i \in Subscribers PROVE PassedAt(i)'
  BY DEF PassedInv
<1>3. PassedAt(i)
  BY DEF PassedInv
<1>4. CASE i # t
  <2>1. events_queue'[i] = events_queue[i] /\ pc'[i] = pc[i]
    BY <1>1, <1>4 DEF TypeOK, ThreadLoop, WakeSpuriously, PopEvent, ExitLoop, FindNothing, Block,
                      HandleEvent, CountOut
  <2> QED BY <2>1, <1>2, <1>3 DEF PassedAt, Idle, main_vars
<1>5. CASE i = t /\ PopEvent(t)
  <2>1. pc[i] = "check" /\ events_queue[i] # <<>> /\ pc'[i] = "handling"
    BY <1>1, <1>5 DEF TypeOK, PopEvent, HasWork
  <2> QED BY <2>1, <1>2, <1>3 DEF PassedAt, Idle, main_vars
<1>6. CASE i = t /\ ExitLoop(t)
  <2>1. events_queue[i] = <<>> /\ events_queue' = events_queue /\ is_stopped[i] /\ pc'[i] = "exited"
    BY <1>1, <1>6 DEF TypeOK, ExitLoop, HasWork
  <2> QED BY <2>1, <1>2, <1>3 DEF PassedAt, Idle, main_vars
<1>7. CASE i = t /\ (FindNothing(t) \/ Block(t) \/ WakeSpuriously(t) \/ HandleEvent(t) \/ CountOut(t))
  <2>1. /\ events_queue' = events_queue
        /\ pc[i] # "exited" /\ pc'[i] # "exited"
        /\ pc'[i] \in {"handling", "handled"} => pc[i] \in {"handling", "handled"}
    BY <1>1, <1>7 DEF TypeOK, FindNothing, Block, WakeSpuriously, HandleEvent, CountOut
  <2> QED BY <2>1, <1>2, <1>3 DEF PassedAt, Idle, main_vars
<1> QED BY <1>4, <1>5, <1>6, <1>7 DEF ThreadLoop

\* When main is the dispatcher nothing is pushed while it waits or stops.
LEMMA PassedPush ==
  ASSUME NEW t \in Subscribers, IInv, PassedInv, PushEvent(t)
  PROVE  PassedInv'
<1>1. TypeOK /\ MainInv
  BY DEF IInv
<1>2. UNCHANGED main_vars /\ push_to # 0
  BY DEF PushEvent, Subscribers
<1>3. DispatchFromMain => main_pc = "run"
  BY <1>1, <1>2 DEF MainInv
<1> SUFFICES ASSUME NEW i \in Subscribers PROVE PassedAt(i)'
  BY DEF PassedInv
<1>4. PassedAt(i)
  BY DEF PassedInv
<1>5. pc'[i] = "exited" <=> pc[i] = "exited"
  BY <1>1 DEF TypeOK, PushEvent, Notify
<1> QED BY <1>2, <1>3, <1>4, <1>5 DEF PassedAt, main_vars

\* Main goes past a queue only when it is idle, or when its thread is joined.
LEMMA PassedMain ==
  ASSUME IInv, PassedInv, MainStep
  PROVE  PassedInv'
<1>1. TypeOK /\ MainInv /\ ThreadInv
  BY DEF IInv
<1> SUFFICES ASSUME NEW i \in Subscribers PROVE PassedAt(i)'
  BY DEF PassedInv
<1>2. PassedAt(i) /\ ThreadAt(i)
  BY <1>1 DEF PassedInv, ThreadInv
<1>3. i \in Nat \ {0} /\ message_queues \in Nat /\ main_i \in Nat
  BY <1>1, HubConstants DEF TypeOK, Subscribers, HubConstants
<1>4. CASE StartWaiting
  BY <1>2, <1>3, <1>4 DEF StartWaiting, MainMayStart, PassedAt, Idle, thread_vars
<1>5. CASE PollQueue
  <2>1. /\ main_pc = "poll" /\ main_pc' = "poll"
        /\ main_i' = IF IsWorking(main_i) THEN 1 ELSE main_i + 1
        /\ UNCHANGED <<events_queue, pc, is_stopped, message_queues>>
    BY <1>5 DEF PollQueue, thread_vars
  <2>2. CASE IsWorking(main_i)
    BY <2>1, <2>2, <1>2, <1>3 DEF PassedAt, Idle
  <2>3. CASE ~IsWorking(main_i) /\ i # main_i
    BY <2>1, <2>3, <1>2, <1>3 DEF PassedAt, Idle
  <2>4. CASE ~IsWorking(main_i) /\ i = main_i
    <3>1. Idle(i)
      BY <2>4, <1>2 DEF IsWorking, HasWork, Idle, ThreadAt
    <3> QED BY <3>1, <2>1, <1>2 DEF PassedAt, Idle
  <2> QED BY <2>2, <2>3, <2>4
<1>6. CASE StopWaiting
  BY <1>2, <1>6 DEF StopWaiting, PassedAt, Idle, thread_vars
<1>7. CASE Shutdown
  BY <1>2, <1>3, <1>7 DEF Shutdown, MainMayStart, PassedAt, Idle, thread_vars
<1>8. CASE StopSetFlag
  BY <1>1, <1>2, <1>8 DEF StopSetFlag, PassedAt, Idle, TypeOK, thread_vars
<1>9. CASE StopNotify
  <2>1. pc'[i] = "exited" <=> pc[i] = "exited"
    BY <1>1, <1>9 DEF TypeOK, StopNotify, Notify
  <2> QED BY <2>1, <1>2, <1>9 DEF StopNotify, PassedAt, Idle
<1>10. CASE StopJoin
  <2>1. i < main_i + 1 => i < main_i \/ i = main_i
    BY <1>3
  <2> QED BY <2>1, <1>2, <1>10 DEF StopJoin, PassedAt, Idle, thread_vars
<1>11. CASE ShutdownReturns
  <2>1. i <= message_queues => i < main_i
    BY <1>3, <1>11 DEF ShutdownReturns
  <2> QED BY <2>1, <1>2, <1>11 DEF ShutdownReturns, PassedAt, Idle, thread_vars
<1>12. CASE Finished
  BY <1>2, <1>12 DEF Finished, PassedAt, Idle, vars, main_vars, thread_vars
<1> QED BY <1>4, <1>5, <1>6, <1>7, <1>8, <1>9, <1>10, <1>11, <1>12 DEF MainStep

\* A new thread starts in front of everything main has passed.
LEMMA PassedSubscribe ==
  ASSUME IInv, PassedInv, Subscribe
  PROVE  PassedInv'
<1>1. TypeOK
  BY DEF IInv
<1> SUFFICES ASSUME NEW i \in Subscribers PROVE PassedAt(i)'
  BY DEF PassedInv
<1>2. PassedAt(i)
  BY DEF PassedInv
<1>3. pc'[i] = pc[i] \/ pc'[i] = "check"
  BY <1>1 DEF TypeOK, Subscribe
<1> QED BY <1>2, <1>3 DEF Subscribe, MainMayStart, PassedAt

\* Every step of the hub keeps what main has established.
LEMMA PassedNext == IInv /\ PassedInv /\ [Next]_vars => PassedInv'
<1> SUFFICES ASSUME IInv, PassedInv, [Next]_vars PROVE PassedInv'
  OBVIOUS
<1>1. CASE DispatchEvent
  BY <1>1 DEF DispatchEvent, PassedInv, PassedAt, Idle, thread_vars, main_vars
<1>2. CASE Subscribe
  BY <1>2, PassedSubscribe
<1>3. CASE Waiting \/ Shutdown \/ Stopping \/ Finished
  BY <1>3, PassedMain DEF MainStep, Waiting, Stopping
<1>4. ASSUME NEW i \in Subscribers, PushEvent(i) \/ ThreadLoop(i) \/ WakeSpuriously(i)
      PROVE  PassedInv'
  BY <1>4, PassedPush, PassedThread
<1>5. CASE UNCHANGED vars
  BY <1>5 DEF PassedInv, PassedAt, Idle, vars, thread_vars, main_vars
<1> QED BY <1>1, <1>2, <1>3, <1>4, <1>5 DEF Next

\* Both invariants hold in every reachable state.
THEOREM PassedAlways == Spec => [](IInv /\ PassedInv)
<1>1. Init => IInv /\ PassedInv
  BY InitInv, PassedInit
<1>2. IInv /\ PassedInv /\ [Next]_vars => (IInv /\ PassedInv)'
  BY NextInv, PassedNext
<1> QED BY <1>1, <1>2, PTL DEF Spec

-----------------------------------------------------------------------------
(* The theorems.                                                           *)

\* Idle queues hold no event in flight.
LEMMA IdleIsDrained ==
  ASSUME TypeOK, ThreadInv, \A i \in 1..message_queues : Idle(i)
  PROVE  InFlight = {}
<1> SUFFICES ASSUME NEW p \in Subscribers \X (1..MaxEvents)
             PROVE  p \notin InFlight
  BY DEF InFlight
<1>1. ThreadAt(p[1]) /\ p[1] \in 1..MaxSubscribers
  BY DEF ThreadInv, Subscribers
<1>2. events_queue[p[1]] = <<>> /\ pc[p[1]] \notin {"handling", "handled"}
  <2>1. CASE p[1] <= message_queues
    BY <2>1, <1>1 DEF Idle
  <2>2. CASE ~(p[1] <= message_queues)
    BY <2>2, <1>1 DEF ThreadAt
  <2> QED BY <2>1, <2>2
<1>3. current[p[1]] = NoEvent
  BY <1>1, <1>2 DEF ThreadAt
<1> QED BY <1>2, <1>3, ElementsOfEmpty DEF InFlight, NoEvent

\* WaitForAllEventsProcessed (event_hub.h:101-113) looks at the queues one
\* after the other; if main itself is the dispatcher, every event has been
\* handled when it returns.
THEOREM WaitCorrect == ASSUME DispatchFromMain PROVE Spec => WaitMeansDrained
<1>1. IInv /\ PassedInv /\ [Next]_vars => [StopWaiting => InFlight = {}]_vars
  <2> SUFFICES ASSUME IInv, PassedInv, StopWaiting PROVE InFlight = {}
    OBVIOUS
  <2>1. TypeOK /\ ThreadInv
    BY DEF IInv
  <2>2. ASSUME NEW i \in 1..message_queues PROVE Idle(i)
    <3>1. i \in Subscribers /\ i < main_i
      BY <2>1, HubConstants DEF StopWaiting, TypeOK, Subscribers, HubConstants
    <3> QED BY <3>1 DEF StopWaiting, PassedInv, PassedAt
  <2> QED BY <2>1, <2>2, IdleIsDrained
<1> QED BY <1>1, PassedAlways, PTL DEF Spec, WaitMeansDrained

\* After Shutdown (event_hub.h:92-99) by the dispatching thread every
\* subscriber has had every event that was accepted after it subscribed, and
\* the transport unit is ready.
THEOREM ShutdownCorrect == ASSUME DispatchFromMain PROVE Spec => []ShutdownDrains
<1>1. IInv /\ PassedInv => ShutdownDrains
  <2> SUFFICES ASSUME IInv, PassedInv, main_pc = "done"
               PROVE  /\ total_event_count = 0 /\ ~transport_busy
                      /\ \A i \in 1..message_queues :
                           subscribed_at[i] + Len(delivered[i]) = dispatched
    BY DEF ShutdownDrains
  <2>1. TypeOK /\ MainInv /\ ThreadInv /\ PositionInv /\ BusyIffInFlight
    BY DEF IInv
  <2>2. ASSUME NEW i \in 1..message_queues
        PROVE  i \in Subscribers /\ i <= message_queues /\ pc[i] = "exited" /\ events_queue[i] = <<>>
    <3>1. i \in Subscribers /\ i <= message_queues
      BY <2>1, HubConstants DEF TypeOK, Subscribers, HubConstants
    <3> QED BY <3>1 DEF PassedInv, PassedAt
  <2>3. InFlight = {}
    BY <2>1, <2>2, IdleIsDrained DEF Idle
  <2>4. total_event_count = 0 /\ ~transport_busy
    BY <2>1, <2>3, FS_EmptySet DEF BusyIffInFlight
  <2>5. ASSUME NEW i \in 1..message_queues
        PROVE  subscribed_at[i] + Len(delivered[i]) = dispatched
    <3>1. Popped(i) + Len(events_queue[i]) = Pushed(i) /\ push_to = 0
      BY <2>1, <2>2 DEF PositionInv, PositionAt, MainInv
    <3>2. Popped(i) = subscribed_at[i] + Len(delivered[i]) + 0 /\ Len(events_queue[i]) = 0
      BY <2>2 DEF Popped
    <3>3. subscribed_at[i] \in Nat /\ Len(delivered[i]) \in Nat
      BY <2>1, <2>2 DEF TypeOK
    <3> QED BY <3>1, <3>2, <3>3 DEF Pushed
  <2> QED BY <2>4, <2>5
<1> QED BY <1>1, PassedAlways, PTL

\* No callback runs once Shutdown has returned, whoever dispatches: every
\* thread in the vector has been joined (event_hub.h:142-144).
THEOREM NoCallbackCorrect == Spec => NoCallbackAfterShutdown
<1>1. IInv /\ PassedInv /\ [Next]_vars => [main_pc = "done" => UNCHANGED delivered]_vars
  <2> SUFFICES ASSUME IInv, PassedInv, Next, main_pc = "done" PROVE UNCHANGED delivered
    OBVIOUS
  <2>1. ASSUME NEW i \in Subscribers PROVE ~HandleEvent(i)
    <3>1. ThreadAt(i) /\ PassedAt(i)
      BY DEF IInv, ThreadInv, PassedInv
    <3> QED BY <3>1 DEF ThreadAt, PassedAt, HandleEvent
  <2> QED BY <2>1 DEF Next, DispatchEvent, Subscribe, Waiting, StartWaiting, PollQueue, StopWaiting,
                      Shutdown, Stopping, StopSetFlag, StopNotify, StopJoin, ShutdownReturns, Finished,
                      PushEvent, ThreadLoop, PopEvent, ExitLoop, FindNothing, Block, CountOut,
                      WakeSpuriously, vars, thread_vars
<1> QED BY <1>1, PassedAlways, PTL DEF Spec, NoCallbackAfterShutdown

\* A subscriber is called with the next event it has not had, or the step
\* is none of the bus's business: the hub implements EventBus.
THEOREM Refinement == Spec => ImplementsBus
<1>1. Init => Bus!Init
  BY DEF Init, Bus!Init, Subscribers
<1>2. IInv /\ [Next]_vars => [Bus!Next]_(Bus!bus)
  <2> SUFFICES ASSUME IInv, [Next]_vars PROVE [Bus!Next]_(Bus!bus)
    OBVIOUS
  <2> USE DEF Bus!bus
  <2>1. CASE DispatchEvent
    BY <2>1 DEF DispatchEvent, Bus!Next, Bus!Publish, thread_vars, main_vars
  <2>2. CASE Subscribe
    BY <2>2 DEF Subscribe, Bus!Next, Bus!Join
  <2>3. CASE MainStep \/ UNCHANGED vars
    BY <2>3 DEF MainStep, StartWaiting, PollQueue, StopWaiting, Shutdown, StopSetFlag, StopNotify,
                StopJoin, ShutdownReturns, Finished, vars, thread_vars, main_vars
  <2>4. ASSUME NEW i \in Subscribers, HandleEvent(i) PROVE Bus!Deliver(i)
    <3>1. TypeOK /\ ThreadInv /\ PositionInv
      BY DEF IInv
    <3>2. i <= message_queues /\ PositionAt(i) /\ pc[i] = "handling"
      BY <2>4, <3>1 DEF HandleEvent, ThreadInv, ThreadAt, PositionInv
    <3>3. /\ current[i] = subscribed_at[i] + Len(delivered[i]) + 1
          /\ Popped(i) = current[i]
          /\ Popped(i) + Len(events_queue[i]) = Pushed(i)
      BY <3>2 DEF PositionAt, Popped
    <3>4. /\ current[i] \in Nat /\ Len(events_queue[i]) \in Nat /\ dispatched \in Nat
          /\ Pushed(i) <= dispatched
      BY <3>1 DEF TypeOK, Pushed
    <3>5. subscribed_at[i] + Len(delivered[i]) + 1 <= dispatched
      BY <3>3, <3>4
    <3> QED BY <2>4, <3>2, <3>3, <3>5 DEF HandleEvent, Bus!Deliver, main_vars
  <2>5. ASSUME NEW i \in Subscribers, PushEvent(i) \/ ThreadLoop(i) \/ WakeSpuriously(i)
        PROVE  [Bus!Next]_(Bus!bus)
    <3>1. CASE HandleEvent(i)
      BY <2>4, <3>1 DEF Bus!Next, Subscribers
    <3>2. CASE ~HandleEvent(i)
      BY <2>5, <3>2 DEF PushEvent, ThreadLoop, PopEvent, ExitLoop, FindNothing, Block, CountOut,
                        WakeSpuriously, main_vars
    <3> QED BY <3>1, <3>2
  <2> QED BY <2>1, <2>2, <2>3, <2>5 DEF Next, MainStep, Waiting, Stopping
<1> QED BY <1>1, <1>2, Inductive, PTL DEF Spec, ImplementsBus, Bus!Spec

=============================================================================
