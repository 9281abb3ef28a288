-------------------------- MODULE StrategyTestProofs --------------------------
(***************************************************************************)
(* What is proved of a replay on a jumping clock, for all recordings, plan *)
(* times and interleavings.  Three things carry the proofs: the transport  *)
(* bit is set exactly while some queue holds an event, and a thread that   *)
(* is at work holds one (CountInv, StageInv); the clock is never behind    *)
(* the last event that main let through, and nothing in the program is     *)
(* later than that event (ClockInv); every plan handed over has a report,  *)
(* or is the one the order plan manager still holds (PlanInv).             *)
(***************************************************************************)
EXTENDS StrategyTest, SequenceTheorems, TLAPS

Events == [kind : Kinds, received_timestamp : 1..MaxTime]
Stages == {"idle", "working", "worked", "handled"}

\* Where main has read an event that is not yet let through, and where it has
\* one in hand.
Holding == {"choose", "jump", "wait", "waiting"}
Forwarding == {"provider", "analyzer"}
AtRest == {"read", "stop provider", "stop analyzer", "stop emulator", "stop manager", "report",
           "done", "exited"}

TypeInv ==
  /\ recording \in Recordings /\ is_enabled_ts_jump \in BOOLEAN
  /\ main_pc \in Holding \cup Forwarding \cup AtRest
  /\ position \in 0..Len(recording)
  /\ now \in 0..MaxTime
  /\ units_busy \subseteq Units
  /\ queue \in [Threads -> Seq(Events)]
  /\ stage \in [Threads -> Stages]
  /\ book_ts \in 0..MaxTime /\ last_sent \in 0..MaxTime /\ order_plan_info \in 0..MaxTime
  /\ plan_pc \in {"idle", "working", "calling", "reported", "release"}
  /\ order_plan_start_time \in 0..MaxTime
  /\ reports \in Seq(1..MaxTime)

\* The counter is the number of events, and the transport bit its sign.
CountInv ==
  /\ total_event_count = Len(queue["provider"]) + Len(queue["analyzer"])
                           + Len(queue["emulator"]) + Len(queue["manager"])
  /\ "kTransport" \in units_busy <=> total_event_count > 0

\* A thread keeps the event it handles at the head of its queue; between
\* main's look at the units and its jump nothing can come in.
StageInv ==
  /\ \A t \in Threads : stage[t] # "idle" => queue[t] # <<>>
  /\ main_pc = "jump" => Nothing

\* The time of the last event main has let through.
LetThrough == IF main_pc \in Holding THEN position - 1 ELSE position
Come == IF LetThrough = 0 THEN 0 ELSE recording[LetThrough].received_timestamp

ClockInv ==
  /\ position = 0 => now = 0
  /\ main_pc \in Holding \cup Forwarding => position # 0
  /\ Come <= now
  /\ \A t \in Threads : \A k \in 1..Len(queue[t]) : queue[t][k].received_timestamp <= Come
  /\ order_plan_info <= Come

PlanInv ==
  /\ plan_pc # "idle" => order_plan_info # 0
  /\ "kOrderPlanManager" \in units_busy <=> plan_pc \in {"working", "calling", "reported"}
  /\ order_plan_start_time # 0 <=> plan_pc \in {"working", "calling", "reported"}
  /\ order_plan_start_time # 0 => order_plan_info <= order_plan_start_time
  /\ accepted = Len(reports)
       + (IF order_plan_info # 0 /\ plan_pc \in {"idle", "working", "calling"} THEN 1 ELSE 0)
  /\ main_pc = "done" => reported = Len(reports)

\* The inductive invariant.
IInv == TypeInv /\ CountInv /\ StageInv /\ ClockInv /\ PlanInv

-----------------------------------------------------------------------------
(* Recordings, queues and the clock.                                       *)

\* An event of a recording has a time, and none earlier than the one before.
LEMMA RecordedEvent ==
  ASSUME TypeInv, NEW k \in 1..Len(recording)
  PROVE  /\ recording[k] \in Events /\ recording[k].received_timestamp \in 1..MaxTime
         /\ k # 1 => recording[k - 1].received_timestamp <= recording[k].received_timestamp
<1>1. recording \in Recordings
  BY DEF TypeInv
<1>2. /\ recording \in Seq(Events)
      /\ \A j \in 2..Len(recording) : recording[j - 1].received_timestamp <= recording[j].received_timestamp
  BY <1>1, RecordingConstants DEF RecordingConstants, Events
<1>3. recording[k] \in Events
  BY <1>2, ElementOfSeq
<1>4. recording[k].received_timestamp \in 1..MaxTime
  BY <1>3 DEF Events
<1> QED BY <1>2, <1>3, <1>4

\* The event a thread has at the head of its queue.
LEMMA HeadEvent ==
  ASSUME TypeInv, NEW t \in Threads, queue[t] # <<>>
  PROVE  /\ queue[t] \in Seq(Events) /\ Len(queue[t]) \in Nat \ {0}
         /\ Event(t) = queue[t][1] /\ Event(t) \in Events
         /\ Event(t).received_timestamp \in 1..MaxTime
<1>1. queue[t] \in Seq(Events)
  BY DEF TypeInv
<1>2. Len(queue[t]) \in Nat \ {0}
  BY <1>1, EmptySeq
<1>3. Event(t) = queue[t][1]
  BY <1>1, <1>2 DEF Event
<1>4. Event(t) \in Events
  BY <1>1, <1>2, <1>3, ElementOfSeq
<1> QED BY <1>1, <1>2, <1>3, <1>4 DEF Events

\* The last event let through is not later than the one main holds back.
LEMMA ComeIsATime ==
  ASSUME TypeInv, main_pc \in Holding \cup Forwarding => position # 0
  PROVE  /\ Come \in 0..MaxTime
         /\ main_pc \in Holding => next_data_ts \in 1..MaxTime /\ Come <= next_data_ts
         /\ main_pc \notin Holding /\ position # 0 => Come = next_data_ts /\ Come \in 1..MaxTime
<1>1. position \in 0..Len(recording) /\ Len(recording) \in Nat /\ MaxTime \in Nat
  <2>1. recording \in Seq(Events)
    BY RecordingConstants DEF RecordingConstants, TypeInv, Events
  <2> QED BY <2>1, RecordingConstants DEF TypeInv, RecordingConstants
<1>2. ASSUME position # 0 PROVE position \in 1..Len(recording) /\ next_data_ts \in 1..MaxTime
  <2>1. position \in 1..Len(recording)
    BY <1>1, <1>2
  <2> QED BY <2>1, RecordedEvent DEF next_data_ts
<1>3. CASE main_pc \in Holding /\ position # 1
  <2>1. position \in 1..Len(recording) /\ position - 1 \in 1..Len(recording)
    BY <1>1, <1>2, <1>3
  <2>2. /\ recording[position - 1].received_timestamp \in 1..MaxTime
        /\ recording[position].received_timestamp \in 1..MaxTime
        /\ recording[position - 1].received_timestamp <= recording[position].received_timestamp
    BY <2>1, <1>3, RecordedEvent
  <2> QED BY <1>1, <1>3, <2>1, <2>2 DEF Come, LetThrough, next_data_ts
<1>4. CASE main_pc \in Holding /\ position = 1
  <2>1. next_data_ts \in 1..MaxTime
    BY <1>2, <1>4
  <2>2. Come = 0
    BY <1>4 DEF Come, LetThrough
  <2> QED BY <1>1, <1>4, <2>1, <2>2
<1>5. CASE main_pc \notin Holding
  BY <1>1, <1>2, <1>5 DEF Come, LetThrough, next_data_ts
<1> QED BY <1>3, <1>4, <1>5

\* The sum of four lengths.
LEMMA FourLengths ==
  ASSUME NEW p \in Nat, NEW a \in Nat, NEW l \in Nat, NEW m \in Nat, NEW n, n = p + a + l + m
  PROVE  n \in Nat /\ (n = 0 => p = 0 /\ a = 0 /\ l = 0 /\ m = 0)
OBVIOUS

\* A push adds one event to one queue and leaves the transport unit busy.
LEMMA Push ==
  ASSUME TypeInv, CountInv, NEW t \in Threads, NEW e \in Events, PushEvent(t, e)
  PROVE  /\ queue' \in [Threads -> Seq(Events)]
         /\ units_busy' = units_busy \cup {"kTransport"}
         /\ CountInv'
         /\ \A u \in Threads : queue[u] # <<>> => queue'[u] # <<>>
         /\ \A u \in Threads : \A k \in 1..Len(queue'[u]) :
              (k \in 1..Len(queue[u]) /\ queue'[u][k] = queue[u][k]) \/ queue'[u][k] = e
<1>1. /\ queue \in [Threads -> Seq(Events)]
      /\ queue' = [queue EXCEPT ![t] = Append(queue[t], e)]
      /\ total_event_count' = total_event_count + 1
      /\ units_busy' = IF total_event_count = 0 THEN units_busy \cup {"kTransport"} ELSE units_busy
  BY DEF TypeInv, PushEvent, SetBusy
<1>2. /\ queue[t] \in Seq(Events) /\ Append(queue[t], e) \in Seq(Events)
      /\ Len(queue[t]) \in Nat /\ Len(Append(queue[t], e)) = Len(queue[t]) + 1
      /\ \A k \in 1..Len(queue[t]) : Append(queue[t], e)[k] = queue[t][k]
      /\ Append(queue[t], e)[Len(queue[t]) + 1] = e
  BY <1>1, AppendProperties
<1>3. queue' \in [Threads -> Seq(Events)]
  BY <1>1, <1>2
<1>4. PICK p \in Nat, a \in Nat, l \in Nat, m \in Nat :
        /\ p = Len(queue["provider"]) /\ a = Len(queue["analyzer"])
        /\ l = Len(queue["emulator"]) /\ m = Len(queue["manager"])
        /\ total_event_count = p + a + l + m
  <2>1. \A u \in Threads : Len(queue[u]) \in Nat
    BY <1>1
  <2>2. /\ Len(queue["provider"]) \in Nat /\ Len(queue["analyzer"]) \in Nat
        /\ Len(queue["emulator"]) \in Nat /\ Len(queue["manager"]) \in Nat
    BY <2>1 DEF Threads
  <2> QED BY <2>2 DEF CountInv
<1>5. units_busy' = units_busy \cup {"kTransport"}
  <2>1. "kTransport" \in units_busy <=> total_event_count > 0
    BY DEF CountInv
  <2>2. total_event_count \in Nat
    <3>1. total_event_count = p + a + l + m
      BY <1>4
    <3> QED BY <3>1, FourLengths
  <2>3. CASE total_event_count = 0
    BY <1>1, <2>3
  <2>4. CASE total_event_count # 0
    <3>1. total_event_count > 0
      BY <2>2, <2>4
    <3> QED BY <1>1, <2>1, <2>4, <3>1
  <2> QED BY <2>3, <2>4
<1>6. \A u \in Threads : u # t => queue'[u] = queue[u]
  BY <1>1
<1>7. queue'[t] = Append(queue[t], e) /\ Len(queue'[t]) = Len(queue[t]) + 1
  BY <1>1, <1>2
<1>8. CountInv'
  <2>1. /\ Len(queue'["provider"]) = IF t = "provider" THEN p + 1 ELSE p
        /\ Len(queue'["analyzer"]) = IF t = "analyzer" THEN a + 1 ELSE a
        /\ Len(queue'["emulator"]) = IF t = "emulator" THEN l + 1 ELSE l
        /\ Len(queue'["manager"]) = IF t = "manager" THEN m + 1 ELSE m
    BY <1>4, <1>6, <1>7 DEF Threads
  <2>3. t \in {"provider", "analyzer", "emulator", "manager"}
    BY DEF Threads
  <2>4. total_event_count' = Len(queue'["provider"]) + Len(queue'["analyzer"])
                              + Len(queue'["emulator"]) + Len(queue'["manager"])
    <3>1. total_event_count' = p + a + l + m + 1
      BY <1>1, <1>4
    <3>2. CASE t = "provider"
      BY <2>1, <3>1, <3>2
    <3>3. CASE t = "analyzer"
      BY <2>1, <3>1, <3>3
    <3>4. CASE t = "emulator"
      BY <2>1, <3>1, <3>4
    <3>5. CASE t = "manager"
      BY <2>1, <3>1, <3>5
    <3> QED BY <2>3, <3>2, <3>3, <3>4, <3>5
  <2>2. total_event_count' > 0 /\ "kTransport" \in units_busy'
    <3>1. total_event_count \in Nat
      <4>1. total_event_count = p + a + l + m
        BY <1>4
      <4> QED BY <4>1, FourLengths
    <3>2. total_event_count' > 0
      BY <1>1, <3>1
    <3> QED BY <1>5, <3>2
  <2> QED BY <2>2, <2>4 DEF CountInv
<1>9. ASSUME NEW u \in Threads
      PROVE  /\ queue[u] # <<>> => queue'[u] # <<>>
             /\ \A k \in 1..Len(queue'[u]) :
                  (k \in 1..Len(queue[u]) /\ queue'[u][k] = queue[u][k]) \/ queue'[u][k] = e
  <2>1. CASE u = t
    <3>1. queue'[u] # <<>>
      BY <1>2, <1>7, <2>1
    <3>2. ASSUME NEW k \in 1..Len(queue'[u])
          PROVE  (k \in 1..Len(queue[u]) /\ queue'[u][k] = queue[u][k]) \/ queue'[u][k] = e
      <4>1. CASE k = Len(queue[u]) + 1
        BY <1>2, <1>7, <2>1, <4>1
      <4>2. CASE k # Len(queue[u]) + 1
        <5>1. k \in 1..Len(queue[u])
          BY <1>2, <1>7, <2>1, <4>2
        <5> QED BY <1>2, <1>7, <2>1, <5>1
      <4> QED BY <4>1, <4>2
    <3> QED BY <3>1, <3>2
  <2>2. CASE u # t
    BY <1>6, <2>2
  <2> QED BY <2>1, <2>2
<1> QED BY <1>3, <1>5, <1>8, <1>9

\* With the transport unit ready no queue holds an event.
LEMMA NothingQueued == TypeInv /\ CountInv /\ "kTransport" \notin units_busy => Nothing
<1> SUFFICES ASSUME TypeInv, CountInv, "kTransport" \notin units_busy
             PROVE  Nothing
  OBVIOUS
<1>1. queue \in [Threads -> Seq(Events)]
  BY DEF TypeInv
<1>2. PICK p \in Nat, a \in Nat, l \in Nat, m \in Nat :
        /\ p = Len(queue["provider"]) /\ a = Len(queue["analyzer"])
        /\ l = Len(queue["emulator"]) /\ m = Len(queue["manager"])
        /\ total_event_count = p + a + l + m
  <2>1. \A u \in Threads : Len(queue[u]) \in Nat
    BY <1>1
  <2>2. /\ Len(queue["provider"]) \in Nat /\ Len(queue["analyzer"]) \in Nat
        /\ Len(queue["emulator"]) \in Nat /\ Len(queue["manager"]) \in Nat
    BY <2>1 DEF Threads
  <2> QED BY <2>2 DEF CountInv
<1>3. ~(total_event_count > 0)
  BY DEF CountInv
<1>4. p = 0 /\ a = 0 /\ l = 0 /\ m = 0
  <2>1. total_event_count = p + a + l + m
    BY <1>2
  <2>2. total_event_count \in Nat
    BY <2>1, FourLengths
  <2>3. total_event_count = 0
    BY <1>3, <2>2
  <2> QED BY <2>1, <2>3, FourLengths
<1>5. \A u \in Threads : Len(queue[u]) = 0
  BY <1>2, <1>4 DEF Threads
<1>6. \A u \in Threads : queue[u] \in Seq(Events)
  BY <1>1
<1> QED BY <1>5, <1>6, EmptySeq DEF Nothing

-----------------------------------------------------------------------------
(* What a step leaves alone keeps its part of the invariant.               *)

LEMMA CountSame ==
  ASSUME CountInv, UNCHANGED <<total_event_count, queue>>,
         "kTransport" \in units_busy' <=> "kTransport" \in units_busy
  PROVE  CountInv'
BY DEF CountInv

LEMMA StageSame ==
  ASSUME StageInv, UNCHANGED <<queue, stage>>, main_pc' = "jump" => main_pc = "jump" \/ Nothing
  PROVE  StageInv'
BY DEF StageInv, Nothing

LEMMA ClockSame ==
  ASSUME ClockInv, UNCHANGED <<recording, main_pc, position, queue, order_plan_info>>,
         Come <= now', position = 0 => now' = 0
  PROVE  ClockInv'
<1>1. Come' = Come
  BY DEF Come, LetThrough
<1> QED BY <1>1 DEF ClockInv

LEMMA PlanSame ==
  ASSUME PlanInv, UNCHANGED <<plan_vars, order_plan_info, accepted, reported>>,
         "kOrderPlanManager" \in units_busy' <=> "kOrderPlanManager" \in units_busy,
         main_pc' = "done" => main_pc = "done"
  PROVE  PlanInv'
BY DEF PlanInv, plan_vars

\* Where a thread is at work, or a queue holds something, main is not about to
\* jump.
LEMMA NoJumpWhileQueued ==
  ASSUME StageInv, NEW t \in Threads, queue[t] # <<>>
  PROVE  main_pc # "jump"
BY DEF StageInv, Nothing

\* A unit that becomes ready may let the clock jump to the event main holds,
\* which is not earlier than what was let through.
LEMMA Ready ==
  ASSUME TypeInv, ClockInv, NEW units, SetReady(units)
  PROVE  /\ units_busy' = units_busy \ units /\ units_busy' \subseteq Units
         /\ now' \in 0..MaxTime /\ Come <= now' /\ (position = 0 => now' = 0)
         /\ now' # now => main_pc = "waiting" /\ units_busy' = {}
<1>1. units_busy' = units_busy \ units /\ units_busy' \subseteq Units
  BY DEF SetReady, TypeInv
<1>2. \/ now' = now
      \/ main_pc = "waiting" /\ units_busy' = {} /\ now' = next_data_ts
  BY DEF SetReady, OnAllUnitsReady, JumpToFirstAwaitingTimestamp
<1>3. CASE now' = now
  BY <1>1, <1>3 DEF TypeInv, ClockInv
<1>4. CASE main_pc = "waiting" /\ units_busy' = {} /\ now' = next_data_ts
  <2>1. main_pc \in Holding
    BY <1>4 DEF Holding
  <2>2. position # 0
    BY <2>1 DEF ClockInv
  <2>3. next_data_ts \in 1..MaxTime /\ Come <= next_data_ts
    BY <2>1, <2>2, ComeIsATime
  <2>4. MaxTime \in Nat
    BY RecordingConstants DEF RecordingConstants
  <2>5. now' \in 0..MaxTime
    BY <1>4, <2>3, <2>4
  <2> QED BY <1>1, <1>4, <2>2, <2>3, <2>5
<1> QED BY <1>2, <1>3, <1>4

\* An event pushed that is not later than what main has let through.
LEMMA PushClock ==
  ASSUME TypeInv, CountInv, ClockInv, NEW t \in Threads, NEW e \in Events, PushEvent(t, e),
         e.received_timestamp <= Come, Come' = Come,
         UNCHANGED <<recording, position, now, order_plan_info>>,
         main_pc' \in Holding \cup Forwarding => position # 0
  PROVE  ClockInv'
<1>1. \A u \in Threads : \A k \in 1..Len(queue'[u]) :
        (k \in 1..Len(queue[u]) /\ queue'[u][k] = queue[u][k]) \/ queue'[u][k] = e
  BY Push
<1>2. \A u \in Threads : \A k \in 1..Len(queue[u]) : queue[u][k].received_timestamp <= Come
  BY DEF ClockInv
<1>3. \A u \in Threads : \A k \in 1..Len(queue'[u]) : queue'[u][k].received_timestamp <= Come'
  BY <1>1, <1>2
<1>4. (position = 0 => now = 0) /\ Come <= now /\ order_plan_info <= Come
  BY DEF ClockInv
<1> QED BY <1>3, <1>4 DEF ClockInv

-----------------------------------------------------------------------------
(* The main thread.                                                        *)

LEMMA InitInv == Init => IInv
<1> SUFFICES ASSUME Init PROVE IInv
  OBVIOUS
<1>1. MaxTime \in Nat /\ recording \in Recordings /\ recording \in Seq(Events)
  BY RecordingConstants DEF RecordingConstants, Init, Events
<1>2. \A t \in Threads : queue[t] = <<>> /\ stage[t] = "idle"
  BY DEF Init
<1>3. TypeInv
  <2>1. Len(recording) \in Nat
    BY <1>1
  <2>2. position \in 0..Len(recording) /\ now \in 0..MaxTime
    BY <1>1, <2>1 DEF Init
  <2>3. queue \in [Threads -> Seq(Events)] /\ stage \in [Threads -> Stages]
    BY DEF Init, Stages
  <2>4. reports \in Seq(1..MaxTime)
    BY DEF Init
  <2>5. /\ book_ts \in 0..MaxTime /\ last_sent \in 0..MaxTime /\ order_plan_info \in 0..MaxTime
        /\ order_plan_start_time \in 0..MaxTime
    BY <1>1 DEF Init
  <2> QED BY <2>2, <2>3, <2>4, <2>5 DEF TypeInv, Init, AtRest
<1>4. CountInv
  <2>1. /\ Len(queue["provider"]) = 0 /\ Len(queue["analyzer"]) = 0
        /\ Len(queue["emulator"]) = 0 /\ Len(queue["manager"]) = 0
    BY <1>2 DEF Threads
  <2>2. total_event_count = 0 /\ "kTransport" \notin units_busy
    BY DEF Init
  <2> QED BY <2>1, <2>2 DEF CountInv
<1>5. StageInv
  BY <1>2 DEF StageInv, Init
<1>6. ClockInv
  <2>1. main_pc \notin Holding \cup Forwarding /\ position = 0 /\ now = 0 /\ order_plan_info = 0
    BY DEF Init, Holding, Forwarding
  <2>2. Come = 0
    BY <2>1 DEF Come, LetThrough
  <2>3. \A t \in Threads : \A k \in 1..Len(queue[t]) : FALSE
    BY <1>2
  <2> QED BY <2>1, <2>2, <2>3 DEF ClockInv
<1>7. PlanInv
  BY DEF PlanInv, Init
<1> QED BY <1>3, <1>4, <1>5, <1>6, <1>7 DEF IInv

\* The steps of main that move it alone.
QuietMain ==
  \/ ChooseJump \/ ChooseWait \/ StartWaiting \/ WaitUntil \/ EndOfRecording \/ Shutdown
  \/ GenerateTotalReport

LEMMA QuietMainShape ==
  ASSUME TypeInv, CountInv, QuietMain
  PROVE  /\ UNCHANGED <<recording, is_enabled_ts_jump, position, now, units_busy,
                        total_event_count, queue, stage, thread_vars, plan_vars>>
         /\ main_pc' \in Holding \cup Forwarding \cup AtRest
         /\ main_pc' = "jump" => Nothing
         /\ main_pc' = "done" => reported' = Len(reports)
         /\ main_pc' \in Holding \cup Forwarding => main_pc \in Holding
         /\ \/ main_pc' \in Holding <=> main_pc \in Holding
            \/ main_pc \in Holding /\ main_pc' = "provider" /\ next_data_ts <= now
<1>1. CASE ChooseJump
  <2>1. "kTransport" \notin units_busy
    BY <1>1 DEF ChooseJump
  <2>2. Nothing
    BY <2>1, NothingQueued
  <2> QED BY <1>1, <2>2 DEF ChooseJump, MainGoes, clock_vars, Holding, Forwarding
<1>2. CASE ChooseWait
  BY <1>2 DEF ChooseWait, MainGoes, clock_vars, Holding, Forwarding
<1>3. CASE StartWaiting
  BY <1>3 DEF StartWaiting, MainGoes, clock_vars, Holding, Forwarding
<1>4. CASE WaitUntil
  <2>1. now \in Nat
    BY DEF TypeInv
  <2>2. /\ UNCHANGED <<recording, is_enabled_ts_jump, position, now, units_busy,
                       total_event_count, queue, stage, thread_vars, plan_vars>>
        /\ main_pc \in {"wait", "waiting"} /\ main_pc' = "provider"
        /\ now >= next_data_ts
    BY <1>4 DEF WaitUntil, MainGoes, clock_vars
  <2>3. next_data_ts <= now
    BY <2>2
  <2> QED BY <2>2, <2>3 DEF Holding, Forwarding
<1>5. CASE EndOfRecording
  BY <1>5 DEF EndOfRecording, MainGoes, clock_vars, Holding, Forwarding, AtRest
<1>6. CASE Shutdown
  BY <1>6 DEF Shutdown, MainGoes, clock_vars, Holding, Forwarding, AtRest
<1>7. CASE GenerateTotalReport
  BY <1>7 DEF GenerateTotalReport, MainGoes, clock_vars, Holding, Forwarding, AtRest
<1> QED BY <1>1, <1>2, <1>3, <1>4, <1>5, <1>6, <1>7 DEF QuietMain

LEMMA QuietMainKeeps ==
  ASSUME IInv, ~Ended, QuietMain
  PROVE  IInv'
<1>1. TypeInv /\ CountInv /\ StageInv /\ ClockInv /\ PlanInv
  BY DEF IInv
<1>2. /\ UNCHANGED <<recording, is_enabled_ts_jump, position, now, units_busy,
                     total_event_count, queue, stage, thread_vars, plan_vars>>
      /\ main_pc' \in Holding \cup Forwarding \cup AtRest
      /\ main_pc' = "jump" => Nothing
      /\ main_pc' = "done" => reported' = Len(reports)
      /\ main_pc' \in Holding \cup Forwarding => main_pc \in Holding
      /\ \/ main_pc' \in Holding <=> main_pc \in Holding
         \/ main_pc \in Holding /\ main_pc' = "provider" /\ next_data_ts <= now
  BY <1>1, QuietMainShape
<1>3. TypeInv'
  BY <1>1, <1>2 DEF TypeInv, thread_vars, plan_vars
<1>4. CountInv'
  BY <1>1, <1>2, CountSame
<1>5. StageInv'
  BY <1>1, <1>2, StageSame
<1>6. Come <= Come' /\ Come' <= now /\ Come' \in 0..MaxTime
  <2>1. Come \in 0..MaxTime /\ now \in 0..MaxTime /\ Come <= now /\ MaxTime \in Nat
    BY <1>1, ComeIsATime, RecordingConstants DEF ClockInv, TypeInv, RecordingConstants
  <2>2. CASE main_pc' \in Holding <=> main_pc \in Holding
    <3>1. Come' = Come
      BY <1>2, <2>2 DEF Come, LetThrough
    <3> QED BY <2>1, <3>1
  <2>3. CASE main_pc \in Holding /\ main_pc' = "provider" /\ next_data_ts <= now
    <3>1. position # 0
      BY <1>1, <2>3 DEF ClockInv
    <3>2. Come <= next_data_ts /\ next_data_ts \in 1..MaxTime
      BY <1>1, <2>3, <3>1, ComeIsATime
    <3>3. Come' = next_data_ts
      BY <1>2, <2>3, <3>1 DEF Come, LetThrough, next_data_ts, Holding
    <3>4. Come' \in 0..MaxTime
      BY <2>1, <3>2, <3>3
    <3> QED BY <2>3, <3>2, <3>3, <3>4
  <2> QED BY <1>2, <2>2, <2>3
<1>7. ClockInv'
  <2>1. (position = 0 => now = 0) /\ (main_pc \in Holding => position # 0)
    BY <1>1 DEF ClockInv
  <2>2. position' = position /\ now' = now /\ queue' = queue /\ order_plan_info' = order_plan_info
    BY <1>2 DEF thread_vars
  <2>3. /\ Come \in 0..MaxTime /\ MaxTime \in Nat /\ order_plan_info \in 0..MaxTime
        /\ order_plan_info <= Come
    BY <1>1, ComeIsATime, RecordingConstants DEF ClockInv, TypeInv, RecordingConstants
  <2>4. Come' \in 0..MaxTime
    BY <1>6
  <2>5. order_plan_info' <= Come'
    BY <1>6, <2>2, <2>3, <2>4
  <2>6. ASSUME NEW t \in Threads, NEW k \in 1..Len(queue'[t])
        PROVE  queue'[t][k].received_timestamp <= Come'
    <3>1. queue[t] \in Seq(Events) /\ k \in 1..Len(queue[t])
      BY <1>1, <2>2 DEF TypeInv
    <3>2. queue[t][k].received_timestamp \in 1..MaxTime
      <4>1. queue[t][k] \in Events
        BY <3>1, ElementOfSeq
      <4> QED BY <4>1 DEF Events
    <3>3. queue[t][k].received_timestamp <= Come
      BY <1>1, <3>1 DEF ClockInv
    <3> QED BY <1>6, <2>2, <2>3, <2>4, <3>2, <3>3
  <2> QED BY <1>2, <1>6, <2>1, <2>2, <2>5, <2>6 DEF ClockInv
<1>8. PlanInv'
  <2>1. UNCHANGED <<plan_vars, order_plan_info, accepted, units_busy>>
    BY <1>2 DEF thread_vars
  <2> QED BY <1>1, <1>2, <2>1 DEF PlanInv, plan_vars
<1> QED BY <1>3, <1>4, <1>5, <1>7, <1>8 DEF IInv

\* Between main's look at the units and its jump nothing has come in.
LEMMA JumpToTimeKeeps ==
  ASSUME IInv, JumpToTime
  PROVE  IInv' /\ Nothing' /\ main_pc = "jump"
<1>1. TypeInv /\ CountInv /\ StageInv /\ ClockInv /\ PlanInv
  BY DEF IInv
<1>2. /\ main_pc = "jump" /\ main_pc' = "provider" /\ now' = next_data_ts
      /\ UNCHANGED <<recording, is_enabled_ts_jump, position, units_busy, total_event_count,
                     queue, stage, thread_vars, plan_vars, reported>>
  BY DEF JumpToTime, MainGoes
<1>3. main_pc \in Holding /\ position # 0
  BY <1>1, <1>2 DEF ClockInv, Holding
<1>4. Come \in 0..MaxTime /\ next_data_ts \in 1..MaxTime /\ Come <= next_data_ts /\ MaxTime \in Nat
  BY <1>1, <1>3, ComeIsATime, RecordingConstants DEF RecordingConstants
<1>5. Come' = next_data_ts
  BY <1>2, <1>3 DEF Come, LetThrough, next_data_ts, Holding
<1>6. Nothing /\ Nothing'
  BY <1>1, <1>2 DEF StageInv, Nothing
<1>7. TypeInv'
  <2>1. now' \in 0..MaxTime /\ main_pc' \in Forwarding
    BY <1>2, <1>4 DEF Forwarding
  <2> QED BY <1>1, <1>2, <2>1 DEF TypeInv, thread_vars, plan_vars
<1>8. CountInv'
  BY <1>1, <1>2, CountSame
<1>9. StageInv'
  BY <1>1, <1>2, StageSame
<1>10. ClockInv'
  <2>1. \A t \in Threads : Len(queue'[t]) = 0
    BY <1>6 DEF Nothing
  <2>2. \A t \in Threads : \A k \in 1..Len(queue'[t]) : FALSE
    BY <2>1
  <2>3. order_plan_info' <= Come'
    <3>1. order_plan_info \in 0..MaxTime /\ order_plan_info <= Come /\ order_plan_info' = order_plan_info
      BY <1>1, <1>2 DEF TypeInv, ClockInv, thread_vars
    <3> QED BY <1>4, <1>5, <3>1
  <2>4. Come' <= now'
    BY <1>2, <1>4, <1>5
  <2> QED BY <1>2, <1>3, <2>2, <2>3, <2>4 DEF ClockInv
<1>11. PlanInv'
  <2>1. UNCHANGED <<plan_vars, order_plan_info, accepted, reported, units_busy>>
    BY <1>2 DEF thread_vars
  <2> QED BY <1>1, <1>2, <2>1, PlanSame
<1> QED BY <1>2, <1>6, <1>7, <1>8, <1>9, <1>10, <1>11 DEF IInv

LEMMA ReadNextKeeps ==
  ASSUME IInv, ReadNext
  PROVE  IInv' /\ (now # 0 => now' = now)
<1>1. TypeInv /\ CountInv /\ StageInv /\ ClockInv /\ PlanInv
  BY DEF IInv
<1>2. /\ main_pc = "read" /\ main_pc' = "choose" /\ position < Len(recording)
      /\ position' = position + 1
      /\ now' = IF position = 0 THEN recording[1].received_timestamp ELSE now
      /\ UNCHANGED <<recording, is_enabled_ts_jump, units_busy, total_event_count,
                     queue, stage, thread_vars, plan_vars, reported>>
  BY DEF ReadNext, MainGoes
<1>3. position \in Nat /\ Len(recording) \in Nat /\ position + 1 \in 1..Len(recording)
  <2>1. recording \in Seq(Events)
    BY <1>1, RecordingConstants DEF RecordingConstants, TypeInv, Events
  <2>2. Len(recording) \in Nat /\ position \in 0..Len(recording)
    BY <1>1, <2>1 DEF TypeInv
  <2> QED BY <1>2, <2>2
<1>4. Come' = Come
  <2>1. LetThrough = position /\ LetThrough' = position
    BY <1>2, <1>3 DEF LetThrough, Holding
  <2> QED BY <1>2, <2>1 DEF Come
<1>5. now' \in 0..MaxTime /\ Come <= now' /\ (now # 0 => now' = now)
  <2>1. CASE position = 0
    <3>1. 1 \in 1..Len(recording) /\ MaxTime \in Nat
      BY <1>3, <2>1, RecordingConstants DEF RecordingConstants
    <3>2. now' \in 1..MaxTime
      BY <1>1, <1>2, <2>1, <3>1, RecordedEvent
    <3>3. Come = 0
      BY <1>2, <2>1 DEF Come, LetThrough, Holding
    <3>4. now = 0
      BY <1>1, <2>1 DEF ClockInv
    <3> QED BY <3>1, <3>2, <3>3, <3>4
  <2>2. CASE position # 0
    BY <1>1, <1>2, <2>2 DEF TypeInv, ClockInv
  <2> QED BY <2>1, <2>2
<1>6. TypeInv'
  <2>1. position' \in 0..Len(recording) /\ main_pc' \in Holding
    BY <1>2, <1>3 DEF Holding
  <2> QED BY <1>1, <1>2, <1>5, <2>1 DEF TypeInv, thread_vars, plan_vars
<1>7. CountInv'
  BY <1>1, <1>2, CountSame
<1>8. StageInv'
  BY <1>1, <1>2, StageSame
<1>9. ClockInv'
  <2>1. position' # 0
    BY <1>2, <1>3
  <2> QED BY <1>1, <1>2, <1>4, <1>5, <2>1 DEF ClockInv, thread_vars
<1>10. PlanInv'
  <2>1. UNCHANGED <<plan_vars, order_plan_info, accepted, reported, units_busy>>
    BY <1>2 DEF thread_vars
  <2> QED BY <1>1, <1>2, <2>1, PlanSame
<1> QED BY <1>5, <1>6, <1>7, <1>8, <1>9, <1>10 DEF IInv

\* The event main forwards is the last it has let through.
LEMMA ForwardNextKeeps ==
  ASSUME IInv, ForwardNext
  PROVE  IInv'
<1>1. TypeInv /\ CountInv /\ StageInv /\ ClockInv /\ PlanInv
  BY DEF IInv
<1>2. /\ main_pc \in Forwarding /\ main_pc' \in {"analyzer", "read"}
      /\ UNCHANGED <<recording, is_enabled_ts_jump, position, now, stage, thread_vars, plan_vars,
                     reported>>
  BY DEF ForwardNext, MainGoes, Forwarding
<1>3. position # 0 /\ position \in 1..Len(recording)
  <2>1. position # 0
    BY <1>1, <1>2 DEF ClockInv
  <2>2. recording \in Seq(Events)
    BY <1>1, RecordingConstants DEF RecordingConstants, TypeInv, Events
  <2>3. Len(recording) \in Nat /\ position \in 0..Len(recording)
    BY <1>1, <2>2 DEF TypeInv
  <2> QED BY <2>1, <2>3
<1>4. PICK e \in Events : e = recording[position]
  BY <1>1, <1>3, RecordedEvent
<1>5. PICK t \in Threads : PushEvent(t, e)
  <2>1. CASE MainGoes("provider", "analyzer") /\ PushEvent("provider", recording[position])
    <3>1. PushEvent("provider", e)
      BY <1>4, <2>1 DEF PushEvent
    <3> QED BY <3>1 DEF Threads
  <2>2. CASE MainGoes("analyzer", "read") /\ PushEvent("analyzer", recording[position])
    <3>1. PushEvent("analyzer", e)
      BY <1>4, <2>2 DEF PushEvent
    <3> QED BY <3>1 DEF Threads
  <2> QED BY <2>1, <2>2 DEF ForwardNext
<1>6. /\ queue' \in [Threads -> Seq(Events)]
      /\ units_busy' = units_busy \cup {"kTransport"}
      /\ CountInv'
      /\ \A u \in Threads : queue[u] # <<>> => queue'[u] # <<>>
  BY <1>1, <1>5, Push
<1>7. TypeInv'
  <2>1. units_busy' \subseteq Units
    BY <1>1, <1>6 DEF TypeInv, Units
  <2>2. main_pc' \in Holding \cup Forwarding \cup AtRest
    BY <1>2 DEF Forwarding, AtRest
  <2> QED BY <1>1, <1>2, <1>6, <2>1, <2>2 DEF TypeInv, thread_vars, plan_vars
<1>8. StageInv'
  BY <1>1, <1>2, <1>6 DEF StageInv
<1>9. ClockInv'
  <2>1. main_pc \notin Holding /\ main_pc' \notin Holding
    BY <1>2 DEF Holding, Forwarding
  <2>2. Come = e.received_timestamp /\ Come' = Come /\ Come \in 0..MaxTime
    <3>1. Come = next_data_ts /\ Come \in 1..MaxTime
      BY <1>1, <1>3, <2>1, ComeIsATime DEF ClockInv
    <3>2. Come' = Come
      BY <1>2, <2>1 DEF Come, LetThrough
    <3> QED BY <1>4, <3>1, <3>2 DEF next_data_ts
  <2>3. e.received_timestamp <= Come
    BY <2>2
  <2> QED BY <1>1, <1>2, <1>3, <1>5, <2>2, <2>3, PushClock DEF thread_vars
<1>10. PlanInv'
  <2>1. UNCHANGED <<plan_vars, order_plan_info, accepted, reported>>
    BY <1>2 DEF thread_vars
  <2>2. "kOrderPlanManager" \in units_busy' <=> "kOrderPlanManager" \in units_busy
    BY <1>6
  <2> QED BY <1>1, <1>2, <2>1, <2>2, PlanSame
<1> QED BY <1>6, <1>7, <1>8, <1>9, <1>10 DEF IInv

-----------------------------------------------------------------------------
(* The threads: an event is taken up, handled, and counted out.            *)

LEMMA BeginHandlingKeeps ==
  ASSUME IInv, NEW t \in Threads, BeginHandling(t)
  PROVE  IInv'
<1>1. TypeInv /\ CountInv /\ StageInv /\ ClockInv /\ PlanInv
  BY DEF IInv
<1>2. /\ queue[t] # <<>>
      /\ UNCHANGED <<recording, is_enabled_ts_jump, main_pc, position, reported, now,
                     total_event_count, queue, thread_vars, plan_vars>>
  BY DEF BeginHandling, main_vars
<1>3. UnitOf[t] \subseteq Units \ {"kTransport", "kOrderPlanManager"}
  BY DEF Threads, UnitOf, Units
<1>4. \/ units_busy' = units_busy
      \/ units_busy' = units_busy \cup UnitOf[t]
  BY DEF BeginHandling, SetBusy
<1>5. /\ stage' \in [Threads -> Stages]
      /\ \A u \in Threads : u # t => stage'[u] = stage[u]
  <2>1. stage \in [Threads -> Stages]
    BY <1>1 DEF TypeInv
  <2>2. \/ stage' = [stage EXCEPT ![t] = "handled"]
        \/ stage' = [stage EXCEPT ![t] = "working"]
    BY DEF BeginHandling
  <2> QED BY <2>1, <2>2 DEF Stages
<1>6. TypeInv'
  <2>1. units_busy' \subseteq Units
    BY <1>1, <1>3, <1>4 DEF TypeInv
  <2> QED BY <1>1, <1>2, <1>5, <2>1 DEF TypeInv, thread_vars, plan_vars
<1>7. CountInv'
  BY <1>1, <1>2, <1>3, <1>4, CountSame
<1>8. StageInv'
  <2>1. \A u \in Threads : stage'[u] # "idle" => queue'[u] # <<>>
    BY <1>1, <1>2, <1>5 DEF StageInv
  <2>2. main_pc' # "jump"
    BY <1>1, <1>2, NoJumpWhileQueued
  <2> QED BY <2>1, <2>2 DEF StageInv
<1>9. ClockInv'
  <2>1. Come <= now' /\ (position = 0 => now' = 0)
    BY <1>1, <1>2 DEF ClockInv
  <2> QED BY <1>1, <1>2, <2>1, ClockSame DEF thread_vars
<1>10. PlanInv'
  BY <1>1, <1>2, <1>3, <1>4, PlanSame DEF thread_vars
<1> QED BY <1>6, <1>7, <1>8, <1>9, <1>10 DEF IInv

LEMMA EndHandlingKeeps ==
  ASSUME IInv, NEW t \in Threads, EndHandling(t)
  PROVE  IInv' /\ (now' # now => main_pc = "waiting" /\ units_busy' = {})
<1>1. TypeInv /\ CountInv /\ StageInv /\ ClockInv /\ PlanInv
  BY DEF IInv
<1>2. /\ stage[t] = "worked" /\ stage' = [stage EXCEPT ![t] = "handled"]
      /\ UNCHANGED <<recording, is_enabled_ts_jump, main_pc, position, reported,
                     total_event_count, queue, thread_vars, plan_vars>>
  BY DEF EndHandling, main_vars
<1>3. UnitOf[t] \subseteq Units \ {"kTransport", "kOrderPlanManager"}
  BY DEF Threads, UnitOf, Units
<1>4. /\ units_busy' = units_busy \ UnitOf[t] /\ units_busy' \subseteq Units
      /\ now' \in 0..MaxTime /\ Come <= now' /\ (position = 0 => now' = 0)
      /\ now' # now => main_pc = "waiting" /\ units_busy' = {}
  <2>1. CASE SetReady(UnitOf[t])
    BY <1>1, <2>1, Ready
  <2>2. CASE UnitOf[t] = {} /\ UNCHANGED clock_vars
    BY <1>1, <2>2 DEF clock_vars, TypeInv, ClockInv
  <2> QED BY <2>1, <2>2 DEF EndHandling
<1>5. /\ stage' \in [Threads -> Stages]
      /\ \A u \in Threads : stage'[u] # "idle" => stage[u] # "idle"
  <2>1. stage \in [Threads -> Stages]
    BY <1>1 DEF TypeInv
  <2> QED BY <1>2, <2>1 DEF Stages
<1>6. TypeInv'
  BY <1>1, <1>2, <1>4, <1>5 DEF TypeInv, thread_vars, plan_vars
<1>7. CountInv'
  BY <1>1, <1>2, <1>3, <1>4, CountSame
<1>8. StageInv'
  <2>1. \A u \in Threads : stage'[u] # "idle" => queue'[u] # <<>>
    BY <1>1, <1>2, <1>5 DEF StageInv
  <2>2. queue[t] # <<>>
    BY <1>1, <1>2 DEF StageInv
  <2>3. main_pc' # "jump"
    BY <1>1, <1>2, <2>2, NoJumpWhileQueued
  <2> QED BY <2>1, <2>3 DEF StageInv
<1>9. ClockInv'
  BY <1>1, <1>2, <1>4, ClockSame DEF thread_vars
<1>10. PlanInv'
  BY <1>1, <1>2, <1>3, <1>4, PlanSame DEF thread_vars
<1> QED BY <1>4, <1>6, <1>7, <1>8, <1>9, <1>10 DEF IInv

\* Counting an event out takes it from the head of its queue.
LEMMA Pop ==
  ASSUME TypeInv, CountInv, NEW t \in Threads, queue[t] # <<>>,
         queue' = [queue EXCEPT ![t] = Tail(queue[t])],
         total_event_count' = total_event_count - 1
  PROVE  /\ queue' \in [Threads -> Seq(Events)]
         /\ total_event_count > 0 /\ total_event_count' \in Nat
         /\ total_event_count' = Len(queue'["provider"]) + Len(queue'["analyzer"])
                                   + Len(queue'["emulator"]) + Len(queue'["manager"])
         /\ \A u \in Threads : u # t => queue'[u] = queue[u]
         /\ \A u \in Threads : \A k \in 1..Len(queue'[u]) :
              \E j \in 1..Len(queue[u]) : queue'[u][k] = queue[u][j]
<1>1. queue \in [Threads -> Seq(Events)]
  BY DEF TypeInv
<1>2. queue[t] \in Seq(Events) /\ Len(queue[t]) \in Nat \ {0}
  BY HeadEvent
<1>3. /\ Tail(queue[t]) \in Seq(Events) /\ Len(Tail(queue[t])) = Len(queue[t]) - 1
      /\ \A k \in 1..Len(Tail(queue[t])) : Tail(queue[t])[k] = queue[t][k + 1]
  BY <1>2, HeadTailProperties
<1>4. queue' \in [Threads -> Seq(Events)]
  BY <1>1, <1>3
<1>5. \A u \in Threads : u # t => queue'[u] = queue[u]
  BY <1>1
<1>6. queue'[t] = Tail(queue[t]) /\ Len(queue'[t]) = Len(queue[t]) - 1
  BY <1>1, <1>3
<1>7. PICK p \in Nat, a \in Nat, l \in Nat, m \in Nat :
        /\ p = Len(queue["provider"]) /\ a = Len(queue["analyzer"])
        /\ l = Len(queue["emulator"]) /\ m = Len(queue["manager"])
        /\ total_event_count = p + a + l + m
  <2>1. \A u \in Threads : Len(queue[u]) \in Nat
    BY <1>1
  <2>2. /\ Len(queue["provider"]) \in Nat /\ Len(queue["analyzer"]) \in Nat
        /\ Len(queue["emulator"]) \in Nat /\ Len(queue["manager"]) \in Nat
    BY <2>1 DEF Threads
  <2> QED BY <2>2 DEF CountInv
<1>8. total_event_count = p + a + l + m
  BY <1>7
<1>9. PICK n \in Nat : n = Len(queue[t]) /\ n # 0
  BY <1>2
<1>10. n = (IF t = "provider" THEN p ELSE IF t = "analyzer" THEN a ELSE IF t = "emulator" THEN l ELSE m)
  BY <1>7, <1>9 DEF Threads
<1>11. total_event_count > 0 /\ total_event_count' \in Nat /\ total_event_count' = p + a + l + m - 1
  BY <1>8, <1>9, <1>10
<1>12. total_event_count' = Len(queue'["provider"]) + Len(queue'["analyzer"])
                              + Len(queue'["emulator"]) + Len(queue'["manager"])
  <2>1. /\ Len(queue'["provider"]) = IF t = "provider" THEN p - 1 ELSE p
        /\ Len(queue'["analyzer"]) = IF t = "analyzer" THEN a - 1 ELSE a
        /\ Len(queue'["emulator"]) = IF t = "emulator" THEN l - 1 ELSE l
        /\ Len(queue'["manager"]) = IF t = "manager" THEN m - 1 ELSE m
    BY <1>5, <1>6, <1>7 DEF Threads
  <2>2. t \in {"provider", "analyzer", "emulator", "manager"}
    BY DEF Threads
  <2>3. CASE t = "provider"
    <3>1. total_event_count' = (p - 1) + a + l + m
      BY <1>11
    <3> QED BY <2>1, <2>3, <3>1
  <2>4. CASE t = "analyzer"
    <3>1. total_event_count' = p + (a - 1) + l + m
      BY <1>11
    <3> QED BY <2>1, <2>4, <3>1
  <2>5. CASE t = "emulator"
    <3>1. total_event_count' = p + a + (l - 1) + m
      BY <1>11
    <3> QED BY <2>1, <2>5, <3>1
  <2>6. CASE t = "manager"
    <3>1. total_event_count' = p + a + l + (m - 1)
      BY <1>11
    <3> QED BY <2>1, <2>6, <3>1
  <2> QED BY <2>2, <2>3, <2>4, <2>5, <2>6
<1>13. ASSUME NEW u \in Threads, NEW k \in 1..Len(queue'[u])
       PROVE  \E j \in 1..Len(queue[u]) : queue'[u][k] = queue[u][j]
  <2>1. CASE u = t
    <3>1. k \in 1..(n - 1) /\ k + 1 \in 1..n
      BY <1>6, <1>9, <2>1
    <3>2. queue'[u][k] = queue[u][k + 1]
      BY <1>3, <1>6, <2>1
    <3> QED BY <1>9, <2>1, <3>1, <3>2
  <2>2. CASE u # t
    BY <1>5, <2>2
  <2> QED BY <2>1, <2>2
<1> QED BY <1>4, <1>5, <1>11, <1>12, <1>13

LEMMA CountOutKeeps ==
  ASSUME IInv, NEW t \in Threads, CountOut(t)
  PROVE  IInv' /\ (now' # now => main_pc = "waiting" /\ units_busy' = {})
<1>1. TypeInv /\ CountInv /\ StageInv /\ ClockInv /\ PlanInv
  BY DEF IInv
<1>2. /\ stage[t] = "handled" /\ stage' = [stage EXCEPT ![t] = "idle"]
      /\ queue' = [queue EXCEPT ![t] = Tail(queue[t])]
      /\ total_event_count' = total_event_count - 1
      /\ UNCHANGED <<recording, is_enabled_ts_jump, main_pc, position, reported,
                     thread_vars, plan_vars>>
  BY DEF CountOut, main_vars
<1>3. queue[t] # <<>>
  BY <1>1, <1>2 DEF StageInv
<1>4. /\ queue' \in [Threads -> Seq(Events)]
      /\ total_event_count > 0 /\ total_event_count' \in Nat
      /\ total_event_count' = Len(queue'["provider"]) + Len(queue'["analyzer"])
                                + Len(queue'["emulator"]) + Len(queue'["manager"])
      /\ \A u \in Threads : u # t => queue'[u] = queue[u]
      /\ \A u \in Threads : \A k \in 1..Len(queue'[u]) :
           \E j \in 1..Len(queue[u]) : queue'[u][k] = queue[u][j]
  BY <1>1, <1>2, <1>3, Pop
<1>5. /\ units_busy' = IF total_event_count' = 0 THEN units_busy \ {"kTransport"} ELSE units_busy
      /\ units_busy' \subseteq Units
      /\ now' \in 0..MaxTime /\ Come <= now' /\ (position = 0 => now' = 0)
      /\ now' # now => main_pc = "waiting" /\ units_busy' = {}
  <2>1. CASE total_event_count' = 0
    <3>1. SetReady({"kTransport"})
      BY <2>1 DEF CountOut
    <3> QED BY <1>1, <2>1, <3>1, Ready
  <2>2. CASE total_event_count' # 0
    <3>1. UNCHANGED clock_vars
      BY <2>2 DEF CountOut
    <3> QED BY <1>1, <2>2, <3>1 DEF clock_vars, TypeInv, ClockInv
  <2> QED BY <2>1, <2>2
<1>6. TypeInv'
  <2>1. stage' \in [Threads -> Stages]
    BY <1>1, <1>2 DEF TypeInv, Stages
  <2> QED BY <1>1, <1>2, <1>4, <1>5, <2>1 DEF TypeInv, thread_vars, plan_vars
<1>7. CountInv'
  <2>1. "kTransport" \in units_busy
    BY <1>1, <1>4 DEF CountInv
  <2>2. "kTransport" \in units_busy' <=> total_event_count' # 0
    BY <1>5, <2>1
  <2>3. "kTransport" \in units_busy' <=> total_event_count' > 0
    <3>1. total_event_count' \in Nat
      BY <1>4
    <3> QED BY <2>2, <3>1
  <2> QED BY <1>4, <2>3 DEF CountInv
<1>8. StageInv'
  <2>1. stage \in [Threads -> Stages]
    BY <1>1 DEF TypeInv
  <2>2. \A u \in Threads : stage'[u] # "idle" => u # t /\ stage[u] # "idle"
    BY <1>2, <2>1
  <2>3. \A u \in Threads : stage'[u] # "idle" => queue'[u] # <<>>
    BY <1>1, <1>4, <2>2 DEF StageInv
  <2>4. main_pc' # "jump"
    BY <1>1, <1>2, <1>3, NoJumpWhileQueued
  <2> QED BY <2>3, <2>4 DEF StageInv
<1>9. ClockInv'
  <2>1. Come' = Come
    BY <1>2 DEF Come, LetThrough
  <2>2. \A u \in Threads : \A k \in 1..Len(queue'[u]) : queue'[u][k].received_timestamp <= Come'
    BY <1>1, <1>4, <2>1 DEF ClockInv
  <2> QED BY <1>1, <1>2, <1>5, <2>1, <2>2 DEF ClockInv, thread_vars
<1>10. PlanInv'
  <2>1. UNCHANGED <<plan_vars, order_plan_info, accepted, reported>>
    BY <1>2 DEF thread_vars
  <2>2. "kOrderPlanManager" \in units_busy' <=> "kOrderPlanManager" \in units_busy
    BY <1>5
  <2> QED BY <1>1, <1>2, <2>1, <2>2, PlanSame
<1> QED BY <1>5, <1>6, <1>7, <1>8, <1>9, <1>10 DEF IInv

-----------------------------------------------------------------------------
(* The handlers.                                                           *)

\* A thread that goes to work has its event, so main is not about to jump.
LEMMA WorksKeepsStages ==
  ASSUME TypeInv, StageInv, NEW t \in Threads, Works(t), UNCHANGED main_vars,
         \A u \in Threads : queue[u] # <<>> => queue'[u] # <<>>
  PROVE  queue[t] # <<>> /\ stage' \in [Threads -> Stages] /\ StageInv'
<1>1. stage[t] = "working" /\ stage' = [stage EXCEPT ![t] = "worked"] /\ main_pc' = main_pc
  BY DEF Works, main_vars
<1>2. stage \in [Threads -> Stages]
  BY DEF TypeInv
<1>3. queue[t] # <<>>
  BY <1>1 DEF StageInv
<1>4. \A u \in Threads : stage'[u] # "idle" => stage[u] # "idle"
  BY <1>1, <1>2
<1>5. main_pc' # "jump"
  BY <1>1, <1>3, NoJumpWhileQueued
<1>6. stage' \in [Threads -> Stages]
  BY <1>1, <1>2 DEF Stages
<1> QED BY <1>3, <1>4, <1>5, <1>6 DEF StageInv

\* A handler that dispatches its event further.
LEMMA ForwardingHandlerKeeps ==
  ASSUME IInv, NEW t \in Threads, NEW u \in Threads, Works(t), PushEvent(u, Event(t)),
         UNCHANGED <<main_vars, now, order_plan_info, accepted, plan_vars>>,
         book_ts' \in {book_ts, Event(t).received_timestamp},
         last_sent' \in {last_sent, Event(t).received_timestamp}
  PROVE  IInv'
<1>1. TypeInv /\ CountInv /\ StageInv /\ ClockInv /\ PlanInv
  BY DEF IInv
<1>2. queue[t] # <<>>
  BY <1>1 DEF Works, StageInv
<1>3. PICK e \in Events : e = Event(t) /\ e = queue[t][1] /\ e.received_timestamp \in 1..MaxTime
  BY <1>1, <1>2, HeadEvent
<1>4. PushEvent(u, e)
  BY <1>3 DEF PushEvent
<1>5. /\ queue' \in [Threads -> Seq(Events)]
      /\ units_busy' = units_busy \cup {"kTransport"}
      /\ CountInv'
      /\ \A v \in Threads : queue[v] # <<>> => queue'[v] # <<>>
  BY <1>1, <1>4, Push
<1>6. stage' \in [Threads -> Stages] /\ StageInv'
  BY <1>1, <1>5, WorksKeepsStages
<1>7. TypeInv'
  <2>1. units_busy' \subseteq Units
    BY <1>1, <1>5 DEF TypeInv, Units
  <2>2. MaxTime \in Nat
    BY RecordingConstants DEF RecordingConstants
  <2>3. book_ts' \in 0..MaxTime
    <3>1. book_ts \in 0..MaxTime
      BY <1>1 DEF TypeInv
    <3> QED BY <1>3, <2>2, <3>1
  <2>4. last_sent' \in 0..MaxTime
    <3>1. last_sent \in 0..MaxTime
      BY <1>1 DEF TypeInv
    <3> QED BY <1>3, <2>2, <3>1
  <2> QED BY <1>1, <1>5, <1>6, <2>1, <2>3, <2>4 DEF TypeInv, main_vars, plan_vars
<1>8. ClockInv'
  <2>1. Come' = Come
    BY DEF Come, LetThrough, main_vars
  <2>2. e.received_timestamp <= Come
    <3>1. PICK n \in Nat \ {0} : n = Len(queue[t])
      BY <1>1, <1>2, HeadEvent
    <3>2. 1 \in 1..n
      OBVIOUS
    <3>3. queue[t][1].received_timestamp <= Come
      BY <1>1, <3>1, <3>2 DEF ClockInv
    <3> QED BY <1>3, <3>3
  <2>3. main_pc' \in Holding \cup Forwarding => position # 0
    BY <1>1 DEF ClockInv, main_vars
  <2>4. UNCHANGED <<recording, position, now, order_plan_info>>
    BY DEF main_vars
  <2> QED BY <1>1, <1>4, <2>1, <2>2, <2>3, <2>4, PushClock
<1>9. PlanInv'
  <2>1. "kOrderPlanManager" \in units_busy' <=> "kOrderPlanManager" \in units_busy
    BY <1>5
  <2>2. reported' = reported /\ main_pc' = main_pc
    BY DEF main_vars
  <2> QED BY <1>1, <2>1, <2>2, PlanSame
<1> QED BY <1>5, <1>6, <1>7, <1>8, <1>9 DEF IInv

\* A handler that dispatches nothing.
LEMMA QuietHandlerKeeps ==
  ASSUME IInv, NEW t \in Threads, Works(t),
         UNCHANGED <<main_vars, clock_vars, total_event_count, queue, thread_vars, plan_vars>>
  PROVE  IInv'
<1>1. TypeInv /\ CountInv /\ StageInv /\ ClockInv /\ PlanInv
  BY DEF IInv
<1>2. stage' \in [Threads -> Stages] /\ StageInv'
  BY <1>1, WorksKeepsStages
<1>3. UNCHANGED <<recording, is_enabled_ts_jump, main_pc, position, reported, now, units_busy,
                  order_plan_info, accepted>>
  BY DEF main_vars, clock_vars, thread_vars
<1>4. TypeInv'
  BY <1>1, <1>2, <1>3 DEF TypeInv, thread_vars, plan_vars
<1>5. CountInv'
  BY <1>1, <1>3, CountSame
<1>6. ClockInv'
  <2>1. Come <= now' /\ (position = 0 => now' = 0)
    BY <1>1, <1>3 DEF ClockInv
  <2> QED BY <1>1, <1>3, <2>1, ClockSame
<1>7. PlanInv'
  BY <1>1, <1>3, PlanSame
<1> QED BY <1>2, <1>4, <1>5, <1>6, <1>7 DEF IInv

\* A plan is taken only while none is in process, and its time has come.
LEMMA OnOrderPlanStreamEventKeeps ==
  ASSUME IInv, OnOrderPlanStreamEvent
  PROVE  IInv'
<1>1. TypeInv /\ CountInv /\ StageInv /\ ClockInv /\ PlanInv
  BY DEF IInv
<1>2. /\ Works("manager")
      /\ UNCHANGED <<recording, is_enabled_ts_jump, main_pc, position, reported, now, units_busy,
                     total_event_count, queue, book_ts, last_sent, plan_vars>>
  BY DEF OnOrderPlanStreamEvent, main_vars, clock_vars
<1>3. "manager" \in Threads
  BY DEF Threads
<1>4. queue["manager"] # <<>> /\ stage' \in [Threads -> Stages] /\ StageInv'
  <2>1. UNCHANGED main_vars /\ \A u \in Threads : queue[u] # <<>> => queue'[u] # <<>>
    BY <1>2 DEF main_vars
  <2> QED BY <1>1, <1>2, <1>3, <2>1, WorksKeepsStages
<1>5. PICK e \in Events : /\ e = Event("manager") /\ e = queue["manager"][1]
                          /\ e.received_timestamp \in 1..MaxTime
  BY <1>1, <1>3, <1>4, HeadEvent
<1>6. Come' = Come
  BY <1>2 DEF Come, LetThrough
<1>7. e.received_timestamp <= Come
  <2>1. PICK n \in Nat \ {0} : n = Len(queue["manager"])
    BY <1>1, <1>3, <1>4, HeadEvent
  <2>2. 1 \in 1..n
    OBVIOUS
  <2>3. queue["manager"][1].received_timestamp <= Come
    BY <1>1, <1>3, <2>1, <2>2 DEF ClockInv
  <2> QED BY <1>5, <2>3
<1>8. /\ order_plan_info' \in 0..MaxTime /\ order_plan_info' <= Come
      /\ \/ order_plan_info' = order_plan_info /\ accepted' = accepted
         \/ order_plan_info = 0 /\ order_plan_info' # 0 /\ accepted' = accepted + 1
  <2>1. CASE order_plan_info = 0
    <3>1. order_plan_info' = e.received_timestamp /\ accepted' = accepted + 1
      BY <1>5, <2>1 DEF OnOrderPlanStreamEvent
    <3>2. order_plan_info' \in 0..MaxTime /\ order_plan_info' # 0
      BY <1>5, <3>1
    <3> QED BY <1>7, <2>1, <3>1, <3>2
  <2>2. CASE order_plan_info # 0
    BY <1>1, <2>2 DEF OnOrderPlanStreamEvent, TypeInv, ClockInv
  <2> QED BY <2>1, <2>2
<1>9. TypeInv'
  BY <1>1, <1>2, <1>4, <1>8 DEF TypeInv, plan_vars
<1>10. CountInv'
  BY <1>1, <1>2, CountSame
<1>11. ClockInv'
  BY <1>1, <1>2, <1>6, <1>8 DEF ClockInv
<1>12. PlanInv'
  <2>1. CASE order_plan_info' = order_plan_info /\ accepted' = accepted
    BY <1>1, <1>2, <2>1, PlanSame
  <2>2. CASE order_plan_info = 0 /\ order_plan_info' # 0 /\ accepted' = accepted + 1
    <3>1. plan_pc = "idle" /\ plan_pc' = "idle" /\ order_plan_start_time' = 0 /\ reports' = reports
      BY <1>1, <1>2, <2>2 DEF PlanInv, plan_vars
    <3>2. Len(reports) \in Nat
      BY <1>1 DEF TypeInv
    <3>3. accepted = Len(reports)
      BY <1>1, <2>2, <3>2 DEF PlanInv
    <3>4. accepted' = Len(reports') + 1
      BY <2>2, <3>1, <3>3
    <3>5. /\ ~("kOrderPlanManager" \in units_busy')
          /\ main_pc' = "done" => reported' = Len(reports')
      BY <1>1, <1>2, <3>1 DEF PlanInv
    <3> QED BY <2>2, <3>1, <3>4, <3>5 DEF PlanInv
  <2> QED BY <1>8, <2>1, <2>2
<1> QED BY <1>4, <1>9, <1>10, <1>11, <1>12 DEF IInv

LEMMA HandlerKeeps ==
  ASSUME IInv, Handler
  PROVE  IInv' /\ now' = now
<1>1. \A t \in {"provider", "analyzer", "emulator", "manager"} : t \in Threads
  BY DEF Threads
<1>2. CASE OnOrderBookUpdateEvent
  <2>1. /\ Works("provider") /\ PushEvent("emulator", Event("provider"))
        /\ UNCHANGED <<main_vars, now, order_plan_info, accepted, plan_vars>>
        /\ book_ts' \in {book_ts, Event("provider").received_timestamp}
        /\ last_sent' \in {last_sent, Event("provider").received_timestamp}
    BY <1>2 DEF OnOrderBookUpdateEvent
  <2> QED BY <1>1, <2>1, ForwardingHandlerKeeps
<1>3. CASE SkipMarketEvent
  <2>1. /\ Works("analyzer")
        /\ UNCHANGED <<main_vars, clock_vars, total_event_count, queue, thread_vars, plan_vars>>
    BY <1>3 DEF SkipMarketEvent
  <2> QED BY <1>1, <2>1, QuietHandlerKeeps DEF clock_vars
<1>4. CASE DispatchPlan
  <2>1. /\ Works("analyzer") /\ PushEvent("manager", Event("analyzer"))
        /\ UNCHANGED <<main_vars, now, order_plan_info, accepted, plan_vars>>
        /\ book_ts' \in {book_ts, Event("analyzer").received_timestamp}
        /\ last_sent' \in {last_sent, Event("analyzer").received_timestamp}
    BY <1>4 DEF DispatchPlan
  <2> QED BY <1>1, <2>1, ForwardingHandlerKeeps
<1>5. CASE OnOrderBookStreamEvent
  <2>1. /\ Works("emulator")
        /\ UNCHANGED <<main_vars, clock_vars, total_event_count, queue, thread_vars, plan_vars>>
    BY <1>5 DEF OnOrderBookStreamEvent
  <2> QED BY <1>1, <2>1, QuietHandlerKeeps DEF clock_vars
<1>6. CASE OnOrderPlanStreamEvent
  <2>1. now' = now
    BY <1>6 DEF OnOrderPlanStreamEvent, clock_vars
  <2> QED BY <1>6, <2>1, OnOrderPlanStreamEventKeeps
<1> QED BY <1>2, <1>3, <1>4, <1>5, <1>6 DEF Handler

-----------------------------------------------------------------------------
(* The order plan thread and the clock.                                    *)

PlanPcs == {"idle", "working", "calling", "reported", "release"}

\* A step of the order plan thread that keeps the plans and moves the clock as
\* the units allow.
LEMMA PlanStepKeeps ==
  ASSUME IInv, UNCHANGED <<main_vars, total_event_count, queue, stage, book_ts, last_sent, accepted>>,
         units_busy' \subseteq Units,
         "kTransport" \in units_busy' <=> "kTransport" \in units_busy,
         now' \in 0..MaxTime, Come <= now', position = 0 => now' = 0,
         order_plan_info' \in {0, order_plan_info}, order_plan_start_time' \in 0..MaxTime,
         plan_pc' \in PlanPcs, reports' \in Seq(1..MaxTime), PlanInv'
  PROVE  IInv'
<1>1. TypeInv /\ CountInv /\ StageInv /\ ClockInv
  BY DEF IInv
<1>2. /\ order_plan_info' \in 0..MaxTime /\ order_plan_info' <= Come /\ Come \in 0..MaxTime
  <2>1. MaxTime \in Nat /\ order_plan_info \in 0..MaxTime /\ order_plan_info <= Come
    BY <1>1, RecordingConstants DEF TypeInv, ClockInv, RecordingConstants
  <2>2. Come \in 0..MaxTime
    BY <1>1, ComeIsATime DEF ClockInv
  <2> QED BY <2>1, <2>2
<1>3. TypeInv'
  BY <1>1, <1>2 DEF TypeInv, PlanPcs, main_vars
<1>4. CountInv'
  BY <1>1, CountSame
<1>5. StageInv'
  BY <1>1, StageSame DEF main_vars
<1>6. ClockInv'
  <2>1. Come' = Come
    BY DEF Come, LetThrough, main_vars
  <2> QED BY <1>1, <1>2, <2>1 DEF ClockInv, main_vars
<1> QED BY <1>3, <1>4, <1>5, <1>6 DEF IInv

LEMMA PlanThreadKeeps ==
  ASSUME IInv, ~Ended, PlanThread
  PROVE  IInv' /\ (now' # now => main_pc = "waiting" /\ units_busy' = {})
<1>1. TypeInv /\ ClockInv /\ PlanInv
  BY DEF IInv
<1>2. /\ now \in 0..MaxTime /\ Come <= now /\ (position = 0 => now = 0) /\ MaxTime \in Nat
      /\ units_busy \subseteq Units /\ reports \in Seq(1..MaxTime) /\ Len(reports) \in Nat
      /\ order_plan_start_time \in 0..MaxTime /\ order_plan_info \in 0..MaxTime
      /\ order_plan_info <= Come /\ Come \in 0..MaxTime
  <2>1. Come \in 0..MaxTime
    BY <1>1, ComeIsATime DEF ClockInv
  <2> QED BY <1>1, <2>1, RecordingConstants DEF TypeInv, ClockInv, RecordingConstants
<1>3. CASE StartPlan
  <2>1. /\ order_plan_info # 0 /\ plan_pc = "idle" /\ plan_pc' = "working"
        /\ units_busy' = units_busy \cup {"kOrderPlanManager"}
        /\ order_plan_start_time' = now
        /\ UNCHANGED <<main_vars, total_event_count, queue, stage, book_ts, last_sent, accepted,
                       now, order_plan_info, reports>>
    BY <1>3 DEF StartPlan, PlanGoesOn, SetBusy
  <2>2. now # 0 /\ order_plan_info <= now
    BY <1>2, <2>1
  <2>3. units_busy' \subseteq Units
    BY <1>2, <2>1 DEF Units
  <2>4. PlanInv'
    BY <1>1, <2>1, <2>2 DEF PlanInv, main_vars
  <2>5. "kTransport" \in units_busy' <=> "kTransport" \in units_busy
    BY <2>1
  <2>6. plan_pc' \in PlanPcs
    BY <2>1 DEF PlanPcs
  <2> QED BY <1>2, <2>1, <2>3, <2>4, <2>5, <2>6, PlanStepKeeps
<1>4. CASE CallEmulator
  <2>1. /\ plan_pc = "working" /\ plan_pc' = "calling"
        /\ units_busy' = units_busy \cup {"kOrderManager", "kRealMarketEmulator"}
        /\ UNCHANGED <<main_vars, total_event_count, queue, stage, book_ts, last_sent, accepted,
                       now, order_plan_info, order_plan_start_time, reports>>
    BY <1>4 DEF CallEmulator, PlanGoesOn, SetBusy
  <2>2. units_busy' \subseteq Units
    BY <1>2, <2>1 DEF Units
  <2>3. "kOrderPlanManager" \in units_busy' <=> "kOrderPlanManager" \in units_busy
    BY <2>1
  <2>4. PlanInv'
    BY <1>1, <2>1, <2>3 DEF PlanInv, main_vars
  <2>5. "kTransport" \in units_busy' <=> "kTransport" \in units_busy
    BY <2>1
  <2>6. plan_pc' \in PlanPcs
    BY <2>1 DEF PlanPcs
  <2> QED BY <1>2, <2>1, <2>2, <2>4, <2>5, <2>6, PlanStepKeeps
<1>5. CASE ReturnFromEmulator
  <2>1. /\ plan_pc = "calling" /\ plan_pc' = "working"
        /\ SetReady({"kOrderManager", "kRealMarketEmulator"})
        /\ UNCHANGED <<main_vars, total_event_count, queue, stage, book_ts, last_sent, accepted,
                       order_plan_info, order_plan_start_time, reports>>
    BY <1>5 DEF ReturnFromEmulator, PlanGoesOn
  <2>2. /\ units_busy' = units_busy \ {"kOrderManager", "kRealMarketEmulator"}
        /\ units_busy' \subseteq Units
        /\ now' \in 0..MaxTime /\ Come <= now' /\ (position = 0 => now' = 0)
        /\ now' # now => main_pc = "waiting" /\ units_busy' = {}
    BY <1>1, <2>1, Ready
  <2>3. "kOrderPlanManager" \in units_busy' <=> "kOrderPlanManager" \in units_busy
    BY <2>2
  <2>4. PlanInv'
    BY <1>1, <2>1, <2>3 DEF PlanInv, main_vars
  <2>5. "kTransport" \in units_busy' <=> "kTransport" \in units_busy
    BY <2>2
  <2>6. plan_pc' \in PlanPcs
    BY <2>1 DEF PlanPcs
  <2> QED BY <1>2, <2>1, <2>2, <2>4, <2>5, <2>6, PlanStepKeeps
<1>6. CASE SendReport
  <2>1. /\ plan_pc = "working" /\ plan_pc' = "reported"
        /\ reports' = Append(reports, order_plan_start_time)
        /\ UNCHANGED <<main_vars, total_event_count, queue, stage, book_ts, last_sent, accepted,
                       now, units_busy, order_plan_info, order_plan_start_time>>
    BY <1>6 DEF SendReport, PlanGoesOn, clock_vars
  <2>2. /\ order_plan_info # 0 /\ order_plan_start_time # 0 /\ accepted = Len(reports) + 1
    BY <1>1, <2>1 DEF PlanInv
  <2>3. order_plan_start_time \in 1..MaxTime
    BY <1>2, <2>2
  <2>4. reports' \in Seq(1..MaxTime) /\ Len(reports') = Len(reports) + 1
    BY <1>2, <2>1, <2>3, AppendProperties
  <2>5. accepted' = Len(reports') + 0
    <3>1. Len(reports') \in Nat
      BY <2>4
    <3>2. accepted' = Len(reports')
      BY <2>1, <2>2, <2>4
    <3> QED BY <3>1, <3>2
  <2>6. PlanInv'
    <3>1. main_pc' # "done"
      BY <2>1 DEF main_vars, Ended
    <3> QED BY <1>1, <2>1, <2>2, <2>4, <2>5, <3>1 DEF PlanInv, main_vars
  <2>7. plan_pc' \in PlanPcs
    BY <2>1 DEF PlanPcs
  <2> QED BY <1>2, <2>1, <2>4, <2>6, <2>7, PlanStepKeeps
<1>7. CASE EndPlan
  <2>1. /\ plan_pc = "reported" /\ plan_pc' = "release"
        /\ SetReady({"kOrderPlanManager"})
        /\ order_plan_start_time' = 0
        /\ UNCHANGED <<main_vars, total_event_count, queue, stage, book_ts, last_sent, accepted,
                       order_plan_info, reports>>
    BY <1>7 DEF EndPlan, PlanGoesOn
  <2>2. /\ units_busy' = units_busy \ {"kOrderPlanManager"}
        /\ units_busy' \subseteq Units
        /\ now' \in 0..MaxTime /\ Come <= now' /\ (position = 0 => now' = 0)
        /\ now' # now => main_pc = "waiting" /\ units_busy' = {}
    BY <1>1, <2>1, Ready
  <2>3. "kOrderPlanManager" \notin units_busy'
    BY <2>2
  <2>4. PlanInv'
    BY <1>1, <2>1, <2>3 DEF PlanInv, main_vars
  <2>5. "kTransport" \in units_busy' <=> "kTransport" \in units_busy
    BY <2>2
  <2>6. plan_pc' \in PlanPcs
    BY <2>1 DEF PlanPcs
  <2>7. order_plan_start_time' \in 0..MaxTime
    BY <1>2, <2>1
  <2> QED BY <1>2, <2>1, <2>2, <2>4, <2>5, <2>6, <2>7, PlanStepKeeps
<1>8. CASE ReleasePlan
  <2>1. /\ plan_pc = "release" /\ plan_pc' = "idle" /\ order_plan_info' = 0
        /\ UNCHANGED <<main_vars, total_event_count, queue, stage, book_ts, last_sent, accepted,
                       now, units_busy, order_plan_start_time, reports>>
    BY <1>8 DEF ReleasePlan, PlanGoesOn, clock_vars
  <2>2. PlanInv'
    BY <1>1, <2>1 DEF PlanInv, main_vars
  <2>3. plan_pc' \in PlanPcs
    BY <2>1 DEF PlanPcs
  <2> QED BY <1>2, <2>1, <2>2, <2>3, PlanStepKeeps
<1> QED BY <1>3, <1>4, <1>5, <1>6, <1>7, <1>8 DEF PlanThread

LEMMA TickKeeps ==
  ASSUME IInv, Tick
  PROVE  IInv' /\ now' = now + 1
<1>1. TypeInv /\ CountInv /\ StageInv /\ ClockInv /\ PlanInv
  BY DEF IInv
<1>2. /\ now # 0 /\ now < MaxTime /\ now' = now + 1
      /\ UNCHANGED <<recording, is_enabled_ts_jump, main_pc, position, reported, units_busy,
                     total_event_count, queue, stage, thread_vars, plan_vars>>
  BY DEF Tick, main_vars
<1>3. /\ now \in 0..MaxTime /\ Come <= now /\ position # 0 /\ MaxTime \in Nat /\ Come \in 0..MaxTime
  BY <1>1, <1>2, ComeIsATime, RecordingConstants DEF TypeInv, ClockInv, RecordingConstants
<1>4. now' \in 0..MaxTime /\ Come <= now'
  BY <1>2, <1>3
<1>5. TypeInv'
  BY <1>1, <1>2, <1>4 DEF TypeInv, thread_vars, plan_vars
<1>6. CountInv'
  BY <1>1, <1>2, CountSame
<1>7. StageInv'
  BY <1>1, <1>2, StageSame
<1>8. ClockInv'
  BY <1>1, <1>2, <1>3, <1>4, ClockSame DEF thread_vars
<1>9. PlanInv'
  BY <1>1, <1>2, PlanSame DEF thread_vars
<1> QED BY <1>2, <1>5, <1>6, <1>7, <1>8, <1>9 DEF IInv

-----------------------------------------------------------------------------
(* The invariant, and what follows from it.                                *)

LEMMA StutterKeeps == IInv /\ UNCHANGED vars => IInv' /\ now' = now
<1> SUFFICES ASSUME IInv, UNCHANGED vars PROVE IInv' /\ now' = now
  OBVIOUS
<1>1. TypeInv /\ CountInv /\ StageInv /\ ClockInv /\ PlanInv
  BY DEF IInv
<1>2. UNCHANGED <<recording, is_enabled_ts_jump, main_pc, position, reported, now, units_busy,
                  total_event_count, queue, stage, book_ts, last_sent, order_plan_info, accepted,
                  plan_pc, order_plan_start_time, reports>>
  BY DEF vars, main_vars, clock_vars, thread_vars, plan_vars
<1>3. TypeInv'
  BY <1>1, <1>2 DEF TypeInv
<1>4. CountInv'
  BY <1>1, <1>2, CountSame
<1>5. StageInv'
  BY <1>1, <1>2, StageSame
<1>6. ClockInv'
  <2>1. Come' = Come
    BY <1>2 DEF Come, LetThrough
  <2> QED BY <1>1, <1>2, <2>1 DEF ClockInv
<1>7. PlanInv'
  BY <1>1, <1>2 DEF PlanInv
<1> QED BY <1>2, <1>3, <1>4, <1>5, <1>6, <1>7 DEF IInv

\* Every step keeps the invariant; and time goes on by one, is set by the first
\* event, or jumps: by main with nothing queued, or by the callback of the last
\* unit to become ready.
LEMMA NextKeeps ==
  ASSUME IInv, [Next]_vars
  PROVE  /\ IInv'
         /\ \/ now' \in {now, now + 1} \/ now = 0
            \/ Nothing' /\ main_pc # "waiting"
            \/ main_pc = "waiting" /\ units_busy' = {}
<1>1. CASE UNCHANGED vars
  BY <1>1, StutterKeeps
<1>2. CASE ~Ended /\ Main
  <2>1. CASE ReadNext
    BY <2>1, ReadNextKeeps
  <2>2. CASE JumpToTime
    BY <2>2, JumpToTimeKeeps
  <2>3. CASE ForwardNext
    <3>1. now' = now
      BY <2>3 DEF ForwardNext
    <3> QED BY <2>3, <3>1, ForwardNextKeeps
  <2>4. CASE QuietMain
    <3>1. TypeInv /\ CountInv
      BY DEF IInv
    <3>2. now' = now
      BY <2>4, <3>1, QuietMainShape
    <3> QED BY <1>2, <2>4, <3>2, QuietMainKeeps
  <2> QED BY <1>2, <2>1, <2>2, <2>3, <2>4 DEF Main, QuietMain
<1>3. CASE \E t \in Threads : Thread(t)
  <2>1. PICK t \in Threads : Thread(t)
    BY <1>3
  <2>2. CASE BeginHandling(t)
    <3>1. now' = now
      BY <2>2 DEF BeginHandling
    <3> QED BY <2>2, <3>1, BeginHandlingKeeps
  <2>3. CASE EndHandling(t)
    BY <2>3, EndHandlingKeeps
  <2>4. CASE CountOut(t)
    BY <2>4, CountOutKeeps
  <2> QED BY <2>1, <2>2, <2>3, <2>4 DEF Thread
<1>4. CASE Handler
  BY <1>4, HandlerKeeps
<1>5. CASE ~Ended /\ PlanThread
  BY <1>5, PlanThreadKeeps
<1>6. CASE Tick
  BY <1>6, TickKeeps
<1> QED BY <1>1, <1>2, <1>3, <1>4, <1>5, <1>6 DEF Next

\* The inductive invariant of a replay.
THEOREM Inductive == Spec => []IInv
<1>1. Init => IInv
  BY InitInv
<1>2. IInv /\ [Next]_vars => IInv'
  BY NextKeeps
<1> QED BY <1>1, <1>2, PTL DEF Spec

\* The units' bits stand for what they say: the transport's for a queue that
\* holds an event, the order plan manager's for a plan being processed
\* (observable_units.cc:28-60, transport_unit_state.cc).
THEOREM StrategyTypeCorrect == Spec => []TypeOK
<1>1. IInv => TypeOK
  <2> SUFFICES ASSUME IInv PROVE TypeOK
    OBVIOUS
  <2>1. TypeInv /\ CountInv /\ PlanInv
    BY DEF IInv
  <2>2. \A t \in Threads : stage[t] \in {"idle", "working", "worked", "handled"}
    BY <2>1 DEF TypeInv, Stages
  <2>3. order_plan_start_time # 0 <=> "kOrderPlanManager" \in units_busy
    BY <2>1 DEF PlanInv
  <2>4. "kOrderPlanManager" \in units_busy <=> plan_pc \in {"working", "calling", "reported"}
    BY <2>1 DEF PlanInv
  <2> QED BY <2>1, <2>2, <2>3, <2>4 DEF TypeOK, TypeInv, CountInv
<1> QED BY <1>1, Inductive, PTL

\* No event is in a queue or handled, and no plan is started, before its time by
\* the clock (mock_time_provider.cc:13-20, benchmark_orchestrator.cc:47-65).
THEOREM NeverBeforeItsTimeCorrect == Spec => []NeverBeforeItsTime
<1>1. IInv => NeverBeforeItsTime
  <2> SUFFICES ASSUME IInv PROVE NeverBeforeItsTime
    OBVIOUS
  <2>1. TypeInv /\ ClockInv /\ PlanInv
    BY DEF IInv
  <2>2. Come \in 0..MaxTime /\ now \in 0..MaxTime /\ Come <= now /\ MaxTime \in Nat
    BY <2>1, ComeIsATime, RecordingConstants DEF ClockInv, TypeInv, RecordingConstants
  <2>3. ASSUME NEW t \in Threads, NEW k \in DOMAIN queue[t]
        PROVE  queue[t][k].received_timestamp <= now
    <3>1. queue[t] \in Seq(Events)
      BY <2>1 DEF TypeInv
    <3>2. k \in 1..Len(queue[t])
      BY <3>1
    <3>3. queue[t][k] \in Events
      BY <3>1, <3>2, ElementOfSeq
    <3>4. queue[t][k].received_timestamp \in 1..MaxTime
      BY <3>3 DEF Events
    <3>5. queue[t][k].received_timestamp <= Come
      BY <2>1, <3>2 DEF ClockInv
    <3> QED BY <2>2, <3>4, <3>5
  <2>4. order_plan_start_time # 0 => order_plan_info <= order_plan_start_time
    BY <2>1 DEF PlanInv
  <2> QED BY <2>3, <2>4 DEF NeverBeforeItsTime
<1> QED BY <1>1, Inductive, PTL

\* The final report misses at most the plan still in process
\* (command_strategy_test_handler.cc:120-125).
THEOREM ReportMissesOnlyTheLastCorrect == Spec => []ReportMissesOnlyTheLast
<1>1. IInv => ReportMissesOnlyTheLast
  <2> SUFFICES ASSUME IInv, main_pc = "done"
               PROVE  /\ reported <= accepted
                      /\ accepted <= reported + 1
                      /\ accepted # reported => order_plan_info # 0
    BY DEF ReportMissesOnlyTheLast
  <2>1. TypeInv /\ PlanInv
    BY DEF IInv
  <2>2. PICK n \in Nat : n = Len(reports)
    BY <2>1 DEF TypeInv
  <2>3. reported = n
    BY <2>1, <2>2 DEF PlanInv
  <2>4. CASE order_plan_info # 0 /\ plan_pc \in {"idle", "working", "calling"}
    <3>1. accepted = n + 1
      BY <2>1, <2>2, <2>4 DEF PlanInv
    <3> QED BY <2>3, <2>4, <3>1
  <2>5. CASE ~(order_plan_info # 0 /\ plan_pc \in {"idle", "working", "calling"})
    <3>1. accepted = n
      BY <2>1, <2>2, <2>5 DEF PlanInv
    <3> QED BY <2>3, <3>1
  <2> QED BY <2>4, <2>5
<1> QED BY <1>1, Inductive, PTL

\* The clock jumps only when no event is queued or handled, and from under main's
\* wait only when no plan is being processed either (observable_units.cc:45-51,
\* benchmark_orchestrator.cc:47-51, 70-75).
THEOREM JumpOnlyWhenQuietCorrect == Spec => JumpOnlyWhenQuiet
<1>1. ASSUME IInv, [Next]_vars
      PROVE  Jumps => /\ Nothing'
                      /\ main_pc = "waiting" => plan_pc' \in {"idle", "release"}
  <2> SUFFICES ASSUME Jumps
               PROVE  /\ Nothing'
                      /\ main_pc = "waiting" => plan_pc' \in {"idle", "release"}
    OBVIOUS
  <2>1. /\ IInv'
        /\ \/ Nothing' /\ main_pc # "waiting"
           \/ main_pc = "waiting" /\ units_busy' = {}
    BY <1>1, NextKeeps DEF Jumps
  <2>2. CASE Nothing' /\ main_pc # "waiting"
    BY <2>2
  <2>3. CASE main_pc = "waiting" /\ units_busy' = {}
    <3>1. TypeInv' /\ CountInv' /\ PlanInv'
      BY <2>1 DEF IInv
    <3>2. ("kTransport" \notin units_busy)'
      BY <2>3
    <3>3. (TypeInv /\ CountInv /\ "kTransport" \notin units_busy => Nothing)'
      BY NothingQueued, PTL
    <3>4. Nothing'
      BY <3>1, <3>2, <3>3
    <3>5. plan_pc' \notin {"working", "calling", "reported"}
      BY <2>3, <3>1 DEF PlanInv
    <3>6. plan_pc' \in {"idle", "release"}
      BY <3>1, <3>5 DEF TypeInv
    <3> QED BY <3>4, <3>6
  <2> QED BY <2>1, <2>2, <2>3
<1> QED BY <1>1, Inductive, PTL DEF Spec, JumpOnlyWhenQuiet

=============================================================================
