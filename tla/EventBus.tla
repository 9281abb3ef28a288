------------------------------ MODULE EventBus ------------------------------
(***************************************************************************)
(* What events::EventHub promises its users: the accepted events form one  *)
(* order, and every subscriber is called with the events accepted after it *)
(* subscribed, each once, in that order, without a gap; when no shutdown   *)
(* races a dispatch, it is called with all of them.                        *)
(***************************************************************************)
EXTENDS Naturals, Sequences

CONSTANT MaxSubscribers

VARIABLES
  dispatched,      \* how many events the bus has accepted
  members,         \* how many subscribers there are
  subscribed_at,   \* events accepted before i subscribed
  delivered        \* the events subscriber i was called with

bus == <<dispatched, members, subscribed_at, delivered>>

Init ==
  /\ dispatched = 0
  /\ members = 0
  /\ subscribed_at = [i \in 1..MaxSubscribers |-> 0]
  /\ delivered = [i \in 1..MaxSubscribers |-> <<>>]

Publish == dispatched' = dispatched + 1 /\ UNCHANGED <<members, subscribed_at, delivered>>

Join ==
  /\ members < MaxSubscribers
  /\ members' = members + 1
  /\ subscribed_at' = [subscribed_at EXCEPT ![members'] = dispatched]
  /\ UNCHANGED <<dispatched, delivered>>

Deliver(i) ==
  LET next == subscribed_at[i] + Len(delivered[i]) + 1
  IN  /\ i <= members
      /\ next <= dispatched
      /\ delivered' = [delivered EXCEPT ![i] = Append(@, next)]
      /\ UNCHANGED <<dispatched, members, subscribed_at>>

Next == Publish \/ Join \/ \E i \in 1..MaxSubscribers : Deliver(i)

Spec == Init /\ [][Next]_bus

\* Every accepted event reaches every subscriber that was there to get it.
FairSpec == Spec /\ \A i \in 1..MaxSubscribers : WF_bus(Deliver(i))
=============================================================================
