-------------------------- MODULE MarketStreamProofs --------------------------
(***************************************************************************)
(* What is proved of MarketStreamForwarder for any exchange: its types,    *)
(* that listeners get one book and then diffs without a gap, as new as the *)
(* connection's, and trades without a hole.                                *)
(***************************************************************************)
EXTENDS MarketStreamForwarder, SequenceTheorems, WellFoundedInduction, TLAPS

\* The messages of a kind in s continue one another up to last.
InOrder(s, kind, last) ==
  /\ Chained(s, kind)
  /\ EndsAt(s, kind, last)
  /\ \A k \in Places(s, kind) : 1 <= s[k].U /\ s[k].U <= s[k].u /\ s[k].u <= last

AllDiffs(s) == \A k \in DOMAIN s : s[k].kind = "diff"

\* What the connection still has continues to what the exchange sent.
WireInv ==
  /\ InOrder(wire, "diff", sent_id)
  /\ InOrder(wire, "trade", trades)

\* The updates in the buffer end where the connection goes on; they are there
\* from the first update until the stream has started.
BufferInv ==
  /\ AllDiffs(depth_updates_buffer)
  /\ depth_updates_buffer # <<>> =>
       InOrder(depth_updates_buffer, "diff", Delivered(wire, "diff", sent_id))
  /\ init_stage \in {"DEPTH_SNAPSHOT_REQUESTED", "SEARCH_FOR_FIRST_REAL_UPDATE"}
       <=> depth_updates_buffer # <<>>

\* The depth request is open only between the first update and the book.
RequestInv ==
  /\ rest.state # "none" => init_stage = "DEPTH_SNAPSHOT_REQUESTED"
  /\ rest.id <= server_id

\* The book is the first event of all, and alone until an update covers it.
StageInv ==
  /\ order_book_stream_started <=> forwarded # <<>>
  /\ forwarded # <<>> <=> init_stage \in {"SEARCH_FOR_FIRST_REAL_UPDATE", "STREAM_STARTED"}
  /\ Places(forwarded, "book") \subseteq {1}
  /\ init_stage = "SEARCH_FOR_FIRST_REAL_UPDATE" =>
       Places(forwarded, "diff") = {} /\ forwarded[1].u = depth_last_update_id

\* The inductive invariant.
StreamInv ==
  /\ TypeOK
  /\ WireInv
  /\ BufferInv
  /\ RequestInv
  /\ StageInv
  /\ GapFree
  /\ NothingHeldBack
  /\ TradesContiguous

-----------------------------------------------------------------------------
(* Sequences of messages.                                                  *)

\* A place of a kind is an index of the sequence.
LEMMA PlaceIsIndex ==
  ASSUME NEW s \in Seq(Messages), NEW kind, NEW k \in Places(s, kind)
  PROVE  k \in 1..Len(s) /\ s[k] \in Messages /\ s[k].kind = kind
         /\ k \in Nat /\ s[k].U \in Nat /\ s[k].u \in Nat
<1>1. k \in 1..Len(s) /\ s[k].kind = kind
  BY LenProperties DEF Places
<1>2. s[k] \in Messages
  BY <1>1, ElementOfSeq
<1>3. MaxId + MaxTrades \in Nat
  BY StreamConstants
<1> QED BY <1>1, <1>2, <1>3, LenProperties DEF Messages

\* Among the places of a kind there is a first one.
LEMMA FirstPlace ==
  ASSUME NEW s \in Seq(Messages), NEW kind, Places(s, kind) # {}
  PROVE  \E f \in Places(s, kind) : \A k \in Places(s, kind) : f <= k
<1>1. Places(s, kind) \subseteq Nat
  BY PlaceIsIndex
<1>2. PICK f \in Places(s, kind) : \A k \in Places(s, kind) : ~ (<<k, f>> \in OpToRel(<, Nat))
  BY <1>1, NatLessThanWellFounded, WFMin
<1>3. \A k \in Places(s, kind) : ~ (k < f)
  BY <1>1, <1>2 DEF OpToRel
<1>4. \A k \in Places(s, kind) : f <= k
  BY <1>1, <1>3
<1> QED BY <1>4

\* What was delivered is what comes before the first message that was not.
LEMMA DeliveredBefore ==
  ASSUME NEW s \in Seq(Messages), NEW kind, NEW last,
         NEW f \in Places(s, kind), \A k \in Places(s, kind) : f <= k
  PROVE  Delivered(s, kind, last) = s[f].U - 1
<1> DEFINE c == CHOOSE k \in Places(s, kind) : \A j \in Places(s, kind) : k <= j
<1>1. c \in Places(s, kind) /\ \A j \in Places(s, kind) : c <= j
  OBVIOUS
<1>2. c = f
  BY <1>1, PlaceIsIndex
<1> QED BY <1>2 DEF Delivered

\* Two sequences with the same messages of a kind are the same to us.
LEMMA SamePlaces ==
  ASSUME NEW s \in Seq(Messages), NEW t \in Seq(Messages), NEW kind, NEW last,
         Places(s, kind) = Places(t, kind),
         \A k \in Places(s, kind) : s[k] = t[k]
  PROVE  /\ Chained(s, kind) => Chained(t, kind)
         /\ EndsAt(s, kind, last) => EndsAt(t, kind, last)
         /\ InOrder(s, kind, last) => InOrder(t, kind, last)
         /\ Delivered(s, kind, last) = Delivered(t, kind, last)
<1>1. Chained(s, kind) => Chained(t, kind)
  BY DEF Chained
<1>2. EndsAt(s, kind, last) => EndsAt(t, kind, last)
  BY DEF EndsAt
<1>3. InOrder(s, kind, last) => InOrder(t, kind, last)
  BY <1>1, <1>2 DEF InOrder
<1>4. Delivered(s, kind, last) = Delivered(t, kind, last)
  <2>1. CASE Places(s, kind) = {}
    BY <2>1 DEF Delivered
  <2>2. CASE Places(s, kind) # {}
    <3>1. PICK f \in Places(s, kind) : \A k \in Places(s, kind) : f <= k
      BY <2>2, FirstPlace
    <3>2. Delivered(s, kind, last) = s[f].U - 1
      BY <3>1, DeliveredBefore
    <3>3. Delivered(t, kind, last) = t[f].U - 1
      BY <3>1, DeliveredBefore
    <3> QED BY <3>2, <3>3
  <2> QED BY <2>1, <2>2
<1> QED BY <1>1, <1>2, <1>3, <1>4

\* Where the messages of a kind are after one was appended.
LEMMA AppendPlaces ==
  ASSUME NEW s \in Seq(Messages), NEW m \in Messages, NEW kind
  PROVE  /\ Append(s, m) \in Seq(Messages)
         /\ Len(s) \in Nat
         /\ Append(s, m)[Len(s) + 1] = m
         /\ \A k \in 1..Len(s) : Append(s, m)[k] = s[k]
         /\ DOMAIN Append(s, m) = 1..(Len(s) + 1)
         /\ Places(Append(s, m), kind) =
              Places(s, kind) \cup (IF m.kind = kind THEN {Len(s) + 1} ELSE {})
<1>1. /\ Append(s, m) \in Seq(Messages)
      /\ Len(Append(s, m)) = Len(s) + 1
      /\ \A k \in 1..Len(s) : Append(s, m)[k] = s[k]
      /\ Append(s, m)[Len(s) + 1] = m
  BY AppendProperties
<1>2. /\ Len(s) \in Nat
      /\ DOMAIN s = 1..Len(s)
      /\ DOMAIN Append(s, m) = 1..(Len(s) + 1)
  BY <1>1, LenProperties
<1>3. 1..(Len(s) + 1) = (1..Len(s)) \cup {Len(s) + 1}
  BY <1>2
<1> HIDE DEF Messages
<1>4. Places(Append(s, m), kind) =
        Places(s, kind) \cup (IF m.kind = kind THEN {Len(s) + 1} ELSE {})
  BY <1>1, <1>2, <1>3 DEF Places
<1> QED BY <1>1, <1>2, <1>4

\* A message of another kind makes no difference.
LEMMA AppendOther ==
  ASSUME NEW s \in Seq(Messages), NEW m \in Messages, NEW kind, NEW last,
         m.kind # kind
  PROVE  /\ Places(Append(s, m), kind) = Places(s, kind)
         /\ Chained(s, kind) => Chained(Append(s, m), kind)
         /\ EndsAt(s, kind, last) => EndsAt(Append(s, m), kind, last)
         /\ InOrder(s, kind, last) => InOrder(Append(s, m), kind, last)
         /\ Delivered(Append(s, m), kind, last) = Delivered(s, kind, last)
<1> DEFINE t == Append(s, m)
<1>1. /\ t \in Seq(Messages)
      /\ Places(t, kind) = Places(s, kind) \cup (IF m.kind = kind THEN {Len(s) + 1} ELSE {})
      /\ \A k \in 1..Len(s) : t[k] = s[k]
  BY AppendPlaces
<1> HIDE DEF t
<1>2. Places(t, kind) = Places(s, kind)
  BY <1>1
<1>3. \A k \in Places(s, kind) : s[k] = t[k]
  BY <1>1, PlaceIsIndex
<1>4. /\ Chained(s, kind) => Chained(t, kind)
      /\ EndsAt(s, kind, last) => EndsAt(t, kind, last)
      /\ InOrder(s, kind, last) => InOrder(t, kind, last)
      /\ Delivered(s, kind, last) = Delivered(t, kind, last)
  BY <1>1, <1>2, <1>3, SamePlaces
<1> QED BY <1>2, <1>4 DEF t

\* A message that goes on where the last of its kind ended.
LEMMA AppendChained ==
  ASSUME NEW s \in Seq(Messages), NEW m \in Messages, NEW last \in Nat,
         Chained(s, m.kind), EndsAt(s, m.kind, last), m.U = last + 1
  PROVE  /\ Chained(Append(s, m), m.kind)
         /\ EndsAt(Append(s, m), m.kind, m.u)
         /\ Places(Append(s, m), m.kind) = Places(s, m.kind) \cup {Len(s) + 1}
<1> DEFINE t == Append(s, m)
           kind == m.kind
           new == Len(s) + 1
<1>1. /\ t \in Seq(Messages) /\ new \in Nat
      /\ t[new] = m
      /\ Places(t, kind) = Places(s, kind) \cup {new}
  BY AppendPlaces
<1>2. \A k \in Places(s, kind) : t[k] = s[k] /\ k \in Nat /\ k < new /\ s[k].u \in Nat
  BY AppendPlaces, PlaceIsIndex
<1> HIDE DEF t, kind, new
<1>3. Chained(t, kind)
  <2> SUFFICES ASSUME NEW j \in Places(t, kind), NEW k \in Places(t, kind), j < k,
                      \A i \in Places(t, kind) : i <= j \/ k <= i
               PROVE  t[k].U = t[j].u + 1
    BY DEF Chained
  <2>1. j \in Places(s, kind)
    BY <1>1, <1>2
  <2>2. CASE k \in Places(s, kind)
    BY <1>1, <1>2, <2>1, <2>2 DEF Chained, kind
  <2>3. CASE k = new
    <3>1. \A i \in Places(s, kind) : i <= j
      BY <1>1, <1>2, <2>3
    <3>2. s[j].u = last
      BY <2>1, <3>1 DEF EndsAt, kind
    <3> QED BY <1>1, <1>2, <2>1, <2>3, <3>2
  <2> QED BY <1>1, <2>2, <2>3
<1>4. EndsAt(t, kind, m.u)
  BY <1>1, <1>2 DEF EndsAt
<1> QED BY <1>1, <1>3, <1>4 DEF t, kind, new

\* The next message of its kind is sent: nothing more was delivered.
LEMMA AppendNext ==
  ASSUME NEW s \in Seq(Messages), NEW m \in Messages, NEW last \in Nat,
         InOrder(s, m.kind, last), m.U = last + 1, m.U <= m.u
  PROVE  /\ InOrder(Append(s, m), m.kind, m.u)
         /\ Delivered(Append(s, m), m.kind, m.u) = Delivered(s, m.kind, last)
<1> DEFINE t == Append(s, m)
           kind == m.kind
           new == Len(s) + 1
<1>1. /\ t \in Seq(Messages) /\ new \in Nat
      /\ t[new] = m
      /\ Places(t, kind) = Places(s, kind) \cup {new}
  BY AppendPlaces
<1>2. /\ Chained(t, kind)
      /\ EndsAt(t, kind, m.u)
  BY AppendChained DEF InOrder
<1>3. \A k \in Places(s, kind) : t[k] = s[k] /\ k \in Nat /\ k < new
                                 /\ s[k].u \in Nat /\ s[k].U \in Nat
  BY AppendPlaces, PlaceIsIndex
<1>4. m.U \in Nat /\ m.u \in Nat
  BY StreamConstants DEF Messages
<1> HIDE DEF t, kind, new
<1>5. InOrder(t, kind, m.u)
  <2> SUFFICES ASSUME NEW k \in Places(t, kind)
               PROVE  1 <= t[k].U /\ t[k].U <= t[k].u /\ t[k].u <= m.u
    BY <1>2 DEF InOrder
  <2>1. CASE k \in Places(s, kind)
    <3>1. 1 <= s[k].U /\ s[k].U <= s[k].u /\ s[k].u <= last
      BY <2>1 DEF InOrder, kind
    <3> QED BY <1>3, <1>4, <2>1, <3>1
  <2>2. CASE k = new
    BY <1>1, <1>4, <2>2
  <2> QED BY <1>1, <2>1, <2>2
<1>6. Delivered(t, kind, m.u) = Delivered(s, kind, last)
  <2>1. CASE Places(s, kind) = {}
    <3>1. new \in Places(t, kind) /\ \A k \in Places(t, kind) : new <= k
      BY <1>1, <2>1
    <3>2. Delivered(t, kind, m.u) = t[new].U - 1
      BY <1>1, <3>1, DeliveredBefore
    <3>3. Delivered(s, kind, last) = last
      BY <2>1 DEF Delivered
    <3> QED BY <1>1, <3>2, <3>3
  <2>2. CASE Places(s, kind) # {}
    <3>1. PICK f \in Places(s, kind) : \A k \in Places(s, kind) : f <= k
      BY <2>2, FirstPlace
    <3>2. f \in Places(t, kind) /\ \A k \in Places(t, kind) : f <= k
      BY <1>1, <1>3, <3>1
    <3>3. Delivered(t, kind, m.u) = t[f].U - 1
      BY <1>1, <3>2, DeliveredBefore
    <3>4. Delivered(s, kind, last) = s[f].U - 1
      BY <3>1, DeliveredBefore
    <3> QED BY <1>3, <3>1, <3>3, <3>4
  <2> QED BY <2>1, <2>2
<1> QED BY <1>5, <1>6 DEF t, kind

\* Where the messages of a kind are after the first message was taken.
LEMMA TailPlaces ==
  ASSUME NEW s \in Seq(Messages), s # <<>>, NEW kind
  PROVE  /\ Head(s) \in Messages /\ Tail(s) \in Seq(Messages) /\ Head(s) = s[1]
         /\ \A k \in Nat : k \in Places(Tail(s), kind) <=> k > 0 /\ k + 1 \in Places(s, kind)
         /\ \A k \in Places(Tail(s), kind) : Tail(s)[k] = s[k + 1] /\ k \in Nat /\ k > 0
         /\ 1 \in Places(s, kind) <=> Head(s).kind = kind
<1>1. /\ Head(s) \in Messages /\ Tail(s) \in Seq(Messages)
      /\ Len(Tail(s)) = Len(s) - 1
      /\ \A k \in 1..Len(Tail(s)) : Tail(s)[k] = s[k + 1]
  BY HeadTailProperties
<1>2. /\ Len(s) \in Nat \ {0}
      /\ DOMAIN s = 1..Len(s)
      /\ DOMAIN Tail(s) = 1..(Len(s) - 1)
  BY <1>1, LenProperties, EmptySeq
<1>3. Head(s) = s[1]
  BY <1>2
<1> DEFINE t == Tail(s)
           h == Head(s)
<1> HIDE DEF Messages, t, h
<1>4. \A k \in Nat : k \in Places(t, kind) <=> k > 0 /\ k + 1 \in Places(s, kind)
  BY <1>1, <1>2 DEF Places, t
<1>5. \A k \in Places(t, kind) : t[k] = s[k + 1] /\ k \in Nat /\ k > 0
  BY <1>1, <1>2 DEF Places, t
<1>6. 1 \in Places(s, kind) <=> h.kind = kind
  BY <1>2, <1>3 DEF Places, h
<1> QED BY <1>1, <1>3, <1>4, <1>5, <1>6 DEF t, h

\* What is in order stays so when the first message is taken.
LEMMA TailInOrder ==
  ASSUME NEW s \in Seq(Messages), s # <<>>, NEW kind, NEW last, InOrder(s, kind, last)
  PROVE  InOrder(Tail(s), kind, last)
<1> DEFINE t == Tail(s)
<1>1. /\ \A k \in Nat : k \in Places(t, kind) <=> k > 0 /\ k + 1 \in Places(s, kind)
      /\ \A k \in Places(t, kind) : t[k] = s[k + 1] /\ k \in Nat /\ k > 0
  BY TailPlaces
<1>2. \A k \in Places(s, kind) : k \in Nat /\ k > 0
  BY PlaceIsIndex
<1>3. \A k \in Places(s, kind) : k > 1 => k - 1 \in Places(t, kind)
  BY <1>1, <1>2
<1>4. \A k \in Places(t, kind) : k + 1 \in Places(s, kind)
  BY <1>1
<1> HIDE DEF t
<1>5. Chained(t, kind)
  <2> SUFFICES ASSUME NEW j \in Places(t, kind), NEW k \in Places(t, kind), j < k,
                      \A i \in Places(t, kind) : i <= j \/ k <= i
               PROVE  t[k].U = t[j].u + 1
    BY DEF Chained
  <2>1. \A i \in Places(s, kind) : i <= j + 1 \/ k + 1 <= i
    <3> SUFFICES ASSUME NEW i \in Places(s, kind)
                 PROVE  i <= j + 1 \/ k + 1 <= i
      OBVIOUS
    <3>1. CASE i = 1
      BY <1>1, <3>1
    <3>2. CASE i > 1
      <4>1. i - 1 <= j \/ k <= i - 1
        BY <1>3, <3>2
      <4> QED BY <1>1, <1>2, <4>1
    <3> QED BY <1>2, <3>1, <3>2
  <2>2. j + 1 < k + 1
    BY <1>1
  <2>3. s[k + 1].U = s[j + 1].u + 1
    BY <1>4, <2>1, <2>2 DEF InOrder, Chained
  <2> QED BY <1>1, <2>3
<1>6. EndsAt(t, kind, last)
  <2> SUFFICES ASSUME NEW k \in Places(t, kind), \A i \in Places(t, kind) : i <= k
               PROVE  t[k].u = last
    BY DEF EndsAt
  <2>1. \A i \in Places(s, kind) : i <= k + 1
    <3> SUFFICES ASSUME NEW i \in Places(s, kind), i > 1
                 PROVE  i <= k + 1
      BY <1>1, <1>2
    <3>1. i - 1 <= k
      BY <1>3
    <3> QED BY <1>1, <1>2, <3>1
  <2>2. s[k + 1].u = last
    BY <1>4, <2>1 DEF InOrder, EndsAt
  <2> QED BY <1>1, <2>2
<1>7. \A k \in Places(t, kind) : 1 <= t[k].U /\ t[k].U <= t[k].u /\ t[k].u <= last
  BY <1>1, <1>4 DEF InOrder
<1> QED BY <1>5, <1>6, <1>7 DEF InOrder, t

\* Taking a message of another kind delivers none of this one.
LEMMA TailOther ==
  ASSUME NEW s \in Seq(Messages), s # <<>>, NEW kind, NEW last, Head(s).kind # kind
  PROVE  Delivered(Tail(s), kind, last) = Delivered(s, kind, last)
<1> DEFINE t == Tail(s)
<1>1. /\ t \in Seq(Messages)
      /\ \A k \in Nat : k \in Places(t, kind) <=> k > 0 /\ k + 1 \in Places(s, kind)
      /\ \A k \in Places(t, kind) : t[k] = s[k + 1] /\ k \in Nat /\ k > 0
      /\ 1 \notin Places(s, kind)
  BY TailPlaces
<1>2. \A k \in Places(s, kind) : k \in Nat /\ k > 1 /\ k - 1 \in Nat
  BY <1>1, PlaceIsIndex
<1>3. \A k \in Places(s, kind) : k - 1 \in Places(t, kind) /\ t[k - 1] = s[k]
  <2> SUFFICES ASSUME NEW k \in Places(s, kind)
               PROVE  k - 1 \in Places(t, kind) /\ t[k - 1] = s[k]
    OBVIOUS
  <2>1. k - 1 \in Nat /\ k - 1 > 0 /\ (k - 1) + 1 = k
    BY <1>2
  <2>2. k - 1 \in Places(t, kind)
    BY <1>1, <2>1
  <2> QED BY <1>1, <2>1, <2>2
<1>4. \A k \in Places(t, kind) : k + 1 \in Places(s, kind)
  BY <1>1
<1> HIDE DEF t
<1>5. CASE Places(s, kind) = {}
  BY <1>4, <1>5 DEF Delivered, t
<1>6. CASE Places(s, kind) # {}
  <2>1. PICK f \in Places(s, kind) : \A k \in Places(s, kind) : f <= k
    BY <1>6, FirstPlace
  <2>2. f - 1 \in Places(t, kind) /\ \A k \in Places(t, kind) : f - 1 <= k
    <3>1. \A k \in Places(t, kind) : f <= k + 1
      BY <1>4, <2>1
    <3> QED BY <1>1, <1>2, <1>3, <2>1, <3>1
  <2>3. Delivered(t, kind, last) = t[f - 1].U - 1
    BY <1>1, <2>2, DeliveredBefore
  <2>4. Delivered(s, kind, last) = s[f].U - 1
    BY <2>1, DeliveredBefore
  <2> QED BY <1>3, <2>1, <2>3, <2>4 DEF t
<1> QED BY <1>5, <1>6

\* Taking a message of this kind delivers it, right after the one before.
LEMMA TailNext ==
  ASSUME NEW s \in Seq(Messages), s # <<>>, NEW last \in Nat, InOrder(s, Head(s).kind, last)
  PROVE  /\ Delivered(s, Head(s).kind, last) = Head(s).U - 1
         /\ Delivered(Tail(s), Head(s).kind, last) = Head(s).u
         /\ 1 <= Head(s).U /\ Head(s).U <= Head(s).u /\ Head(s).u <= last
<1> DEFINE t == Tail(s)
           kind == Head(s).kind
<1>1. /\ t \in Seq(Messages)
      /\ \A k \in Nat : k \in Places(t, kind) <=> k > 0 /\ k + 1 \in Places(s, kind)
      /\ \A k \in Places(t, kind) : t[k] = s[k + 1] /\ k \in Nat /\ k > 0
      /\ 1 \in Places(s, kind) /\ Head(s) = s[1]
  BY TailPlaces
<1>2. \A k \in Places(s, kind) : k \in Nat /\ k > 0 /\ s[k].U \in Nat /\ s[k].u \in Nat
  BY PlaceIsIndex
<1>3. Delivered(s, kind, last) = Head(s).U - 1
  <2>1. \A k \in Places(s, kind) : 1 <= k
    BY <1>2
  <2> HIDE DEF kind
  <2> QED BY <1>1, <2>1, DeliveredBefore
<1>4. 1 <= Head(s).U /\ Head(s).U <= Head(s).u /\ Head(s).u <= last
  BY <1>1 DEF InOrder
<1>5. Delivered(t, kind, last) = Head(s).u
  <2> HIDE DEF t, kind
  <2>1. CASE Places(t, kind) = {}
    <3>1. \A k \in Places(s, kind) : k <= 1
      <4> SUFFICES ASSUME NEW k \in Places(s, kind), k > 1
                   PROVE  FALSE
        BY <1>2
      <4>1. k - 1 \in Nat /\ k - 1 > 0 /\ (k - 1) + 1 = k
        BY <1>2
      <4>2. k - 1 \in Places(t, kind)
        BY <1>1, <4>1
      <4> QED BY <2>1, <4>2
    <3>2. s[1].u = last
      BY <1>1, <3>1 DEF InOrder, EndsAt, kind
    <3> QED BY <1>1, <2>1, <3>2 DEF Delivered
  <2>2. CASE Places(t, kind) # {}
    <3>1. PICK f \in Places(t, kind) : \A k \in Places(t, kind) : f <= k
      BY <1>1, <2>2, FirstPlace
    <3>2. Delivered(t, kind, last) = t[f].U - 1
      BY <1>1, <3>1, DeliveredBefore
    <3>3. f + 1 \in Places(s, kind) /\ 1 < f + 1
      BY <1>1, <3>1
    <3>4. \A i \in Places(s, kind) : i <= 1 \/ f + 1 <= i
      <4> SUFFICES ASSUME NEW i \in Places(s, kind), i > 1
                   PROVE  f + 1 <= i
        BY <1>2
      <4>1. i - 1 \in Nat /\ i - 1 > 0 /\ (i - 1) + 1 = i
        BY <1>2
      <4>2. i - 1 \in Places(t, kind)
        BY <1>1, <4>1
      <4>3. f <= i - 1
        BY <3>1, <4>2
      <4> QED BY <1>1, <1>2, <3>1, <4>3
    <3>5. s[f + 1].U = s[1].u + 1
      BY <1>1, <3>3, <3>4 DEF InOrder, Chained, kind
    <3>6. t[f] = s[f + 1]
      BY <1>1, <3>1
    <3>7. s[1].u \in Nat
      BY <1>1, <1>2
    <3>8. t[f].U = s[1].u + 1
      BY <3>5, <3>6
    <3>9. Head(s).u = s[1].u
      BY <1>1
    <3> QED BY <3>2, <3>7, <3>8, <3>9
  <2> QED BY <2>1, <2>2
<1> QED BY <1>3, <1>4, <1>5 DEF t, kind

-----------------------------------------------------------------------------
(* The updates found in the buffer, and the events they become.            *)

\* In a sequence of diffs every index is a place.
LEMMA DiffPlaces ==
  ASSUME NEW s \in Seq(Messages), AllDiffs(s)
  PROVE  /\ Places(s, "diff") = 1..Len(s)
         /\ \A kind : kind # "diff" => Places(s, kind) = {}
  BY LenProperties DEF AllDiffs, Places

\* A buffer's updates from one of them on are in order as well.
LEMMA SuffixInOrder ==
  ASSUME NEW s \in Seq(Messages), AllDiffs(s), NEW d, InOrder(s, "diff", d),
         NEW first \in 1..Len(s)
  PROVE  LET u == SubSeq(s, first, Len(s))
         IN  /\ u \in Seq(Messages) /\ AllDiffs(u) /\ u # <<>>
             /\ InOrder(u, "diff", d)
             /\ u[1] = s[first]
             /\ u[Len(u)].u = d
<1> DEFINE u == SubSeq(s, first, Len(s))
           n == Len(s) - first + 1
<1>1. /\ Len(s) \in Nat /\ DOMAIN s = 1..Len(s)
      /\ n \in Nat /\ n > 0 /\ n + first - 1 = Len(s)
      /\ \A i \in first..Len(s) : s[i] \in Messages
  BY LenProperties, ElementOfSeq
<1>2. u \in Seq(Messages) /\ Len(u) = n /\ \A i \in 1..n : u[i] = s[first + i - 1]
  BY <1>1, SubSeqProperties
<1>3. DOMAIN u = 1..n /\ u # <<>>
  <2>1. DOMAIN u = 1..n
    BY <1>2, LenProperties
  <2>2. Len(u) # 0
    BY <1>1, <1>2
  <2> QED BY <2>1, <2>2, EmptySeq
<1> HIDE DEF u
<1>4. AllDiffs(u)
  <2> SUFFICES ASSUME NEW k \in 1..n
               PROVE  u[k].kind = "diff"
    BY <1>3 DEF AllDiffs
  <2>1. first + k - 1 \in 1..Len(s)
    BY <1>1
  <2>2. s[first + k - 1].kind = "diff"
    BY <1>1, <2>1 DEF AllDiffs
  <2> QED BY <1>2, <2>2
<1>5. Places(u, "diff") = 1..n /\ Places(s, "diff") = 1..Len(s)
  BY <1>2, <1>4, DiffPlaces
<1>6. u[1] = s[first] /\ u[n] = s[Len(s)]
  BY <1>1, <1>2
<1>7. s[Len(s)].u = d
  BY <1>1, <1>5 DEF InOrder, EndsAt
<1>8. Chained(u, "diff")
  <2> SUFFICES ASSUME NEW j \in 1..n, NEW k \in 1..n, j < k, \A i \in 1..n : i <= j \/ k <= i
               PROVE  u[k].U = u[j].u + 1
    BY <1>5 DEF Chained
  <2>1. k = j + 1
    BY <1>1
  <2>2. first + j - 1 \in 1..Len(s) /\ first + k - 1 \in 1..Len(s) /\ first + k - 1 = (first + j - 1) + 1
    BY <1>1, <2>1
  <2> DEFINE a == first + j - 1
             b == first + k - 1
  <2> HIDE DEF a, b
  <2>3. \A i \in 1..Len(s) : i <= a \/ b <= i
    BY <1>1, <2>2 DEF a, b
  <2>4. s[b].U = s[a].u + 1
    <3>1. a \in Places(s, "diff") /\ b \in Places(s, "diff") /\ a < b
      BY <1>1, <1>5, <2>2 DEF a, b
    <3> QED BY <1>5, <2>3, <3>1 DEF InOrder, Chained
  <2> QED BY <1>2, <2>4 DEF a, b
<1>9. EndsAt(u, "diff", d)
  <2> SUFFICES ASSUME NEW k \in 1..n, \A i \in 1..n : i <= k
               PROVE  u[k].u = d
    BY <1>5 DEF EndsAt
  <2>1. k = n
    BY <1>1
  <2> QED BY <1>6, <1>7, <2>1
<1>10. \A k \in Places(u, "diff") : 1 <= u[k].U /\ u[k].U <= u[k].u /\ u[k].u <= d
  <2> SUFFICES ASSUME NEW k \in 1..n
               PROVE  1 <= u[k].U /\ u[k].U <= u[k].u /\ u[k].u <= d
    BY <1>5
  <2>1. first + k - 1 \in 1..Len(s)
    BY <1>1
  <2> QED BY <1>2, <1>5, <2>1 DEF InOrder
<1> QED BY <1>2, <1>3, <1>4, <1>6, <1>7, <1>8, <1>9, <1>10 DEF u, InOrder

\* The updates found, if any, start with one that covers the id after the
\* book's and end where the buffer does.
LEMMA UpdatesFound ==
  ASSUME NEW buffer \in Seq(Messages), AllDiffs(buffer), NEW d, InOrder(buffer, "diff", d),
         NEW id, RealUpdates(buffer, id) # <<>>
  PROVE  LET u == RealUpdates(buffer, id)
         IN  /\ u \in Seq(Messages) /\ AllDiffs(u)
             /\ InOrder(u, "diff", d)
             /\ Covers(u[1], id)
             /\ u[Len(u)].u = d
<1> DEFINE found == {k \in DOMAIN buffer : Covers(buffer[k], id)}
           first == CHOOSE k \in found : \A j \in found : k <= j
<1>1. found # {}
  BY DEF RealUpdates
<1>2. RealUpdates(buffer, id) = SubSeq(buffer, first, Len(buffer))
  BY <1>1 DEF RealUpdates
<1>3. DOMAIN buffer = 1..Len(buffer) /\ Len(buffer) \in Nat
  BY LenProperties
<1>4. found \subseteq Nat
  BY <1>3
<1> HIDE DEF found
<1>5. PICK f \in found : \A k \in found : ~ (<<k, f>> \in OpToRel(<, Nat))
  BY <1>1, <1>4, NatLessThanWellFounded, WFMin
<1>6. \A k \in found : f <= k
  <2>1. \A k \in found : ~ (k < f)
    BY <1>4, <1>5 DEF OpToRel
  <2> QED BY <1>4, <2>1
<1>7. first \in found
  BY <1>6
<1> HIDE DEF first
<1>8. first \in 1..Len(buffer) /\ Covers(buffer[first], id)
  BY <1>3, <1>7 DEF found
<1> QED BY <1>2, <1>8, SuffixInOrder

\* Updates that are added to events without any.
LEMMA UpdatesAdded ==
  ASSUME NEW s \in Seq(Messages), Places(s, "diff") = {},
         NEW u \in Seq(Messages), u # <<>>, AllDiffs(u), NEW d, InOrder(u, "diff", d)
  PROVE  LET t == s \o u
         IN  /\ t \in Seq(Messages)
             /\ \A k \in 1..Len(s) : t[k] = s[k]
             /\ \A kind : kind # "diff" => Places(t, kind) = Places(s, kind)
             /\ Len(s) + 1 \in Places(t, "diff")
             /\ \A k \in Places(t, "diff") : k >= Len(s) + 1
             /\ t[Len(s) + 1] = u[1]
             /\ Chained(t, "diff")
             /\ EndsAt(t, "diff", d)
<1> DEFINE t == s \o u
           n == Len(s)
           m == Len(u)
<1>1. /\ n \in Nat /\ DOMAIN s = 1..n /\ m \in Nat /\ DOMAIN u = 1..m
  BY LenProperties
<1>2. /\ t \in Seq(Messages) /\ Len(t) = n + m
      /\ \A k \in 1..(n + m) : t[k] = IF k <= n THEN s[k] ELSE u[k - n]
  BY ConcatProperties
<1>3. DOMAIN t = 1..(n + m)
  BY <1>2, LenProperties
<1>4. m # 0
  BY EmptySeq
<1> HIDE DEF t, n, m
<1>5. \A k \in 1..n : t[k] = s[k]
  BY <1>1, <1>2
<1>6. \A k \in 1..m : t[n + k] = u[k] /\ n + k \in 1..(n + m)
  <2> SUFFICES ASSUME NEW k \in 1..m
               PROVE  t[n + k] = u[k] /\ n + k \in 1..(n + m)
    OBVIOUS
  <2>1. n + k \in 1..(n + m) /\ ~(n + k <= n) /\ (n + k) - n = k
    BY <1>1
  <2> QED BY <1>2, <2>1
<1>7. \A k \in 1..(n + m) : k \in 1..n \/ (k > n /\ k - n \in 1..m /\ n + (k - n) = k)
  BY <1>1
<1>8. Places(u, "diff") = 1..m /\ \A k \in 1..m : u[k].kind = "diff"
  BY <1>1, DiffPlaces DEF AllDiffs, m
<1>9. \A k \in 1..n : s[k].kind # "diff"
  BY <1>1 DEF Places
<1>10. \A k : k \in Places(t, "diff") <=> k \in 1..(n + m) /\ k > n
  <2> SUFFICES ASSUME NEW k \in 1..(n + m)
               PROVE  t[k].kind = "diff" <=> k > n
    BY <1>3 DEF Places
  <2>1. CASE k \in 1..n
    BY <1>1, <1>5, <1>9, <2>1
  <2>2. CASE k > n /\ k - n \in 1..m /\ n + (k - n) = k
    BY <1>6, <1>8, <2>2
  <2> QED BY <1>7, <2>1, <2>2
<1>11. ASSUME NEW kind, kind # "diff"
       PROVE  Places(t, kind) = Places(s, kind)
  <2>1. \A k \in 1..(n + m) : k > n => t[k].kind = "diff"
    BY <1>3, <1>10 DEF Places
  <2>2. \A k \in 1..(n + m) : k \in 1..n \/ t[k].kind = "diff"
    BY <1>7, <2>1
  <2>3. 1..n \subseteq 1..(n + m)
    BY <1>1
  <2> QED BY <1>1, <1>3, <1>5, <1>11, <2>2, <2>3 DEF Places
<1>12. n + 1 \in Places(t, "diff") /\ t[n + 1] = u[1]
       /\ \A k \in Places(t, "diff") : k >= n + 1
  BY <1>1, <1>4, <1>6, <1>10
<1>13. Chained(t, "diff")
  <2> SUFFICES ASSUME NEW j \in Places(t, "diff"), NEW k \in Places(t, "diff"), j < k,
                      \A i \in Places(t, "diff") : i <= j \/ k <= i
               PROVE  t[k].U = t[j].u + 1
    BY DEF Chained
  <2> DEFINE a == j - n
             b == k - n
  <2>1. a \in 1..m /\ b \in 1..m /\ n + a = j /\ n + b = k /\ a < b
    BY <1>1, <1>7, <1>10
  <2> HIDE DEF a, b
  <2>2. \A i \in 1..m : i <= a \/ b <= i
    <3> SUFFICES ASSUME NEW i \in 1..m
                 PROVE  i <= a \/ b <= i
      OBVIOUS
    <3>1. n + i \in Places(t, "diff")
      <4>1. n + i \in 1..(n + m) /\ n + i > n
        BY <1>1
      <4> QED BY <1>10, <4>1
    <3>2. n + i <= j \/ k <= n + i
      BY <3>1
    <3> QED BY <1>1, <2>1, <3>2
  <2>3. u[b].U = u[a].u + 1
    BY <1>8, <2>1, <2>2 DEF InOrder, Chained
  <2>4. t[j] = u[a] /\ t[k] = u[b]
    BY <1>6, <2>1
  <2> QED BY <2>3, <2>4
<1>14. EndsAt(t, "diff", d)
  <2>1. n + m \in Places(t, "diff") /\ t[n + m] = u[m] /\ m \in 1..m
    BY <1>1, <1>4, <1>6, <1>10
  <2>2. u[m].u = d
    BY <1>1, <1>8, <2>1 DEF InOrder, EndsAt
  <2>3. \A k \in Places(t, "diff") : n + m <= k => k = n + m
    BY <1>1, <1>10
  <2> QED BY <2>1, <2>2, <2>3 DEF EndsAt
<1> QED BY <1>2, <1>5, <1>11, <1>12, <1>13, <1>14 DEF t, n

\* The book is out, and nothing since but trades.
BookAlone(s, id, last_trade) ==
  /\ s \in Seq(Messages) /\ s # <<>>
  /\ s[1].kind = "book" /\ s[1].u = id
  /\ Places(s, "book") \subseteq {1} /\ Places(s, "diff") = {}
  /\ Chained(s, "trade") /\ EndsAt(s, "trade", last_trade)

\* What ProcessBufferedUpdates leaves: the updates from the first that covers
\* the book on, or the book alone.
LEMMA UpdatesProcessed ==
  ASSUME NEW before \in Seq(Messages), forwarded \in Seq(Messages),
         order_book_stream_started \/ before # <<>>, order_book_stream_started \in BOOLEAN,
         NEW id, NEW last_trade, BookAlone(forwarded \o before, id, last_trade),
         NEW buffer \in Seq(Messages), AllDiffs(buffer),
         NEW d, InOrder(buffer, "diff", d),
         ProcessBufferedUpdates(before, buffer, id)
  PROVE  /\ forwarded' \in Seq(Messages) /\ forwarded' # <<>> /\ forwarded'[1].kind = "book"
         /\ order_book_stream_started' = TRUE
         /\ Places(forwarded', "book") \subseteq {1}
         /\ Chained(forwarded', "trade") /\ EndsAt(forwarded', "trade", last_trade)
         /\ GapFree'
         /\ \/ /\ init_stage' = "SEARCH_FOR_FIRST_REAL_UPDATE"
               /\ depth_updates_buffer' = buffer /\ UNCHANGED previous_last_update_id
               /\ BookAlone(forwarded', id, last_trade)
            \/ /\ init_stage' = "STREAM_STARTED"
               /\ depth_updates_buffer' = <<>> /\ previous_last_update_id' = d
               /\ Places(forwarded', "diff") # {} /\ EndsAt(forwarded', "diff", d)
<1> DEFINE s == forwarded \o before
           u == RealUpdates(buffer, id)
<1>1. /\ s \in Seq(Messages) /\ s # <<>>
      /\ s[1].kind = "book" /\ s[1].u = id
      /\ Places(s, "book") \subseteq {1} /\ Places(s, "diff") = {}
      /\ Chained(s, "trade") /\ EndsAt(s, "trade", last_trade)
  BY DEF BookAlone
<1>2. /\ forwarded' = forwarded \o (before \o u)
      /\ order_book_stream_started' = (order_book_stream_started \/ before \o u # <<>>)
  BY DEF ProcessBufferedUpdates, OnOrderBookUpdate
<1>3. u = <<>> => /\ init_stage' = "SEARCH_FOR_FIRST_REAL_UPDATE"
                  /\ depth_updates_buffer' = buffer /\ UNCHANGED previous_last_update_id
  BY DEF ProcessBufferedUpdates
<1>4. u # <<>> => /\ init_stage' = "STREAM_STARTED"
                  /\ depth_updates_buffer' = <<>> /\ previous_last_update_id' = u[Len(u)].u
  BY DEF ProcessBufferedUpdates, Last
<1>5. u # <<>> => /\ u \in Seq(Messages) /\ AllDiffs(u)
                  /\ InOrder(u, "diff", d)
                  /\ Covers(u[1], id)
                  /\ u[Len(u)].u = d
  BY UpdatesFound
<1> HIDE DEF u
<1>6. u \in Seq(Messages)
  BY <1>5, EmptySeq
<1>7. forwarded' = s \o u
  BY <1>2, <1>6, ConcatAssociative
<1>8. order_book_stream_started' = TRUE
  <2>1. before \o u = <<>> => before = <<>>
    BY <1>6, ConcatEqualIffEmpty
  <2> QED BY <1>2, <2>1
<1> HIDE DEF s
<1>9. CASE u = <<>>
  <2>1. forwarded' = s
    BY <1>1, <1>7, <1>9, ConcatEmptySeq
  <2>2. GapFree'
    BY <1>1, <2>1 DEF GapFree, Chained
  <2> QED BY <1>1, <1>3, <1>8, <1>9, <2>1, <2>2 DEF BookAlone
<1>10. CASE u # <<>>
  <2>1. /\ forwarded' \in Seq(Messages)
        /\ \A k \in 1..Len(s) : forwarded'[k] = s[k]
        /\ \A kind : kind # "diff" => Places(forwarded', kind) = Places(s, kind)
        /\ Len(s) + 1 \in Places(forwarded', "diff")
        /\ \A k \in Places(forwarded', "diff") : k >= Len(s) + 1
        /\ forwarded'[Len(s) + 1] = u[1]
        /\ Chained(forwarded', "diff")
        /\ EndsAt(forwarded', "diff", d)
    <3> DEFINE t == s \o u
    <3>1. /\ t \in Seq(Messages)
          /\ \A k \in 1..Len(s) : t[k] = s[k]
          /\ \A kind : kind # "diff" => Places(t, kind) = Places(s, kind)
          /\ Len(s) + 1 \in Places(t, "diff")
          /\ \A k \in Places(t, "diff") : k >= Len(s) + 1
          /\ t[Len(s) + 1] = u[1]
          /\ Chained(t, "diff")
          /\ EndsAt(t, "diff", d)
      BY <1>1, <1>5, <1>10, UpdatesAdded
    <3> QED BY <1>7, <3>1
  <2>2. Len(s) \in Nat \ {0}
    BY <1>1, EmptySeq
  <2>3. forwarded'[1] = s[1] /\ forwarded' # <<>>
    BY <2>1, <2>2, LenProperties DEF Places
  <2>4. /\ Places(forwarded', "book") = Places(s, "book")
        /\ Places(forwarded', "trade") = Places(s, "trade")
    BY <2>1
  <2>5. \A k \in Places(s, "trade") : s[k] = forwarded'[k]
    BY <1>1, <2>1, PlaceIsIndex
  <2>6. Chained(forwarded', "trade") /\ EndsAt(forwarded', "trade", last_trade)
    BY <1>1, <2>1, <2>4, <2>5, SamePlaces
  <2>7. Places(s, "book") = {1}
    BY <1>1, <2>2, LenProperties DEF Places
  <2>8. GapFree'
    <3>1. \A e \in Places(forwarded', "diff") :
            (\A f \in Places(forwarded', "diff") : e <= f) => e = Len(s) + 1
      BY <1>1, <2>1, <2>2, PlaceIsIndex
    <3>2. Covers(forwarded'[Len(s) + 1], forwarded'[1].u)
      BY <1>1, <1>5, <1>10, <2>1, <2>3
    <3>3. \A e \in Places(forwarded', "diff") : 1 < e
      BY <2>1, <2>2, PlaceIsIndex
    <3> QED BY <2>1, <2>4, <2>7, <3>1, <3>2, <3>3 DEF GapFree
  <2> QED BY <1>1, <1>4, <1>5, <1>8, <1>10, <2>1, <2>3, <2>4, <2>6, <2>8
<1> QED BY <1>9, <1>10

-----------------------------------------------------------------------------
(* The exchange's steps.                                                   *)

\* The ids of messages the exchange sends and of books it answers with.
LEMMA MessageTypes ==
  /\ \A first, last \in 0..MaxId : Diff(first, last) \in Messages
  /\ \A id \in 0..MaxId : BookAsOf(id) \in Messages
  /\ \A n \in 0..MaxTrades : Trade(n) \in Messages
<1>1. /\ 0..MaxId \subseteq 0..(MaxId + MaxTrades)
      /\ 0..MaxTrades \subseteq 0..(MaxId + MaxTrades)
      /\ 1 \in 0..(MaxId + MaxTrades)
  BY StreamConstants
<1> QED BY <1>1 DEF Diff, BookAsOf, Trade, Messages

\* No message is delivered before it is sent.
LEMMA DeliveredBound ==
  ASSUME NEW s \in Seq(Messages), NEW kind, NEW last \in Nat, InOrder(s, kind, last)
  PROVE  Delivered(s, kind, last) \in 0..last
<1>1. CASE Places(s, kind) = {}
  BY <1>1 DEF Delivered
<1>2. CASE Places(s, kind) # {}
  <2>1. PICK f \in Places(s, kind) : \A k \in Places(s, kind) : f <= k
    BY <1>2, FirstPlace
  <2>2. Delivered(s, kind, last) = s[f].U - 1
    BY <2>1, DeliveredBefore
  <2>3. 1 <= s[f].U /\ s[f].U <= s[f].u /\ s[f].u <= last /\ s[f].U \in Nat /\ s[f].u \in Nat
    BY <2>1, PlaceIsIndex DEF InOrder
  <2> QED BY <2>2, <2>3
<1> QED BY <1>1, <1>2

\* While nothing is delivered the client's side stays right.
LEMMA ClientKept ==
  ASSUME StreamInv, UNCHANGED client_vars,
         Delivered(wire, "diff", sent_id)' = Delivered(wire, "diff", sent_id),
         Delivered(wire, "trade", trades)' = Delivered(wire, "trade", trades)
  PROVE  BufferInv' /\ StageInv' /\ GapFree' /\ NothingHeldBack' /\ TradesContiguous'
<1>1. /\ UNCHANGED <<init_stage, depth_updates_buffer, depth_last_update_id,
                     previous_last_update_id, order_book_stream_started, forwarded>>
      /\ BufferInv /\ StageInv /\ GapFree /\ NothingHeldBack /\ TradesContiguous
  BY DEF StreamInv, client_vars
<1>2. BufferInv'
  BY <1>1 DEF BufferInv
<1>3. StageInv'
  BY <1>1 DEF StageInv
<1>4. GapFree'
  BY <1>1 DEF GapFree
<1>5. NothingHeldBack'
  BY <1>1 DEF NothingHeldBack
<1>6. TradesContiguous'
  BY <1>1 DEF TradesContiguous
<1> QED BY <1>2, <1>3, <1>4, <1>5, <1>6

LEMMA ChangeBookInv ==
  ASSUME StreamInv, ChangeBook
  PROVE  StreamInv'
<1>1. TypeOK /\ WireInv /\ RequestInv
  BY DEF StreamInv
<1>2. /\ server_id' = server_id + 1 /\ server_id < MaxId
      /\ UNCHANGED <<sent_id, trades, wire, rest>> /\ UNCHANGED client_vars
  BY DEF ChangeBook
<1>3. server_id \in Nat /\ server_id' \in FirstId..MaxId
  BY <1>1, <1>2, StreamConstants DEF TypeOK
<1>4. TypeOK'
  BY <1>1, <1>2, <1>3, StreamConstants DEF TypeOK, client_vars
<1>5. WireInv'
  BY <1>1, <1>2 DEF WireInv
<1>6. RequestInv'
  BY <1>1, <1>2, <1>3 DEF RequestInv, TypeOK, client_vars
<1>7. BufferInv' /\ StageInv' /\ GapFree' /\ NothingHeldBack' /\ TradesContiguous'
  BY <1>2, ClientKept
<1> QED BY <1>4, <1>5, <1>6, <1>7 DEF StreamInv

LEMMA SendDiffInv ==
  ASSUME StreamInv, SendDiff
  PROVE  StreamInv'
<1> DEFINE m == Diff(sent_id + 1, server_id)
<1>1. TypeOK /\ WireInv /\ RequestInv
  BY DEF StreamInv
<1>2. /\ sent_id < server_id /\ wire' = Append(wire, m) /\ sent_id' = server_id
      /\ UNCHANGED <<server_id, trades, rest>> /\ UNCHANGED client_vars
  BY DEF SendDiff
<1>3. sent_id \in Nat /\ server_id \in Nat /\ server_id <= MaxId /\ wire \in Seq(Messages)
  BY <1>1, StreamConstants DEF TypeOK
<1>4. /\ m \in Messages /\ m.kind = "diff" /\ m.U = sent_id + 1 /\ m.u = server_id
      /\ m.U <= m.u
  <2>1. sent_id + 1 \in 0..MaxId /\ server_id \in 0..MaxId /\ sent_id + 1 <= server_id
    BY <1>2, <1>3, StreamConstants
  <2> QED BY <2>1, MessageTypes DEF Diff
<1> HIDE DEF m
<1>5. /\ InOrder(wire', "diff", sent_id')
      /\ Delivered(wire, "diff", sent_id)' = Delivered(wire, "diff", sent_id)
  BY <1>1, <1>2, <1>3, <1>4, AppendNext DEF WireInv
<1>6. /\ InOrder(wire', "trade", trades')
      /\ Delivered(wire, "trade", trades)' = Delivered(wire, "trade", trades)
  BY <1>1, <1>2, <1>3, <1>4, AppendOther DEF WireInv
<1>7. wire' \in Seq(Messages)
  BY <1>2, <1>3, <1>4, AppendProperties
<1>8. TypeOK'
  BY <1>1, <1>2, <1>3, <1>7, StreamConstants DEF TypeOK, client_vars
<1>9. RequestInv'
  BY <1>1, <1>2 DEF RequestInv, client_vars
<1>10. BufferInv' /\ StageInv' /\ GapFree' /\ NothingHeldBack' /\ TradesContiguous'
  BY <1>2, <1>5, <1>6, ClientKept
<1> QED BY <1>5, <1>6, <1>8, <1>9, <1>10 DEF StreamInv, WireInv

LEMMA SendTradeInv ==
  ASSUME StreamInv, SendTrade
  PROVE  StreamInv'
<1> DEFINE m == Trade(trades')
<1>1. TypeOK /\ WireInv /\ RequestInv
  BY DEF StreamInv
<1>2. /\ trades < MaxTrades /\ trades' = trades + 1 /\ wire' = Append(wire, m)
      /\ UNCHANGED <<server_id, sent_id, rest>> /\ UNCHANGED client_vars
  BY DEF SendTrade
<1>3. trades \in Nat /\ wire \in Seq(Messages) /\ trades' \in 0..MaxTrades /\ trades' \in Nat
  BY <1>1, <1>2, StreamConstants DEF TypeOK
<1>4. /\ m \in Messages /\ m.kind = "trade" /\ m.U = trades + 1 /\ m.u = trades'
      /\ m.U <= m.u
  BY <1>2, <1>3, MessageTypes DEF Trade
<1> HIDE DEF m
<1>5. /\ InOrder(wire', "trade", trades')
      /\ Delivered(wire, "trade", trades)' = Delivered(wire, "trade", trades)
  BY <1>1, <1>2, <1>3, <1>4, AppendNext DEF WireInv
<1>6. /\ InOrder(wire', "diff", sent_id')
      /\ Delivered(wire, "diff", sent_id)' = Delivered(wire, "diff", sent_id)
  BY <1>1, <1>2, <1>3, <1>4, AppendOther DEF WireInv
<1>7. wire' \in Seq(Messages)
  BY <1>2, <1>3, <1>4, AppendProperties
<1>8. TypeOK'
  BY <1>1, <1>2, <1>3, <1>7 DEF TypeOK, client_vars
<1>9. RequestInv'
  BY <1>1, <1>2 DEF RequestInv, client_vars
<1>10. BufferInv' /\ StageInv' /\ GapFree' /\ NothingHeldBack' /\ TradesContiguous'
  BY <1>2, <1>5, <1>6, ClientKept
<1> QED BY <1>5, <1>6, <1>8, <1>9, <1>10 DEF StreamInv, WireInv

LEMMA AnswerInv ==
  ASSUME StreamInv, AnswerDepthRequest
  PROVE  StreamInv'
<1>1. TypeOK /\ WireInv /\ RequestInv
  BY DEF StreamInv
<1>2. PICK lag \in 0..MaxStale : rest' = [state |-> "answered", id |-> server_id - lag]
  BY DEF AnswerDepthRequest
<1>3. rest.state = "requested" /\ UNCHANGED <<server_id, sent_id, trades, wire>>
      /\ UNCHANGED client_vars
  BY DEF AnswerDepthRequest, server_vars
<1>4. server_id - lag \in 0..MaxId /\ server_id - lag <= server_id
  BY <1>1, StreamConstants DEF TypeOK
<1>5. rest' \in [state : {"none", "requested", "answered"}, id : 0..MaxId]
      /\ rest'.id <= server_id
  BY <1>2, <1>4
<1>6. TypeOK'
  BY <1>1, <1>3, <1>5 DEF TypeOK, client_vars
<1>7. WireInv'
  BY <1>1, <1>3 DEF WireInv
<1>8. RequestInv'
  BY <1>1, <1>3, <1>5 DEF RequestInv, client_vars
<1>9. BufferInv' /\ StageInv' /\ GapFree' /\ NothingHeldBack' /\ TradesContiguous'
  BY <1>3, ClientKept
<1> QED BY <1>6, <1>7, <1>8, <1>9 DEF StreamInv

-----------------------------------------------------------------------------
(* The client's callbacks.                                                 *)

\* A message of another kind does not concern the book's events.
LEMMA GapKept ==
  ASSUME GapFree, forwarded \in Seq(Messages), forwarded' \in Seq(Messages),
         Places(forwarded', "book") = Places(forwarded, "book"),
         Places(forwarded', "diff") = Places(forwarded, "diff"),
         \A k \in 1..Len(forwarded) : forwarded'[k] = forwarded[k]
  PROVE  GapFree'
<1>1. /\ \A k \in Places(forwarded, "book") : forwarded'[k] = forwarded[k]
      /\ \A k \in Places(forwarded, "diff") : forwarded'[k] = forwarded[k]
  BY PlaceIsIndex
<1>2. Chained(forwarded', "diff")
  BY <1>1 DEF GapFree, Chained
<1> QED BY <1>1, <1>2 DEF GapFree

\* Nothing is wrong with no events at all.
LEMMA NoPlaces ==
  ASSUME NEW kind, NEW last
  PROVE  /\ Places(<<>>, kind) = {}
         /\ Chained(<<>>, kind) /\ EndsAt(<<>>, kind, last) /\ InOrder(<<>>, kind, last)
<1>1. Places(<<>>, kind) = {}
  BY DEF Places
<1> QED BY <1>1 DEF Chained, EndsAt, InOrder

LEMMA OnTradeReceivedInv ==
  ASSUME StreamInv, OnTradeReceived
  PROVE  StreamInv'
<1> DEFINE h == Head(wire)
           diff_id == Delivered(wire, "diff", sent_id)
<1>1. TypeOK /\ WireInv /\ BufferInv /\ RequestInv /\ StageInv /\ GapFree /\ NothingHeldBack
      /\ TradesContiguous
  BY DEF StreamInv
<1>2. /\ wire # <<>> /\ h.kind = "trade" /\ wire' = Tail(wire)
      /\ forwarded' = IF order_book_stream_started THEN Append(forwarded, h) ELSE forwarded
      /\ UNCHANGED <<server_id, sent_id, trades, rest, init_stage, depth_updates_buffer,
                     depth_last_update_id, previous_last_update_id, order_book_stream_started>>
  BY DEF OnTradeReceived, server_vars
<1>3. wire \in Seq(Messages) /\ forwarded \in Seq(Messages) /\ trades \in Nat
      /\ sent_id \in Nat /\ order_book_stream_started \in BOOLEAN
  BY <1>1, StreamConstants DEF TypeOK
<1>4. h \in Messages /\ wire' \in Seq(Messages)
  BY <1>2, <1>3, HeadTailProperties
<1>5. /\ InOrder(wire', "diff", sent_id) /\ InOrder(wire', "trade", trades)
      /\ Delivered(wire', "diff", sent_id) = diff_id
  BY <1>1, <1>2, <1>3, TailInOrder, TailOther DEF WireInv
<1>6. /\ Delivered(wire, "trade", trades) = h.U - 1
      /\ Delivered(wire', "trade", trades) = h.u
      /\ 1 <= h.U
  BY <1>1, <1>2, <1>3, TailNext DEF WireInv
<1>7. h.U - 1 \in Nat /\ h.U = (h.U - 1) + 1
  BY <1>4, <1>6, StreamConstants DEF Messages
<1> HIDE DEF h, diff_id
<1>8. /\ forwarded' \in Seq(Messages)
      /\ forwarded' # <<>> <=> forwarded # <<>>
      /\ \A k \in 1..Len(forwarded) : forwarded'[k] = forwarded[k]
      /\ Places(forwarded', "book") = Places(forwarded, "book")
      /\ Places(forwarded', "diff") = Places(forwarded, "diff")
      /\ EndsAt(forwarded, "diff", diff_id) => EndsAt(forwarded', "diff", diff_id)
      /\ Chained(forwarded', "trade")
      /\ EndsAt(forwarded', "trade", h.u)
  <2>1. CASE order_book_stream_started
    <3>1. forwarded' = Append(forwarded, h) /\ forwarded # <<>>
      BY <1>1, <1>2, <2>1 DEF StageInv
    <3>2. /\ Places(Append(forwarded, h), "book") = Places(forwarded, "book")
          /\ Places(Append(forwarded, h), "diff") = Places(forwarded, "diff")
          /\ EndsAt(forwarded, "diff", diff_id) => EndsAt(Append(forwarded, h), "diff", diff_id)
      BY <1>2, <1>3, <1>4, AppendOther
    <3>3. Chained(forwarded, "trade") /\ EndsAt(forwarded, "trade", h.U - 1)
      BY <1>1, <1>6 DEF TradesContiguous
    <3>4. Chained(Append(forwarded, h), "trade") /\ EndsAt(Append(forwarded, h), "trade", h.u)
      BY <1>2, <1>3, <1>4, <1>7, <3>3, AppendChained
    <3>5. Append(forwarded, h) \in Seq(Messages) /\ Append(forwarded, h) # <<>>
          /\ \A k \in 1..Len(forwarded) : Append(forwarded, h)[k] = forwarded[k]
      BY <1>3, <1>4, AppendProperties
    <3> QED BY <3>1, <3>2, <3>4, <3>5
  <2>2. CASE ~order_book_stream_started
    <3>1. forwarded' = forwarded /\ forwarded = <<>>
      BY <1>1, <1>2, <2>2 DEF StageInv
    <3> QED BY <1>3, <3>1, NoPlaces
  <2> QED BY <1>3, <2>1, <2>2
<1>9. forwarded # <<>> => forwarded'[1] = forwarded[1]
  <2>1. forwarded # <<>> => 1 \in 1..Len(forwarded)
    BY <1>3, EmptySeq
  <2> QED BY <1>8, <2>1
<1>10. TypeOK'
  BY <1>1, <1>2, <1>4, <1>8 DEF TypeOK
<1>11. WireInv' /\ RequestInv'
  BY <1>1, <1>2, <1>5 DEF WireInv, RequestInv
<1>12. BufferInv'
  BY <1>1, <1>2, <1>5 DEF BufferInv, diff_id
<1>13. StageInv'
  <2>1. init_stage = "SEARCH_FOR_FIRST_REAL_UPDATE" => forwarded # <<>>
    BY <1>1 DEF StageInv
  <2> QED BY <1>1, <1>2, <1>8, <1>9, <2>1 DEF StageInv
<1>14. GapFree'
  BY <1>1, <1>3, <1>8, GapKept
<1>15. NothingHeldBack'
  BY <1>1, <1>2, <1>5, <1>8 DEF NothingHeldBack, diff_id
<1>16. TradesContiguous'
  BY <1>1, <1>2, <1>6, <1>8, <1>9 DEF TradesContiguous
<1> QED BY <1>10, <1>11, <1>12, <1>13, <1>14, <1>15, <1>16 DEF StreamInv

\* A diff is taken off the connection: it goes on where the last one ended,
\* and where the buffer does.
LEMMA DiffTaken ==
  ASSUME StreamInv, NextDiff, UNCHANGED server_vars
  PROVE  LET h == Head(wire)
             b == Append(depth_updates_buffer, h)
         IN  /\ WireInv' /\ wire' \in Seq(Messages)
             /\ h \in Messages /\ h.kind = "diff"
             /\ h.U = Delivered(wire, "diff", sent_id) + 1 /\ h.U <= h.u
             /\ Delivered(wire, "diff", sent_id) \in Nat
             /\ h.u \in 0..server_id /\ 1 <= h.U
             /\ Delivered(wire, "diff", sent_id)' = h.u
             /\ Delivered(wire, "trade", trades)' = Delivered(wire, "trade", trades)
             /\ b \in Seq(Messages) /\ b # <<>> /\ AllDiffs(b)
             /\ InOrder(b, "diff", h.u)
<1> DEFINE h == Head(wire)
           b == Append(depth_updates_buffer, h)
           d == Delivered(wire, "diff", sent_id)
<1>1. TypeOK /\ WireInv /\ BufferInv
  BY DEF StreamInv
<1>2. wire # <<>> /\ h.kind = "diff" /\ wire' = Tail(wire)
      /\ UNCHANGED <<server_id, sent_id, trades>>
  BY DEF NextDiff, server_vars
<1>3. wire \in Seq(Messages) /\ depth_updates_buffer \in Seq(Messages)
      /\ sent_id \in Nat /\ server_id \in Nat /\ sent_id <= server_id
  BY <1>1, StreamConstants DEF TypeOK
<1>4. h \in Messages /\ wire' \in Seq(Messages)
  BY <1>2, <1>3, HeadTailProperties
<1>5. /\ InOrder(wire', "diff", sent_id) /\ InOrder(wire', "trade", trades)
      /\ Delivered(wire', "trade", trades) = Delivered(wire, "trade", trades)
  BY <1>1, <1>2, <1>3, TailInOrder, TailOther DEF WireInv
<1>6. /\ d = h.U - 1
      /\ Delivered(wire', "diff", sent_id) = h.u
      /\ 1 <= h.U /\ h.U <= h.u /\ h.u <= sent_id
  BY <1>1, <1>2, <1>3, TailNext DEF WireInv
<1>7. h.U \in Nat /\ h.u \in Nat
  BY <1>4, StreamConstants DEF Messages
<1>8. d \in Nat /\ h.U = d + 1 /\ h.u \in 0..server_id
  BY <1>3, <1>6, <1>7
<1> HIDE DEF h, d
<1>9. InOrder(depth_updates_buffer, "diff", d)
  BY <1>1, NoPlaces DEF BufferInv, d
<1>10. InOrder(b, "diff", h.u)
  BY <1>2, <1>3, <1>4, <1>6, <1>8, <1>9, AppendNext
<1>11. b \in Seq(Messages) /\ b # <<>>
  BY <1>3, <1>4, AppendProperties
<1>12. AllDiffs(b)
  <2>1. DOMAIN b = 1..(Len(depth_updates_buffer) + 1) /\ Len(depth_updates_buffer) \in Nat
        /\ b[Len(depth_updates_buffer) + 1] = h
        /\ \A k \in 1..Len(depth_updates_buffer) : b[k] = depth_updates_buffer[k]
    BY <1>3, <1>4, AppendPlaces
  <2>2. \A k \in 1..Len(depth_updates_buffer) : depth_updates_buffer[k].kind = "diff"
    BY <1>1, <1>3, LenProperties DEF BufferInv, AllDiffs
  <2> HIDE DEF b
  <2>3. \A k \in 1..(Len(depth_updates_buffer) + 1) :
          k \in 1..Len(depth_updates_buffer) \/ k = Len(depth_updates_buffer) + 1
    BY <2>1
  <2> QED BY <1>2, <2>1, <2>2, <2>3 DEF AllDiffs
<1>13. WireInv'
  BY <1>2, <1>5 DEF WireInv
<1> QED BY <1>2, <1>4, <1>5, <1>6, <1>8, <1>10, <1>11, <1>12, <1>13 DEF h, d

\* FirstUpdate and BufferUpdate: the update joins the buffer, nothing is said.
LEMMA BufferedInv ==
  ASSUME StreamInv, FirstUpdate \/ BufferUpdate
  PROVE  StreamInv'
<1> DEFINE h == Head(wire)
           b == Append(depth_updates_buffer, h)
<1>1. TypeOK /\ BufferInv /\ RequestInv /\ StageInv /\ GapFree /\ TradesContiguous
  BY DEF StreamInv
<1>2. /\ init_stage \in {"WAIT_FOR_FIRST_BUFFER_UPDATE", "DEPTH_SNAPSHOT_REQUESTED"}
      /\ init_stage' = "DEPTH_SNAPSHOT_REQUESTED"
      /\ NextDiff /\ depth_updates_buffer' = b
      /\ rest' = rest \/ rest' = [state |-> "requested", id |-> NoAnswer]
      /\ UNCHANGED server_vars
      /\ UNCHANGED <<depth_last_update_id, previous_last_update_id, order_book_stream_started,
                     forwarded>>
  BY DEF FirstUpdate, BufferUpdate
<1>3. /\ WireInv' /\ wire' \in Seq(Messages)
      /\ Delivered(wire, "diff", sent_id)' = h.u
      /\ Delivered(wire, "trade", trades)' = Delivered(wire, "trade", trades)
      /\ b \in Seq(Messages) /\ b # <<>> /\ AllDiffs(b)
      /\ InOrder(b, "diff", h.u)
  BY <1>2, DiffTaken
<1> HIDE DEF h, b
<1>4. UNCHANGED <<server_id, sent_id, trades>>
  BY <1>2 DEF server_vars
<1>5. /\ rest' \in [state : {"none", "requested", "answered"}, id : 0..MaxId]
      /\ rest'.id <= server_id
  BY <1>1, <1>2, StreamConstants DEF TypeOK, RequestInv, NoAnswer
<1>6. TypeOK'
  BY <1>1, <1>2, <1>3, <1>4, <1>5 DEF TypeOK
<1>7. BufferInv'
  BY <1>2, <1>3 DEF BufferInv
<1>8. RequestInv'
  BY <1>2, <1>4, <1>5 DEF RequestInv
<1>9. StageInv'
  BY <1>1, <1>2 DEF StageInv
<1>10. GapFree'
  BY <1>1, <1>2 DEF GapFree
<1>11. NothingHeldBack'
  BY <1>2 DEF NothingHeldBack
<1>12. TradesContiguous'
  BY <1>1, <1>2, <1>3 DEF TradesContiguous
<1> QED BY <1>3, <1>6, <1>7, <1>8, <1>9, <1>10, <1>11, <1>12 DEF StreamInv

LEMMA SearchUpdateInv ==
  ASSUME StreamInv, SearchUpdate
  PROVE  StreamInv'
<1> DEFINE h == Head(wire)
           b == Append(depth_updates_buffer, h)
           id == depth_last_update_id
           t == Delivered(wire, "trade", trades)
<1>1. TypeOK /\ RequestInv /\ StageInv /\ TradesContiguous
  BY DEF StreamInv
<1>2. /\ init_stage = "SEARCH_FOR_FIRST_REAL_UPDATE" /\ NextDiff
      /\ ProcessBufferedUpdates(<<>>, b, id)
      /\ UNCHANGED server_vars /\ UNCHANGED <<rest, depth_last_update_id>>
  BY DEF SearchUpdate
<1>3. /\ WireInv' /\ wire' \in Seq(Messages)
      /\ h.u \in 0..server_id
      /\ Delivered(wire, "diff", sent_id)' = h.u
      /\ Delivered(wire, "trade", trades)' = t
      /\ b \in Seq(Messages) /\ b # <<>> /\ AllDiffs(b)
      /\ InOrder(b, "diff", h.u)
  BY <1>2, DiffTaken
<1> HIDE DEF h, b, t
<1>4. UNCHANGED <<server_id, sent_id, trades>>
  BY <1>2 DEF server_vars
<1>5. forwarded \in Seq(Messages) /\ order_book_stream_started = TRUE
  BY <1>1, <1>2 DEF TypeOK, StageInv
<1>6. BookAlone(forwarded \o <<>>, id, t)
  <2>1. forwarded \o <<>> = forwarded
    BY <1>5, ConcatEmptySeq
  <2>2. BookAlone(forwarded, id, t)
    BY <1>1, <1>2, <1>5 DEF BookAlone, StageInv, TradesContiguous, t
  <2> QED BY <2>1, <2>2
<1>7. /\ forwarded' \in Seq(Messages) /\ forwarded' # <<>> /\ forwarded'[1].kind = "book"
      /\ order_book_stream_started' = TRUE
      /\ Places(forwarded', "book") \subseteq {1}
      /\ Chained(forwarded', "trade") /\ EndsAt(forwarded', "trade", t)
      /\ GapFree'
      /\ \/ /\ init_stage' = "SEARCH_FOR_FIRST_REAL_UPDATE"
            /\ depth_updates_buffer' = b /\ UNCHANGED previous_last_update_id
            /\ BookAlone(forwarded', id, t)
         \/ /\ init_stage' = "STREAM_STARTED"
            /\ depth_updates_buffer' = <<>> /\ previous_last_update_id' = h.u
            /\ Places(forwarded', "diff") # {} /\ EndsAt(forwarded', "diff", h.u)
  <2>1. <<>> \in Seq(Messages)
    BY EmptySeq
  <2> QED BY <1>2, <1>3, <1>5, <1>6, <2>1, UpdatesProcessed
<1>8. TypeOK'
  BY <1>1, <1>2, <1>3, <1>4, <1>7, EmptySeq DEF TypeOK
<1>9. BufferInv'
  BY <1>3, <1>7, NoPlaces DEF BufferInv, AllDiffs
<1>10. RequestInv'
  BY <1>1, <1>2, <1>4 DEF RequestInv
<1>11. StageInv'
  BY <1>2, <1>7 DEF StageInv, BookAlone
<1>12. NothingHeldBack'
  BY <1>3, <1>7 DEF NothingHeldBack
<1>13. TradesContiguous'
  BY <1>3, <1>7 DEF TradesContiguous
<1> QED BY <1>3, <1>7, <1>8, <1>9, <1>10, <1>11, <1>12, <1>13 DEF StreamInv

LEMMA ForwardUpdateInv ==
  ASSUME StreamInv, ForwardUpdate
  PROVE  StreamInv'
<1> DEFINE h == Head(wire)
           n == Len(forwarded)
           t == Delivered(wire, "trade", trades)
<1>1. TypeOK /\ BufferInv /\ RequestInv /\ StageInv /\ GapFree /\ NothingHeldBack
      /\ TradesContiguous
  BY DEF StreamInv
<1>2. /\ init_stage = "STREAM_STARTED" /\ NextDiff
      /\ previous_last_update_id' = h.u
      /\ forwarded' = forwarded \o <<h>>
      /\ order_book_stream_started' = (order_book_stream_started \/ <<h>> # <<>>)
      /\ UNCHANGED server_vars
      /\ UNCHANGED <<rest, init_stage, depth_updates_buffer, depth_last_update_id>>
  BY DEF ForwardUpdate, OnOrderBookUpdate
<1>3. /\ WireInv' /\ wire' \in Seq(Messages)
      /\ h \in Messages /\ h.kind = "diff"
      /\ h.U = Delivered(wire, "diff", sent_id) + 1
      /\ Delivered(wire, "diff", sent_id) \in Nat
      /\ h.u \in 0..server_id
      /\ Delivered(wire, "diff", sent_id)' = h.u
      /\ Delivered(wire, "trade", trades)' = t
  BY <1>2, DiffTaken
<1> HIDE DEF h, t
<1>4. UNCHANGED <<server_id, sent_id, trades>>
  BY <1>2 DEF server_vars
<1>5. forwarded \in Seq(Messages) /\ forwarded # <<>> /\ order_book_stream_started = TRUE
  BY <1>1, <1>2 DEF TypeOK, StageInv
<1>6. depth_updates_buffer = <<>>
  BY <1>1, <1>2 DEF NothingHeldBack
<1>7. forwarded' = Append(forwarded, h) /\ order_book_stream_started' = TRUE
  BY <1>2, <1>3, <1>5, AppendIsConcat
<1>8. /\ forwarded' \in Seq(Messages) /\ forwarded' # <<>>
      /\ n \in Nat
      /\ forwarded'[n + 1] = h
      /\ \A k \in 1..n : forwarded'[k] = forwarded[k]
      /\ Places(forwarded', "diff") = Places(forwarded, "diff") \cup {n + 1}
  BY <1>3, <1>5, <1>7, AppendPlaces, AppendProperties
<1>9. forwarded'[1] = forwarded[1]
  <2>1. n # 0
    BY <1>5, EmptySeq
  <2> QED BY <1>8, <2>1
<1>10. /\ Places(forwarded', "book") = Places(forwarded, "book")
       /\ Chained(forwarded', "trade")
       /\ EndsAt(forwarded', "trade", t)
  BY <1>1, <1>3, <1>5, <1>7, AppendOther DEF TradesContiguous, t
<1>11. Chained(forwarded', "diff") /\ EndsAt(forwarded', "diff", h.u)
  <2> DEFINE d == Delivered(wire, "diff", sent_id)
  <2>1. Chained(forwarded, "diff") /\ EndsAt(forwarded, "diff", d)
    BY <1>1, <1>2 DEF GapFree, NothingHeldBack
  <2>2. d \in Nat /\ h.U = d + 1
    BY <1>3
  <2> HIDE DEF d
  <2> QED BY <1>3, <1>5, <1>7, <2>1, <2>2, AppendChained
<1> HIDE DEF n
<1>12. GapFree'
  <2> DEFINE books == Places(forwarded, "book")
             diffs == Places(forwarded, "diff")
  <2>1. PICK first \in diffs : TRUE
    BY <1>1, <1>2 DEF NothingHeldBack
  <2>2. /\ \A k \in books : k \in 1..n /\ k \in Nat
        /\ \A k \in diffs : k \in 1..n /\ k \in Nat
    BY <1>5, PlaceIsIndex DEF n
  <2>3. /\ \A k \in books : k < n + 1 /\ forwarded'[k] = forwarded[k]
        /\ \A k \in diffs : k < n + 1 /\ forwarded'[k] = forwarded[k]
    BY <1>8, <2>2
  <2>4. \A b, c \in books : b = c
    BY <1>1 DEF GapFree
  <2>5. \A d \in diffs \cup {n + 1} : \E b \in books : b < d
    BY <1>1, <2>1, <2>3 DEF GapFree
  <2>6. \A b \in books, d \in diffs \cup {n + 1} :
          (\A e \in diffs \cup {n + 1} : d <= e) => Covers(forwarded'[d], forwarded'[b].u)
    <3> SUFFICES ASSUME NEW b \in books, NEW d \in diffs \cup {n + 1},
                        \A e \in diffs \cup {n + 1} : d <= e
                 PROVE  Covers(forwarded'[d], forwarded'[b].u)
      OBVIOUS
    <3>1. d \in diffs
      BY <1>8, <2>1, <2>2, <2>3
    <3>2. Covers(forwarded[d], forwarded[b].u)
      BY <1>1, <3>1 DEF GapFree
    <3> QED BY <2>3, <3>1, <3>2
  <2> QED BY <1>8, <1>10, <1>11, <2>4, <2>5, <2>6 DEF GapFree
<1>13. TypeOK'
  BY <1>1, <1>2, <1>3, <1>4, <1>7, <1>8 DEF TypeOK
<1>14. BufferInv'
  BY <1>1, <1>2, <1>6 DEF BufferInv
<1>15. RequestInv'
  BY <1>1, <1>2, <1>4 DEF RequestInv
<1>16. StageInv'
  BY <1>1, <1>2, <1>7, <1>8, <1>10 DEF StageInv
<1>17. NothingHeldBack'
  BY <1>2, <1>3, <1>6, <1>8, <1>11 DEF NothingHeldBack
<1>18. TradesContiguous'
  BY <1>1, <1>3, <1>5, <1>9, <1>10 DEF TradesContiguous
<1> QED BY <1>3, <1>12, <1>13, <1>14, <1>15, <1>16, <1>17, <1>18 DEF StreamInv

\* The book goes out first of all events.
LEMMA DepthReceivedInv ==
  ASSUME StreamInv, OnBinAPIDepthRecieve
  PROVE  StreamInv'
<1> DEFINE book == BookAsOf(rest.id)
           d == Delivered(wire, "diff", sent_id)
           t == Delivered(wire, "trade", trades)
<1>1. TypeOK /\ WireInv /\ BufferInv /\ RequestInv /\ StageInv
  BY DEF StreamInv
<1>2. /\ rest.state = "answered"
      /\ rest' = [rest EXCEPT !.state = "none"]
      /\ depth_last_update_id' = rest.id
      /\ ProcessBufferedUpdates(<<book>>, depth_updates_buffer, rest.id)
      /\ UNCHANGED <<server_id, sent_id, trades, wire>>
  BY DEF OnBinAPIDepthRecieve, server_vars
<1>3. /\ rest.id \in 0..server_id /\ rest.id \in 0..MaxId
      /\ wire \in Seq(Messages) /\ depth_updates_buffer \in Seq(Messages)
      /\ sent_id \in Nat /\ sent_id <= server_id /\ server_id \in Nat
      /\ order_book_stream_started \in BOOLEAN
  BY <1>1, StreamConstants DEF TypeOK, RequestInv
<1>4. init_stage = "DEPTH_SNAPSHOT_REQUESTED"
  BY <1>1, <1>2 DEF RequestInv
<1>5. /\ depth_updates_buffer # <<>> /\ AllDiffs(depth_updates_buffer)
      /\ InOrder(depth_updates_buffer, "diff", d)
  BY <1>1, <1>4 DEF BufferInv
<1>6. forwarded = <<>>
  BY <1>1, <1>4 DEF StageInv
<1>7. d \in 0..server_id
  <2>1. d \in 0..sent_id
    BY <1>1, <1>3, DeliveredBound DEF WireInv
  <2> QED BY <1>3, <2>1
<1>8. book \in Messages /\ book.kind = "book" /\ book.u = rest.id
  BY <1>3, MessageTypes DEF BookAsOf
<1> HIDE DEF book, d, t
<1>9. /\ <<book>> \in Seq(Messages) /\ <<book>> # <<>>
      /\ forwarded \o <<book>> = <<book>> /\ forwarded \in Seq(Messages)
  BY <1>6, <1>8, ConcatEmptySeq, EmptySeq
<1>10. BookAlone(forwarded \o <<book>>, rest.id, t)
  <2>1. /\ Places(<<book>>, "book") = {1}
        /\ Places(<<book>>, "diff") = {} /\ Places(<<book>>, "trade") = {}
    BY <1>8 DEF Places
  <2>2. Chained(<<book>>, "trade") /\ EndsAt(<<book>>, "trade", t)
    BY <2>1 DEF Chained, EndsAt
  <2>3. BookAlone(<<book>>, rest.id, t)
    BY <1>8, <1>9, <2>1, <2>2 DEF BookAlone
  <2> QED BY <1>9, <2>3
<1>11. /\ forwarded' \in Seq(Messages) /\ forwarded' # <<>> /\ forwarded'[1].kind = "book"
       /\ order_book_stream_started' = TRUE
       /\ Places(forwarded', "book") \subseteq {1}
       /\ Chained(forwarded', "trade") /\ EndsAt(forwarded', "trade", t)
       /\ GapFree'
       /\ \/ /\ init_stage' = "SEARCH_FOR_FIRST_REAL_UPDATE"
             /\ depth_updates_buffer' = depth_updates_buffer
             /\ UNCHANGED previous_last_update_id
             /\ BookAlone(forwarded', rest.id, t)
          \/ /\ init_stage' = "STREAM_STARTED"
             /\ depth_updates_buffer' = <<>> /\ previous_last_update_id' = d
             /\ Places(forwarded', "diff") # {} /\ EndsAt(forwarded', "diff", d)
  BY <1>2, <1>3, <1>5, <1>9, <1>10, UpdatesProcessed
<1>12. Delivered(wire, "diff", sent_id)' = d /\ Delivered(wire, "trade", trades)' = t
  BY <1>2 DEF d, t
<1>13. rest' \in [state : {"none", "requested", "answered"}, id : 0..MaxId]
       /\ rest'.state = "none" /\ rest'.id = rest.id
  BY <1>1, <1>2 DEF TypeOK
<1>14. TypeOK'
  BY <1>1, <1>2, <1>3, <1>7, <1>11, <1>13, EmptySeq DEF TypeOK
<1>15. WireInv'
  BY <1>1, <1>2 DEF WireInv
<1>16. BufferInv'
  BY <1>5, <1>11, <1>12, NoPlaces DEF BufferInv, AllDiffs
<1>17. RequestInv'
  BY <1>2, <1>3, <1>13 DEF RequestInv
<1>18. StageInv'
  BY <1>2, <1>11 DEF StageInv, BookAlone
<1>19. NothingHeldBack'
  BY <1>11, <1>12 DEF NothingHeldBack
<1>20. TradesContiguous'
  BY <1>11, <1>12 DEF TradesContiguous
<1> QED BY <1>11, <1>14, <1>15, <1>16, <1>17, <1>18, <1>19, <1>20 DEF StreamInv

-----------------------------------------------------------------------------
(* The theorems.                                                           *)

LEMMA InitInv == Init => StreamInv
<1> SUFFICES ASSUME Init
             PROVE  StreamInv
  OBVIOUS
<1>1. TypeOK
  <2>1. <<>> \in Seq(Messages)
    BY EmptySeq
  <2>2. FirstId \in FirstId..MaxId /\ FirstId \in FirstId..FirstId /\ 0 \in 0..MaxTrades
        /\ 0 \in 0..MaxId /\ 0 \in 0..FirstId
    BY StreamConstants
  <2>3. wire \in Seq(Messages) /\ depth_updates_buffer \in Seq(Messages)
        /\ forwarded \in Seq(Messages)
    BY <2>1 DEF Init
  <2>4. rest \in [state : {"none", "requested", "answered"}, id : 0..MaxId]
    BY <2>2 DEF Init, NoAnswer
  <2> QED BY <2>2, <2>3, <2>4 DEF Init, TypeOK
<1>2. WireInv
  BY NoPlaces DEF Init, WireInv
<1>3. BufferInv
  BY DEF Init, BufferInv, AllDiffs
<1>4. RequestInv
  BY StreamConstants DEF Init, RequestInv, NoAnswer
<1>5. StageInv
  BY NoPlaces DEF Init, StageInv
<1>6. GapFree
  BY NoPlaces DEF Init, GapFree
<1>7. NothingHeldBack
  BY DEF Init, NothingHeldBack
<1>8. TradesContiguous
  BY NoPlaces DEF Init, TradesContiguous
<1> QED BY <1>1, <1>2, <1>3, <1>4, <1>5, <1>6, <1>7, <1>8 DEF StreamInv

\* Every step, and none at all, keeps the invariant.
LEMMA NextInv == StreamInv /\ [Next]_vars => StreamInv'
<1> SUFFICES ASSUME StreamInv, [Next]_vars
             PROVE  StreamInv'
  OBVIOUS
<1>1. CASE UNCHANGED vars
  <2>1. UNCHANGED <<server_id, sent_id, trades, wire, rest>> /\ UNCHANGED client_vars
    BY <1>1 DEF vars, server_vars
  <2>2. BufferInv' /\ StageInv' /\ GapFree' /\ NothingHeldBack' /\ TradesContiguous'
    BY <2>1, ClientKept
  <2>3. TypeOK' /\ WireInv' /\ RequestInv'
    BY <2>1 DEF StreamInv, TypeOK, WireInv, RequestInv, client_vars
  <2> QED BY <2>2, <2>3 DEF StreamInv
<1>2. CASE Client
  BY <1>2, OnTradeReceivedInv, BufferedInv, SearchUpdateInv, ForwardUpdateInv, DepthReceivedInv
     DEF Client
<1>3. CASE Quiet
  BY <1>1, <1>3 DEF Quiet
<1> QED BY <1>1, <1>2, <1>3, ChangeBookInv, SendDiffInv, SendTradeInv, AnswerInv DEF Next

LEMMA InvCorrect == Spec => []StreamInv
  BY InitInv, NextInv, PTL DEF Spec

\* The variables of the exchange and of the forwarder have their types: in
\* particular no id of the forwarder runs ahead of the exchange's.
THEOREM StreamTypeCorrect == Spec => []TypeOK
<1>1. StreamInv => TypeOK
  BY DEF StreamInv
<1> QED BY <1>1, InvCorrect, PTL

\* Listeners get one book and then diffs that continue it without a hole,
\* however the depth answer and the diffs interleave
\* (order_book_stream_forwarder.cc:26-91).
THEOREM GapFreeCorrect == Spec => []GapFree
<1>1. StreamInv => GapFree
  BY DEF StreamInv
<1> QED BY <1>1, InvCorrect, PTL

\* A stream that has started holds no received diff back
\* (order_book_stream_forwarder.cc:46-51, 77-91).
THEOREM NothingHeldBackCorrect == Spec => []NothingHeldBack
<1>1. StreamInv => NothingHeldBack
  BY DEF StreamInv
<1> QED BY <1>1, InvCorrect, PTL

\* Trades come after the book and none of them is dropped once it is out
\* (market_stream_forwarder.cc:33-47).
THEOREM TradesContiguousCorrect == Spec => []TradesContiguous
<1>1. StreamInv => TradesContiguous
  BY DEF StreamInv
<1> QED BY <1>1, InvCorrect, PTL

=============================================================================
