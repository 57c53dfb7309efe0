------------------------- MODULE TrackedReplayProofs ------------------------
(***************************************************************************)
(* What replay to a custom platform guarantees for every set of records,   *)
(* every capacity, table and number of faults: the variables keep their    *)
(* types, and no record is removed that the broker has not received.  The  *)
(* invariant follows a message from its publication to its PUBACK: its id  *)
(* names one record, in the outbox, in the table and in between, and a     *)
(* PUBACK is about a message whose record arrived.                         *)
(***************************************************************************)
EXTENDS TrackedReplay, FiniteSetTheorems, WellFoundedInduction, TLAPS

RecordTypes ==
  /\ held \subseteq Seqs /\ handed \subseteq Seqs /\ lost \subseteq Seqs
  /\ late \subseteq Seqs /\ removed \subseteq Seqs /\ delivered \subseteq Seqs

StateTypes ==
  /\ outstanding \in BOOLEAN /\ backoff \in BOOLEAN /\ fresh \in BOOLEAN
  /\ conn \in BOOLEAN /\ stable \in BOOLEAN /\ net \in BOOLEAN
  /\ rseq \in Seqs \cup {None}
  /\ apc \in {"idle", "remove", "clear"} /\ token \in Seqs \cup {None}

\* replay_task has a record between peek and return, and an id once sent
TaskTypes ==
  /\ rpc \in {"idle", "peeked", "marked", "publish", "sent"}
  /\ cur \in Seqs \cup {None} /\ mid \in Ids \cup {None}
  /\ rpc # "idle" => cur \in Seqs
  /\ rpc = "sent" => mid \in Ids

WireTypes ==
  /\ outbox \subseteq Ids \X Seqs /\ acks \subseteq Ids
  /\ tracked \subseteq Ids \X Seqs

\* the message that replay_task has sent and not registered yet
Unregistered == IF rpc = "sent" THEN {<<mid, cur>>} ELSE {}
Carried == outbox \cup tracked \cup Unregistered

OneRecordPerId == \A p, q \in Carried : p[1] = q[1] => p = q

AnsweredArrived == \A m \in acks : \E p \in outbox :
                     p[1] = m /\ p[2] \in delivered

RemovesArrived ==
  /\ apc = "remove" => token \in delivered
  /\ removed \subseteq delivered

ReplayInv == /\ RecordTypes /\ StateTypes /\ TaskTypes /\ WireTypes
             /\ OneRecordPerId /\ AnsweredArrived /\ RemovesArrived

\* A nonempty set of sequence identifiers has an oldest one.
LEMMA OldestIn ==
  ASSUME NEW S, S \subseteq Seqs, S # {}
  PROVE  Oldest(S) \in S /\ \A t \in S : Oldest(S) <= t
<1>1. S \subseteq Nat
  BY SeqsAssumption
<1>2. PICK x \in S : \A y \in S : ~ (<<y, x>> \in OpToRel(<, Nat))
  BY <1>1, NatLessThanWellFounded, WFMin
<1>3. \A y \in S : ~ (y < x)
  BY <1>1, <1>2 DEF OpToRel
<1>4. \E s \in S : \A y \in S : s <= y
  BY <1>1, <1>3
<1>5. QED
  BY <1>4 DEF Oldest

\* Nothing is in flight at the start.
LEMMA ReplayInvInit == Init => ReplayInv
BY DEF Init, ReplayInv, RecordTypes, StateTypes, TaskTypes, WireTypes,
    OneRecordPerId, Carried, Unregistered, AnsweredArrived, RemovesArrived,
    None

\* A full store gives up its oldest record; nothing else changes.
LEMMA PutKeepsInv ==
  ASSUME ReplayInv, NEW s \in Seqs, Put(s)
  PROVE  ReplayInv'
<1>1. /\ UNCHANGED <<uif, replay, handler, link, wire, faults, removed>>
      /\ UNCHANGED delivered
  BY DEF Put
<1>2. held' \subseteq Seqs /\ lost' \subseteq Seqs
  <2>1. CASE Cardinality(held) >= Capacity
    <3>1. held # {}
      BY <2>1, FS_EmptySet, CapacityAssumption
    <3>2. Oldest(held) \in Seqs
      BY <3>1, OldestIn DEF ReplayInv, RecordTypes
    <3>3. QED
      BY <2>1, <3>2 DEF Put, ReplayInv, RecordTypes
  <2>2. CASE ~(Cardinality(held) >= Capacity)
    BY <2>2 DEF Put, ReplayInv, RecordTypes
  <2>3. QED
    BY <2>1, <2>2
<1>3. RecordTypes'
  BY <1>1, <1>2 DEF Put, ReplayInv, RecordTypes
<1>4. QED
  BY <1>1, <1>3
  DEF ReplayInv, StateTypes, TaskTypes, WireTypes, OneRecordPerId, Carried,
      Unregistered, AnsweredArrived, RemovesArrived, uif, replay, handler,
      link, wire

\* The steps of replay_task but the publication touch no message on the wire.
LEMMA TaskKeepsInv ==
  ASSUME ReplayInv,
         \/ ReplayTimeout \/ ReplayPeek \/ ReplayMarkSequence
         \/ ReplayMarkOutstanding \/ ReplayPublishFails \/ ReplayNoSlot
  PROVE  ReplayInv'
<1>1. ReplayPeek => cur' \in Seqs
  BY OldestIn DEF ReplayPeek, MayReplay, ReplayInv, RecordTypes
<1>2. RecordTypes' /\ RemovesArrived'
  BY DEF ReplayTimeout, ReplayPeek, ReplayMarkSequence, ReplayMarkOutstanding,
     ReplayPublishFails, ReplayNoSlot, cache, handler, ReplayInv, RecordTypes,
     RemovesArrived
<1>3. StateTypes' /\ TaskTypes'
  BY <1>1
  DEF ReplayTimeout, ReplayPeek, ReplayMarkSequence, ReplayMarkOutstanding,
      ReplayPublishFails, ReplayNoSlot, Returned, replay, uif, handler,
      link, ReplayInv, StateTypes, TaskTypes
<1>4. UNCHANGED <<outbox, acks, tracked, delivered>>
  BY DEF ReplayTimeout, ReplayPeek, ReplayMarkSequence, ReplayMarkOutstanding,
     ReplayPublishFails, ReplayNoSlot, wire, handler
<1>5. rpc' # "sent"
  BY DEF ReplayTimeout, MayReplay, replay, ReplayPeek, ReplayMarkSequence,
     ReplayMarkOutstanding, ReplayPublishFails, ReplayNoSlot, Returned
<1>6. WireTypes' /\ AnsweredArrived'
  BY <1>4 DEF ReplayInv, WireTypes, AnsweredArrived
<1>7. Carried' \subseteq Carried
  BY <1>4, <1>5 DEF Carried, Unregistered
<1>8. OneRecordPerId'
  BY <1>7 DEF ReplayInv, OneRecordPerId
<1>9. QED
  BY <1>2, <1>3, <1>6, <1>8 DEF ReplayInv

\* A new message gets an id that no other carries.
LEMMA PublishKeepsInv ==
  ASSUME ReplayInv, ReplayPublish
  PROVE  ReplayInv'
<1>1. mid' \in FreeIds /\ outbox' = outbox \cup {<<mid', cur>>}
  BY DEF ReplayPublish
<1>2. mid' \in Ids /\ \A p \in outbox \cup tracked : p[1] # mid'
  BY <1>1 DEF FreeIds
<1>3. rpc = "publish" /\ rpc' = "sent" /\ UNCHANGED <<cur, tracked, acks>>
  BY DEF ReplayPublish, handler
<1>4. RecordTypes' /\ StateTypes' /\ RemovesArrived' /\ delivered' = delivered
  BY DEF ReplayPublish, ReplayInv, RecordTypes, StateTypes, RemovesArrived,
     uif, handler, link, cache
<1>5. cur \in Seqs
  BY <1>3 DEF ReplayInv, TaskTypes
<1>6. TaskTypes' /\ WireTypes'
  BY <1>1, <1>2, <1>3, <1>5 DEF ReplayInv, TaskTypes, WireTypes
<1>7. OneRecordPerId'
  <2>1. Carried' = (outbox \cup tracked) \cup {<<mid', cur>>}
    BY <1>1, <1>3 DEF Carried, Unregistered
  <2>2. \A p, q \in outbox \cup tracked : p[1] = q[1] => p = q
    BY DEF ReplayInv, OneRecordPerId, Carried
  <2>3. QED
    BY <1>2, <2>1, <2>2 DEF OneRecordPerId
<1>8. AnsweredArrived'
  BY <1>1, <1>3, <1>4 DEF ReplayInv, AnsweredArrived
<1>9. QED
  BY <1>4, <1>6, <1>7, <1>8 DEF ReplayInv

\* The slot gets the id and the record of the message that was sent.
LEMMA RegisterKeepsInv ==
  ASSUME ReplayInv, ReplayRegister
  PROVE  ReplayInv'
<1>1. /\ rpc = "sent" /\ tracked' = tracked \cup {<<mid, cur>>}
      /\ rpc' = "idle" /\ cur' = None /\ mid' = None
      /\ UNCHANGED <<outbox, acks, delivered, removed, apc, token>>
  BY DEF ReplayRegister, Returned, wire, cache
<1>2. RecordTypes' /\ StateTypes' /\ RemovesArrived'
  BY DEF ReplayRegister, ReplayInv, RecordTypes, StateTypes, RemovesArrived,
     uif, link, cache
<1>3. TaskTypes' /\ WireTypes' /\ AnsweredArrived'
  BY <1>1 DEF ReplayInv, TaskTypes, WireTypes, AnsweredArrived
<1>4. Carried' \subseteq Carried
  BY <1>1 DEF Carried, Unregistered
<1>5. QED
  BY <1>2, <1>3, <1>4 DEF ReplayInv, OneRecordPerId

\* A PUBACK whose message has a slot is about the record of that slot.
LEMMA AckKeepsInv ==
  ASSUME ReplayInv, NEW m \in Ids, AckSlot(m) \/ AckUnknown(m)
  PROVE  ReplayInv'
<1>1. /\ apc = "idle" /\ m \in acks
      /\ acks' = acks \ {m} /\ outbox' = {p \in outbox : p[1] # m}
      /\ UNCHANGED <<rpc, cur, mid, delivered, removed>>
      /\ tracked' \subseteq tracked
  BY DEF AckSlot, AckUnknown, Acknowledged, replay, handler, cache
<1>2. RecordTypes'
  BY DEF AckSlot, AckUnknown, cache, ReplayInv, RecordTypes
<1>3. TaskTypes' /\ WireTypes'
  BY <1>1 DEF ReplayInv, TaskTypes, WireTypes
<1>4. Carried' \subseteq Carried
  BY <1>1 DEF Carried, Unregistered
<1>5. OneRecordPerId'
  BY <1>4 DEF ReplayInv, OneRecordPerId
<1>6. AnsweredArrived'
  BY <1>1 DEF ReplayInv, AnsweredArrived
<1>7. CASE AckSlot(m)
  <2>1. PICK p \in tracked : p[1] = m /\ token' = p[2]
    BY <1>7 DEF AckSlot
  <2>2. PICK q \in outbox : q[1] = m /\ q[2] \in delivered
    BY <1>1 DEF ReplayInv, AnsweredArrived
  <2>3. p = q
    BY <2>1, <2>2 DEF ReplayInv, OneRecordPerId, Carried
  <2>4. token' \in delivered /\ token' \in Seqs
    BY <2>1, <2>2, <2>3 DEF ReplayInv, RecordTypes
  <2>5. StateTypes'
    BY <1>7, <2>4 DEF AckSlot, uif, link, ReplayInv, StateTypes
  <2>6. RemovesArrived'
    BY <1>1, <2>4 DEF ReplayInv, RemovesArrived
  <2>7. QED
    BY <1>2, <1>3, <1>5, <1>6, <2>5, <2>6 DEF ReplayInv
<1>8. CASE AckUnknown(m)
  <2>1. StateTypes'
    BY <1>8
    DEF AckUnknown, uif, link, handler, ReplayInv, StateTypes
  <2>2. RemovesArrived'
    BY <1>8 DEF AckUnknown, handler, cache, ReplayInv, RemovesArrived
  <2>3. QED
    BY <1>2, <1>3, <1>5, <1>6, <2>1, <2>2 DEF ReplayInv
<1>9. QED
  BY <1>7, <1>8

\* replay_acknowledged() removes the record of the PUBACK.
LEMMA RemoveKeepsInv ==
  ASSUME ReplayInv, AckRemove \/ AckClear
  PROVE  ReplayInv'
<1>1. UNCHANGED <<rpc, cur, mid, tracked, outbox, acks, delivered>>
  BY DEF AckRemove, AckClear, replay, wire
<1>2. RecordTypes'
  BY DEF AckRemove, AckClear, cache, ReplayInv, RecordTypes
<1>3. StateTypes'
  BY DEF AckRemove, AckClear, uif, link, ReplayInv, StateTypes
<1>4. RemovesArrived'
  BY DEF AckRemove, AckClear, cache, ReplayInv, RemovesArrived
<1>5. QED
  BY <1>1, <1>2, <1>3, <1>4
  DEF ReplayInv, TaskTypes, WireTypes, OneRecordPerId, Carried, Unregistered,
      AnsweredArrived

\* Links come and go, time passes: no message is added.
LEMMA LinkKeepsInv ==
  ASSUME ReplayInv,
         Connected \/ Disconnected \/ Stabilised \/ BootAges \/ BackoffEnds
           \/ NetworkPoll
  PROVE  ReplayInv'
<1>1. /\ UNCHANGED <<rpc, cur, mid, tracked, apc, token, outbox, delivered>>
      /\ UNCHANGED cache /\ acks' \subseteq acks
  BY DEF Connected, Disconnected, Stabilised, BootAges, BackoffEnds,
     NetworkPoll, replay, handler, wire
<1>2. StateTypes'
  BY <1>1
  DEF Connected, Disconnected, Stabilised, BootAges, BackoffEnds, NetworkPoll,
      uif, link, ReplayInv, StateTypes
<1>3. QED
  BY <1>1, <1>2
  DEF ReplayInv, RecordTypes, TaskTypes, WireTypes, OneRecordPerId, Carried,
      Unregistered, AnsweredArrived, RemovesArrived, cache

\* A reset forgets messages, slots and PUBACKs, and keeps the store.
LEMMA PowerCutKeepsInv ==
  ASSUME ReplayInv, PowerCut
  PROVE  ReplayInv'
<1>1. StateTypes'
  BY DEF PowerCut, ReplayInv, StateTypes
<1>2. QED
  BY <1>1
  DEF PowerCut, Returned, cache, ReplayInv, RecordTypes, TaskTypes, WireTypes,
      OneRecordPerId, Carried, Unregistered, AnsweredArrived, RemovesArrived

\* The broker receives what the outbox holds; the outbox forgets a message
\* together with its PUBACK.
LEMMA WireKeepsInv ==
  ASSUME ReplayInv, NEW m \in Ids, Deliver(m) \/ Expire(m)
  PROVE  ReplayInv'
<1>1. UNCHANGED <<rpc, cur, mid, tracked, apc, token>> /\ UNCHANGED cache
  BY DEF Deliver, Expire, replay, handler
<1>2. StateTypes'
  BY DEF Deliver, Expire, uif, link, handler, ReplayInv, StateTypes
<1>3. TaskTypes'
  BY <1>1 DEF ReplayInv, TaskTypes
<1>4. CASE Deliver(m)
  <2>1. PICK p \in outbox : p[1] = m /\ delivered' = delivered \cup {p[2]}
    BY <1>4 DEF Deliver
  <2>2. outbox' = outbox /\ acks' = acks \cup {m} /\ p[2] \in Seqs
    BY <1>4 DEF Deliver, ReplayInv, WireTypes
  <2>3. RecordTypes' /\ RemovesArrived'
    BY <1>1, <2>1, <2>2
    DEF cache, ReplayInv, RecordTypes, RemovesArrived
  <2>4. AnsweredArrived' /\ WireTypes'
    BY <1>1, <2>1, <2>2 DEF ReplayInv, AnsweredArrived, WireTypes
  <2>5. OneRecordPerId'
    BY <1>1, <2>2 DEF ReplayInv, OneRecordPerId, Carried, Unregistered
  <2>6. QED
    BY <1>2, <1>3, <2>3, <2>4, <2>5 DEF ReplayInv
<1>5. CASE Expire(m)
  <2>1. /\ outbox' = {p \in outbox : p[1] # m} /\ acks' = acks \ {m}
        /\ delivered' = delivered
    BY <1>5 DEF Expire
  <2>2. RecordTypes' /\ RemovesArrived'
    BY <1>1, <2>1 DEF cache, ReplayInv, RecordTypes, RemovesArrived
  <2>3. AnsweredArrived' /\ WireTypes'
    BY <1>1, <2>1 DEF ReplayInv, AnsweredArrived, WireTypes
  <2>4. Carried' \subseteq Carried
    BY <1>1, <2>1 DEF Carried, Unregistered
  <2>5. QED
    BY <1>2, <1>3, <2>2, <2>3, <2>4 DEF ReplayInv, OneRecordPerId
<1>6. QED
  BY <1>4, <1>5

\* Every action of the three tasks and of the broker keeps the invariant.
LEMMA ReplayInvNext == ReplayInv /\ [Next]_vars => ReplayInv'
<1> SUFFICES ASSUME ReplayInv, [Next]_vars PROVE ReplayInv'
  OBVIOUS
<1>1. CASE \E s \in Seqs : Put(s)
  BY <1>1, PutKeepsInv
<1>2. CASE ReplayStep
  BY <1>2, TaskKeepsInv, PublishKeepsInv, RegisterKeepsInv DEF ReplayStep
<1>3. CASE ReplayPublishFails
  BY <1>3, TaskKeepsInv
<1>4. CASE HandlerStep
  BY <1>4, AckKeepsInv, RemoveKeepsInv, LinkKeepsInv DEF HandlerStep
<1>5. CASE \/ Disconnected \/ Stabilised \/ BootAges \/ BackoffEnds
           \/ NetworkPoll
  BY <1>5, LinkKeepsInv
<1>6. CASE PowerCut
  BY <1>6, PowerCutKeepsInv
<1>7. CASE \E m \in Ids : Deliver(m) \/ Expire(m)
  BY <1>7, WireKeepsInv
<1>8. CASE UNCHANGED vars
  BY <1>8
  DEF vars, uif, replay, handler, link, wire, cache, ReplayInv, RecordTypes,
      StateTypes, TaskTypes, WireTypes, OneRecordPerId, Carried, Unregistered,
      AnsweredArrived, RemovesArrived
<1>9. QED
  BY <1>1, <1>2, <1>3, <1>4, <1>5, <1>6, <1>7, <1>8 DEF Next

\* The table never has more active slots than places; no step adds one but
\* a registration that found a free slot.
TableInv == /\ IsFiniteSet(tracked) /\ Cardinality(tracked) <= Slots
            /\ faults \in 0..MaxFaults

\* The table of slots is empty at the start.
LEMMA TableInvInit == Init => TableInv
BY FS_EmptySet, SlotsAssumption, MaxFaultsAssumption DEF Init, TableInv

\* A slot that is given back, or nothing new in the table.
LEMMA TableShrinks ==
  ASSUME TableInv, tracked' \subseteq tracked
  PROVE  IsFiniteSet(tracked') /\ Cardinality(tracked') <= Slots
<1>1. /\ IsFiniteSet(tracked') /\ Cardinality(tracked') \in Nat
      /\ Cardinality(tracked) \in Nat
      /\ Cardinality(tracked') <= Cardinality(tracked)
  BY FS_Subset, FS_CardinalityType DEF TableInv
<1>2. QED
  BY <1>1, SlotsAssumption DEF TableInv

\* replay_task takes a free slot, and the others only give slots back.
LEMMA TableInvNext == TableInv /\ [Next]_vars => TableInv'
<1> SUFFICES ASSUME TableInv, [Next]_vars PROVE TableInv'
  OBVIOUS
<1>1. UNCHANGED faults \/ Fault
  BY DEF Next, ReplayStep, HandlerStep, Put, ReplayTimeout, ReplayPeek,
     ReplayMarkSequence, ReplayMarkOutstanding, ReplayPublish, ReplayRegister,
     ReplayNoSlot, ReplayPublishFails, AckSlot, AckUnknown, AckRemove,
     AckClear, Connected, Disconnected, Stabilised, BootAges, BackoffEnds,
     NetworkPoll, PowerCut, Deliver, Expire, vars
<1>2. faults' \in 0..MaxFaults
  BY <1>1, MaxFaultsAssumption DEF Fault, TableInv
<1>3. CASE ReplayRegister
  <2>1. tracked' = tracked \cup {<<mid, cur>>} /\ Cardinality(tracked) < Slots
    BY <1>3 DEF ReplayRegister
  <2>2. IsFiniteSet(tracked) /\ Cardinality(tracked) \in Nat
    BY FS_CardinalityType DEF TableInv
  <2>3. /\ IsFiniteSet(tracked')
        /\ Cardinality(tracked') <= Cardinality(tracked) + 1
    BY <2>1, <2>2, FS_AddElement
  <2>4. Cardinality(tracked') \in Nat
    BY <2>3, FS_CardinalityType
  <2>5. Cardinality(tracked') <= Slots
    BY <2>1, <2>2, <2>3, <2>4, SlotsAssumption
  <2>6. QED
    BY <1>2, <2>3, <2>5 DEF TableInv
<1>4. CASE ~ReplayRegister
  <2>1. tracked' \subseteq tracked
    BY <1>4 DEF Next, ReplayStep, HandlerStep, Put, ReplayTimeout, ReplayPeek,
       ReplayMarkSequence, ReplayMarkOutstanding, ReplayPublish,
       ReplayNoSlot, ReplayPublishFails, AckSlot, AckUnknown, AckRemove,
       AckClear, Connected, Disconnected, Stabilised, BootAges, BackoffEnds,
       NetworkPoll, PowerCut, Deliver, Expire, vars, handler
  <2>2. QED
    BY <1>2, <2>1, TableShrinks DEF TableInv
<1>5. QED
  BY <1>3, <1>4

(***************************************************************************)
(* The variables of replay keep their types, and the active slots never    *)
(* outnumber MQTT_MAX_TRACKED_PUBLISHES, for every table and bound.        *)
(***************************************************************************)
THEOREM ReplayTypeCorrect == Spec => []TypeOK
<1>1. ReplayInv /\ TableInv => TypeOK
  BY DEF ReplayInv, RecordTypes, StateTypes, TaskTypes, WireTypes, TableInv,
     TypeOK
<1>2. QED
  BY <1>1, ReplayInvInit, ReplayInvNext, TableInvInit, TableInvNext,
     PTL DEF Spec

(***************************************************************************)
(* On a PUBACK, uif_persistence.c removes only records that the broker has *)
(* received, for every set of records, capacity, number of slots and       *)
(* number of faults.                                                       *)
(***************************************************************************)
THEOREM RemovesOnlyDelivered == Spec => []RemovedOnlyIfDelivered
<1>1. ReplayInv => RemovedOnlyIfDelivered
  BY DEF ReplayInv, RemovesArrived, RemovedOnlyIfDelivered
<1>2. QED
  BY <1>1, ReplayInvInit, ReplayInvNext, PTL DEF Spec

\* What the gateway was given is in the store, lost or removed, and what is
\* on its way to the broker overtook nothing that waits.
Kept == handed \subseteq held \cup lost \cup removed
InSequence == \A s \in OnItsWay, t \in handed :
                t < s => t \in delivered \cup lost \cup late
OrderInv == Kept /\ InSequence

\* Nothing has been sent at the start.
LEMMA OrderInvInit == Init => OrderInv
BY DEF Init, OrderInv, Kept, InSequence

\* A step that sends nothing new and stores nothing keeps the order.
LEMMA OrderKept ==
  ASSUME OrderInv, handed' = handed, OnItsWay' \subseteq OnItsWay,
         delivered \subseteq delivered', lost \subseteq lost',
         late \subseteq late', Kept'
  PROVE  OrderInv'
BY DEF OrderInv, InSequence

\* A new record is late if a higher one is on its way.
LEMMA PutKeepsOrder ==
  ASSUME OrderInv, NEW s \in Seqs, Put(s)
  PROVE  OrderInv'
<1>1. PICK gone :
        /\ held' = (held \ gone) \cup {s} /\ lost' = lost \cup gone
        /\ handed' = handed \cup {s} /\ delivered' = delivered
        /\ late' = IF \E t \in OnItsWay : s < t THEN late \cup {s} ELSE late
        /\ removed' = removed
  BY DEF Put
<1>2. OnItsWay' = OnItsWay
  BY DEF Put, OnItsWay, replay, wire
<1>3. Kept'
  BY <1>1 DEF OrderInv, Kept
<1>4. InSequence'
  <2> SUFFICES ASSUME NEW u \in OnItsWay, NEW t \in handed', t < u
               PROVE  t \in delivered' \cup lost' \cup late'
    BY <1>2 DEF InSequence
  <2>1. CASE t \in handed
    BY <1>1, <2>1 DEF OrderInv, InSequence
  <2>2. CASE t \notin handed
    BY <1>1, <2>2
  <2>3. QED
    BY <2>1, <2>2
<1>5. QED
  BY <1>3, <1>4 DEF OrderInv

\* The oldest record overtakes none: what is older has left the store.
LEMMA PeekKeepsOrder ==
  ASSUME ReplayInv, OrderInv, ReplayPeek
  PROVE  OrderInv'
<1>1. /\ cur' \in held /\ \A t \in held : cur' <= t
      /\ UNCHANGED <<held, handed, lost, late, removed, delivered, outbox>>
  BY OldestIn
  DEF ReplayPeek, MayReplay, wire, cache, ReplayInv, RecordTypes
<1>2. held \subseteq Nat /\ handed \subseteq Nat
  BY SeqsAssumption DEF ReplayInv, RecordTypes
<1>3. ASSUME NEW t \in handed, t < cur'
      PROVE  t \in delivered \cup lost
  <2>1. t \notin held
    <3>1. cur' \in Nat /\ t \in Nat
      BY <1>1, <1>2
    <3>2. ~(cur' <= t)
      BY <1>3, <3>1
    <3>3. QED
      BY <1>1, <3>2
  <2>2. QED
    BY <2>1 DEF OrderInv, Kept, ReplayInv, RemovesArrived
<1>4. OnItsWay' \subseteq OnItsWay \cup {cur'}
  BY <1>1 DEF OnItsWay
<1>5. InSequence'
  BY <1>1, <1>3, <1>4 DEF OrderInv, InSequence
<1>6. QED
  BY <1>1, <1>5 DEF OrderInv, Kept

\* Every other step moves a record along its way, drops or removes it.
LEMMA OthersKeepOrder ==
  ASSUME ReplayInv, OrderInv, [Next]_vars,
         \A s \in Seqs : ~Put(s), ~ReplayPeek
  PROVE  OrderInv'
<1>1. handed' = handed /\ lost' = lost /\ late' = late /\ Kept'
  BY DEF Next, ReplayStep, HandlerStep, ReplayTimeout,
     ReplayMarkSequence, ReplayMarkOutstanding, ReplayPublish, ReplayRegister,
     ReplayNoSlot, ReplayPublishFails, AckSlot, AckUnknown, AckRemove,
     AckClear, Connected, Disconnected, Stabilised, BootAges, BackoffEnds,
     NetworkPoll, PowerCut, Deliver, Expire, vars, cache, OrderInv, Kept
<1>2. delivered \subseteq delivered'
  BY DEF Next, ReplayStep, HandlerStep, ReplayTimeout,
     ReplayMarkSequence, ReplayMarkOutstanding, ReplayPublish, ReplayRegister,
     ReplayNoSlot, ReplayPublishFails, AckSlot, AckUnknown, AckRemove,
     AckClear, Connected, Disconnected, Stabilised, BootAges, BackoffEnds,
     NetworkPoll, PowerCut, Deliver, Expire, vars
<1>3. CASE InSequence'
  BY <1>1, <1>3 DEF OrderInv
<1>4. CASE OnItsWay' \subseteq OnItsWay
  BY <1>1, <1>2, <1>4, OrderKept
<1>5. CASE cur' = None /\ OnItsWay' \subseteq OnItsWay \cup {None}
  <2>1. \A t \in handed : ~(t < None)
    BY SeqsAssumption DEF None, ReplayInv, RecordTypes
  <2>2. InSequence'
    BY <1>1, <1>2, <1>5, <2>1 DEF OrderInv, InSequence
  <2>3. QED
    BY <1>1, <2>2 DEF OrderInv
<1>6. CASE ReplayPublish
  BY <1>4, <1>6 DEF ReplayPublish, OnItsWay
<1>7. CASE ReplayPublishFails \/ ReplayRegister \/ ReplayNoSlot \/ PowerCut
  BY <1>5, <1>7 DEF ReplayPublishFails, ReplayRegister, ReplayNoSlot,
     PowerCut, Returned, wire, OnItsWay
<1>8. CASE \E m \in Ids : Deliver(m)
  BY <1>4, <1>8 DEF Deliver, replay, OnItsWay
<1>9. CASE \E m \in Ids : Expire(m) \/ AckSlot(m) \/ AckUnknown(m)
  BY <1>4, <1>9 DEF Expire, AckSlot, AckUnknown, Acknowledged, replay,
     OnItsWay
<1>10. CASE \/ ReplayTimeout \/ ReplayMarkSequence \/ ReplayMarkOutstanding
            \/ AckRemove \/ AckClear \/ Connected \/ Disconnected
            \/ Stabilised \/ BootAges \/ BackoffEnds \/ NetworkPoll
            \/ UNCHANGED vars
  BY <1>4, <1>10 DEF ReplayTimeout, ReplayMarkSequence,
     ReplayMarkOutstanding, AckRemove, AckClear, Connected, Disconnected,
     Stabilised, BootAges, BackoffEnds, NetworkPoll, vars, replay, wire,
     OnItsWay
<1>11. QED
  BY <1>6, <1>7, <1>8, <1>9, <1>10 DEF Next, ReplayStep, HandlerStep

(***************************************************************************)
(* Records reach the broker in sequence: none overtakes a lower one that   *)
(* was stored before it was sent, unless the store gave it up, for every   *)
(* capacity and number of faults.                                          *)
(***************************************************************************)
THEOREM ReplaysInSequence == Spec => []ReplayedInSequence
<1>1. ReplayInv /\ OrderInv /\ [Next]_vars => OrderInv'
  BY PutKeepsOrder, PeekKeepsOrder, OthersKeepOrder
<1>2. OrderInv => ReplayedInSequence
  BY DEF OrderInv, InSequence, OnItsWay, ReplayedInSequence
<1>3. QED
  BY <1>1, <1>2, ReplayInvInit, ReplayInvNext, OrderInvInit, PTL DEF Spec
=============================================================================
