------------------------ MODULE CloudAggregateProofs ------------------------
(***************************************************************************)
(* Proofs about the two parts of the ThingsCloud adapter, for every set of *)
(* points, records, answers, buffer, packet and bucket: live telemetry     *)
(* keeps to its rate and loses points only in the ways that KeptUntilSent  *)
(* names; the variables of both parts keep their shape; and which answers  *)
(* complete a replayed record.                                             *)
(***************************************************************************)
EXTENDS MCCloud, ArraysProofs, FiniteSetTheorems, TLAPS

\* Safety needs no fairness: the behaviours of live telemetry, fair or not.
AggSteps == AggInit /\ [][AggNext]_aggVars

\* a slot is empty or holds one point
Slots == {{}} \cup {{p} : p \in CloudPoints}

\* the types the steps rely on
AggTypes ==
  /\ aggMode \in ReportModes
  /\ aggregate \in Seq(Slots)
  /\ bucket \in 0..MaxTokens /\ burst \in Int /\ guarded \subseteq {403, 413}
  /\ unsent \subseteq CloudPoints /\ forgone \subseteq CloudPoints
  /\ \/ adding = <<>>
     \/ \E g \in {"test", "room", "add", "flush"}, p \in CloudPoints,
           m \in ReportModes : adding = <<g, p, m>>

\* what was spent since the last tick is not in the bucket any more
TokensLeft == bucket + burst <= MaxTokens

\* a point that is added with the mode of before a change: nothing that was
\* collected so far is owed any more
StaleMode ==
  adding # <<>> /\ adding[3] # aggMode => unsent \subseteq forgone

AggInv == AggTypes /\ TokensLeft /\ StaleMode /\ KeptUntilSent

\* Where n slots need packets, there is one, and more slots need no fewer.
LEMMA PacketsNeeded ==
  ASSUME NEW n \in Nat, NEW k \in Nat, k <= n
  PROVE  /\ (n + PackSize - 1) \div PackSize \in Nat
         /\ (k + PackSize - 1) \div PackSize
              <= (n + PackSize - 1) \div PackSize
         /\ k > 0 => (k + PackSize - 1) \div PackSize > 0
<1>1. PackSize \in Nat \ {0}
  BY BufferAssumption
<1> DEFINE D(c) == (c + PackSize - 1) \div PackSize
           R(c) == (c + PackSize - 1) % PackSize
<1>2. ASSUME NEW c \in Nat
      PROVE  /\ D(c) \in Int /\ R(c) \in 0..(PackSize - 1)
             /\ c + PackSize - 1 = PackSize * D(c) + R(c)
  <2>1. c + PackSize - 1 \in Nat
    BY <1>1
  <2> QED
    BY <1>1, <2>1, SMT
<1>3. /\ D(n) \in Int /\ R(n) \in 0..(PackSize - 1)
      /\ n + PackSize - 1 = PackSize * D(n) + R(n)
  BY <1>2
<1>4. /\ D(k) \in Int /\ R(k) \in 0..(PackSize - 1)
      /\ k + PackSize - 1 = PackSize * D(k) + R(k)
  BY <1>2
<1> HIDE DEF D, R
<1>5. D(n) >= 0
  BY <1>1, <1>3, SMT
<1>6. D(k) <= D(n)
  BY <1>1, <1>3, <1>4, SMT
<1>7. k > 0 => D(k) > 0
  BY <1>1, <1>4, SMT
<1>8. D(n) \in Nat
  BY <1>3, <1>5
<1> QED
  BY <1>6, <1>7, <1>8 DEF D

\* Every slot that is packed goes into one of the packets.
LEMMA SlotPacked ==
  ASSUME NEW b \in Seq(Slots), NEW m, NEW i \in DOMAIN b, b[i] # {}
  PROVE  PacketOf(m, b, i) \in 1..Packets(m, b)
<1> DEFINE S(k) == {j \in 1..k : m = "GATEWAY" => b[j] # {}}
<1>1. Len(b) \in Nat /\ i \in 1..Len(b)
  OBVIOUS
<1>2. S(Len(b)) \subseteq 1..Len(b) /\ IsFiniteSet(1..Len(b))
  BY <1>1, FS_Interval
<1>3. IsFiniteSet(S(Len(b)))
  BY <1>2, FS_Subset
<1>4. S(i) \subseteq S(Len(b)) /\ i \in S(i)
  BY <1>1
<1>5. IsFiniteSet(S(i)) /\ Cardinality(S(i)) <= Cardinality(S(Len(b)))
  BY <1>3, <1>4, FS_Subset
<1>6. Cardinality(S(i)) \in Nat /\ Cardinality(S(Len(b))) \in Nat
  BY <1>3, <1>5, FS_CardinalityType
<1>7. Cardinality(S(i)) # 0
  BY <1>4, <1>5, FS_EmptySet
<1>8. /\ PacketOf(m, b, i)
           = (Cardinality(S(i)) + PackSize - 1) \div PackSize
      /\ Packets(m, b)
           = (Cardinality(S(Len(b))) + PackSize - 1) \div PackSize
  BY DEF PacketOf, Packets
<1> HIDE DEF S
<1>9. /\ Packets(m, b) \in Nat /\ PacketOf(m, b, i) <= Packets(m, b)
      /\ PacketOf(m, b, i) > 0
  BY <1>5, <1>6, <1>7, <1>8, PacketsNeeded
<1>10. PacketOf(m, b, i) \in Nat
  BY <1>6, <1>8, PacketsNeeded
<1> QED
  BY <1>9, <1>10

\* There is a number of packets.
LEMMA PacketsCount ==
  ASSUME NEW b \in Seq(Slots), NEW m
  PROVE  Packets(m, b) \in Nat
<1> DEFINE S == {j \in 1..Len(b) : m = "GATEWAY" => b[j] # {}}
<1>1. S \subseteq 1..Len(b) /\ IsFiniteSet(1..Len(b))
  BY FS_Interval
<1>2. Cardinality(S) \in Nat
  BY <1>1, FS_Subset, FS_CardinalityType
<1>3. Packets(m, b) = (Cardinality(S) + PackSize - 1) \div PackSize
  BY DEF PacketOf, Packets
<1> HIDE DEF S
<1> QED
  BY <1>2, <1>3, PacketsNeeded

\* The limiter lets through at most what the bucket holds.
LEMMA PassedWithinBucket ==
  ASSUME bucket \in Nat, NEW n \in Nat, NEW m,
         NEW fate \in [1..n -> Fates(m)]
  PROVE  Cardinality(Passed(m, fate)) \in 0..bucket
<1> DEFINE T == Tried(m, fate)
           P == Passed(m, fate)
           Upper == {k \in 0..n : \A j \in P : j <= k}
<1>1. T \subseteq 1..n /\ P \subseteq T
  BY DEF Tried, Passed
<1>2. IsFiniteSet(T) /\ IsFiniteSet(P)
  BY <1>1, FS_Interval, FS_Subset
<1>3. Cardinality(P) \in Nat /\ Allowance \in 0..bucket
  BY <1>2, FS_CardinalityType DEF Allowance
<1>4. CASE P = {}
  BY <1>3, <1>4, FS_EmptySet
<1>5. CASE P # {}
  <2>1. n \in Upper /\ Upper \subseteq Nat
    BY <1>1
  <2>2. PICK k \in Upper : \A j \in Upper : k <= j
    BY <2>1, LeastExists
  <2>3. k \in P
    <3>1. SUFFICES ASSUME k \notin P PROVE FALSE
      OBVIOUS
    <3>2. \A j \in P : j <= k - 1
      BY <1>1, <2>2, <3>1
    <3>3. k - 1 \in 0..n
      BY <1>1, <1>5, <2>2, <3>2
    <3>4. k - 1 \in Upper
      BY <3>2, <3>3
    <3> QED
      BY <2>1, <2>2, <3>4
  <2>4. Cardinality({j \in T : j <= k}) <= Allowance
    BY <2>3 DEF Passed
  <2>5. P \subseteq {j \in T : j <= k} /\ {j \in T : j <= k} \subseteq T
    BY <1>1, <2>2
  <2>6. IsFiniteSet({j \in T : j <= k})
    BY <1>2, <2>5, FS_Subset
  <2>7. /\ Cardinality(P) <= Cardinality({j \in T : j <= k})
        /\ Cardinality({j \in T : j <= k}) \in Nat
    BY <2>5, <2>6, FS_Subset, FS_CardinalityType
  <2> HIDE DEF T, P
  <2>8. Cardinality(P) \in 0..bucket
    BY <1>3, <2>4, <2>7
  <2> QED
    BY <2>8 DEF P
<1> QED
  BY <1>4, <1>5

\* Without an error, a point was delivered or its packet skipped.
LEMMA EmptiedIsCarried ==
  ASSUME NEW b \in Seq(Slots), NEW m,
         NEW fate \in [1..Packets(m, b) -> Fates(m)], NoError(m, fate)
  PROVE  PointsIn(b) \subseteq Carried(m, b, Delivered(m, fate))
                                 \cup Carried(m, b, Skipped(fate))
<1> SUFFICES ASSUME NEW i \in DOMAIN b, NEW x \in b[i]
             PROVE  x \in Carried(m, b, Delivered(m, fate))
                            \cup Carried(m, b, Skipped(fate))
  BY DEF PointsIn
<1>1. PacketOf(m, b, i) \in DOMAIN fate
  BY SlotPacked
<1>2. PacketOf(m, b, i) \in Delivered(m, fate) \cup Skipped(fate)
  BY <1>1 DEF NoError
<1> QED
  BY <1>2 DEF Carried

\* A change of the report mode leaves a sequence of slots.
LEMMA KeptTyped ==
  ASSUME AggTypes, NEW m
  PROVE  Kept(m, aggregate) \in Seq(Slots)
BY DEF AggTypes, Kept

\* Nothing but points is carried.
LEMMA CarriedPoints ==
  ASSUME NEW b \in Seq(Slots), NEW m, NEW K
  PROVE  Carried(m, b, K) \subseteq CloudPoints
BY DEF Carried, Slots

(* What a flush does: it takes from the bucket what it held, owes no more  *)
(* points than before, and none that is not in the aggregate.              *)
FlushKept ==
  /\ aggregate' \in Seq(Slots)
  /\ bucket' \in 0..MaxTokens /\ burst' \in Int
  /\ bucket' + burst' <= MaxTokens
  /\ unsent' \subseteq CloudPoints /\ forgone' \subseteq CloudPoints
  /\ unsent \subseteq forgone => unsent' \subseteq forgone'
  /\ (unsent \ forgone)' \subseteq PointsIn(Kept(aggMode, aggregate)')

\* So it is, whatever becomes of its packets.
LEMMA FlushKeeps ==
  ASSUME AggInv, Flush(aggMode), UNCHANGED aggMode
  PROVE  FlushKept
<1> DEFINE b == Kept(aggMode, aggregate)
<1>1. b \in Seq(Slots)
  BY KeptTyped DEF AggInv
<1>2. unsent \ forgone \subseteq PointsIn(b)
  BY DEF AggInv, KeptUntilSent
<1>3. bucket \in Nat /\ bucket <= MaxTokens /\ burst \in Int
      /\ bucket + burst <= MaxTokens /\ MaxTokens \in Nat
      /\ unsent \subseteq CloudPoints /\ forgone \subseteq CloudPoints
  BY TokensAssumption DEF AggInv, AggTypes, TokensLeft
<1>4. CASE replaying
  <2>1. UNCHANGED <<lastMode, aggregate, budget, owing>>
    BY <1>4 DEF Flush
  <2>2. Kept(aggMode, aggregate)' = b
    BY <2>1 DEF Kept
  <2>3. aggregate \in Seq(Slots)
    BY DEF AggInv, AggTypes
  <2> QED
    BY <2>1, <2>2, <2>3, <1>2, <1>3 DEF FlushKept, budget, owing
<1>5. CASE ~replaying /\ ~(sessionUp /\ b # <<>>)
  <2>1. /\ aggregate' = b /\ lastMode' = aggMode
        /\ UNCHANGED <<bucket, burst, unsent, forgone>>
    BY <1>5 DEF Flush, FlushOf, budget, owing
  <2>2. Kept(aggMode, aggregate)' = b
    BY <2>1 DEF Kept
  <2> QED
    BY <2>1, <2>2, <1>1, <1>2, <1>3 DEF FlushKept
<1>6. CASE ~replaying /\ (sessionUp /\ b # <<>>)
  <2>1. lastMode' = aggMode
        /\ \E fate \in [1..Packets(aggMode, b) -> Fates(aggMode)] :
             Send(aggMode, b, fate)
    BY <1>6 DEF Flush, FlushOf
  <2>2. PICK fate \in [1..Packets(aggMode, b) -> Fates(aggMode)] :
               Send(aggMode, b, fate)
    BY <2>1
  <2> DEFINE arrived == Carried(aggMode, b, Delivered(aggMode, fate))
             passed  == Passed(aggMode, fate)
             lost    == IF NoError(aggMode, fate)
                        THEN Carried(aggMode, b, Skipped(fate)) ELSE {}
  <2>3. /\ aggregate' = AfterFlush(aggMode, b, fate)
        /\ Spend(Cardinality(passed))
        /\ unsent' = unsent \ arrived
        /\ forgone' = (forgone \ arrived) \cup lost
    BY <2>2 DEF Send
  <2>4. Cardinality(passed) \in 0..bucket
    BY <1>1, <1>3, PacketsCount, PassedWithinBucket
  <2>5. arrived \subseteq CloudPoints /\ lost \subseteq CloudPoints
    BY <1>1, CarriedPoints
  <2>6. Kept(aggMode, aggregate)' = aggregate'
    BY <2>1 DEF Kept
  <2>7. NoError(aggMode, fate) => PointsIn(b) \subseteq arrived \cup lost
    BY <1>1, EmptiedIsCarried
  <2>8. aggregate' = (IF NoError(aggMode, fate) THEN <<>> ELSE b)
    BY <2>3 DEF AfterFlush
  <2>9. ~NoError(aggMode, fate) => lost = {}
    OBVIOUS
  <2> HIDE DEF b, arrived, passed, lost
  <2>10. bucket' \in 0..MaxTokens /\ burst' \in Int
         /\ bucket' + burst' <= MaxTokens
    BY <2>3, <2>4, <1>3 DEF Spend
  <2>11. (unsent \ forgone)' \subseteq PointsIn(aggregate')
    <3>1. CASE NoError(aggMode, fate)
      <4>1. (unsent \ forgone)' = {}
        BY <3>1, <2>3, <2>7, <1>2
      <4> QED
        BY <4>1
    <3>2. CASE ~NoError(aggMode, fate)
      BY <3>2, <2>3, <2>8, <2>9, <1>2
    <3> QED
      BY <3>1, <3>2
  <2>12. aggregate' \in Seq(Slots)
    BY <2>8, <1>1
  <2> QED
    BY <2>3, <2>5, <2>6, <2>10, <2>11, <2>12, <1>3 DEF FlushKept
<1> QED
  BY <1>4, <1>5, <1>6

\* The flushes of thingscloud_publish_context() and of the maintenance.
LEMMA FlushesKeepInv ==
  ASSUME AggInv, MakeRoom \/ FlushFull \/ FlushTick
  PROVE  AggInv'
<1>1. /\ Flush(aggMode) /\ UNCHANGED <<aggMode, guarded>>
      /\ \/ adding' = <<>>
         \/ adding # <<>> /\ adding' = <<"add", adding[2], adding[3]>>
         \/ adding' = adding
  BY DEF MakeRoom, FlushFull, FlushTick, At
<1>2. FlushKept
  BY <1>1, FlushKeeps
<1>3. \/ adding' = <<>>
      \/ adding # <<>> /\ adding' # <<>> /\ adding'[3] = adding[3]
  BY <1>1
<1>4. \/ adding' = <<>>
      \/ \E g \in {"test", "room", "add", "flush"}, p \in CloudPoints,
            m \in ReportModes : adding' = <<g, p, m>>
  BY <1>1 DEF AggInv, AggTypes
<1>5. AggTypes'
  BY <1>1, <1>2, <1>4 DEF AggInv, AggTypes, FlushKept
<1>6. StaleMode'
  BY <1>1, <1>2, <1>3 DEF AggInv, StaleMode, FlushKept
<1> QED
  BY <1>2, <1>5, <1>6 DEF AggInv, TokensLeft, KeptUntilSent, FlushKept

\* rt is the mode of the instant at which it is read.
LEMMA CollectKeepsInv ==
  ASSUME AggInv, NEW p \in CloudPoints, CollectPoint(p)
  PROVE  AggInv'
<1>1. /\ adding' = <<"test", p, aggMode>>
      /\ UNCHANGED <<aggMode, lastMode, aggregate, budget, guarded, owing>>
  BY DEF CollectPoint
<1>2. AggTypes'
  BY <1>1 DEF AggInv, AggTypes, budget, owing
<1> QED
  BY <1>1, <1>2
  DEF AggInv, TokensLeft, StaleMode, KeptUntilSent, Kept, budget, owing

\* A change of mode that is noticed with rt discards only what is forgone.
LEMMA TestKeepsInv == ASSUME AggInv, TestRoom PROVE AggInv'
<1> DEFINE rt == adding[3]
<1>1. /\ adding # <<>> /\ lastMode' = rt /\ aggregate' = Kept(rt, aggregate)
      /\ UNCHANGED <<aggMode, budget, guarded, owing>>
      /\ \E g \in {"room", "add"} : adding' = <<g, adding[2], rt>>
  BY DEF TestRoom, At
<1>2. adding[2] \in CloudPoints /\ rt \in ReportModes
  BY <1>1 DEF AggInv, AggTypes
<1>3. aggregate' \in Seq(Slots)
  BY <1>1, KeptTyped DEF AggInv
<1>4. AggTypes'
  BY <1>1, <1>2, <1>3 DEF AggInv, AggTypes, budget, owing
<1>5. StaleMode' /\ TokensLeft'
  BY <1>1 DEF AggInv, StaleMode, TokensLeft, budget, owing
<1>6. KeptUntilSent'
  <2>1. CASE rt = aggMode
    BY <1>1, <2>1 DEF AggInv, KeptUntilSent, Kept, owing
  <2>2. CASE rt # aggMode
    BY <1>1, <2>2 DEF AggInv, StaleMode, KeptUntilSent, owing
  <2> QED
    BY <2>1, <2>2
<1> QED
  BY <1>4, <1>5, <1>6 DEF AggInv

\* What the slots hold after one is filled, and after one is cleared.
LEMMA CollectedSlots ==
  ASSUME NEW b \in Seq(Slots), NEW p \in CloudPoints,
         NEW slot \in {{p}, {}}
  PROVE  /\ Collected(p, slot, b) \in Seq(Slots)
         /\ PointsIn(b) \ {p} \subseteq PointsIn(Collected(p, slot, b))
         /\ slot \subseteq PointsIn(Collected(p, slot, b))
         /\ Len(Collected(p, slot, b)) \in {Len(b), Len(b) + 1}
<1>1. slot \in Slots
  BY DEF Slots
<1>2. CASE p \in PointsIn(b)
  <2> DEFINE c == [i \in DOMAIN b |-> IF p \in b[i] THEN slot ELSE b[i]]
  <2>1. Collected(p, slot, b) = c
    BY <1>2 DEF Collected
  <2>2. c \in Seq(Slots) /\ Len(c) = Len(b) /\ DOMAIN c = DOMAIN b
    BY <1>1
  <2>3. ASSUME NEW x \in PointsIn(b) \ {p}
        PROVE  x \in PointsIn(c)
    <3>1. PICK i \in DOMAIN b : x \in b[i]
      BY <2>3 DEF PointsIn
    <3>2. b[i] \in Slots
      OBVIOUS
    <3>3. p \notin b[i]
      BY <3>1, <3>2, <2>3 DEF Slots
    <3>4. x \in c[i]
      BY <3>1, <3>3
    <3> QED
      BY <3>4, <2>2 DEF PointsIn
  <2>4. slot \subseteq PointsIn(c)
    <3>1. PICK i \in DOMAIN b : p \in b[i]
      BY <1>2 DEF PointsIn
    <3>2. c[i] = slot /\ i \in DOMAIN c
      BY <3>1
    <3> QED
      BY <3>2 DEF PointsIn
  <2> HIDE DEF c
  <2> QED
    BY <2>1, <2>2, <2>3, <2>4
<1>3. CASE p \notin PointsIn(b)
  <2>1. Collected(p, slot, b) = Append(b, slot)
    BY <1>3 DEF Collected
  <2>2. /\ Append(b, slot) \in Seq(Slots)
        /\ Len(Append(b, slot)) = Len(b) + 1
    BY <1>1
  <2> DEFINE c == Append(b, slot)
  <2>3. /\ DOMAIN c = 1..(Len(b) + 1) /\ DOMAIN b = 1..Len(b)
        /\ Len(b) \in Nat /\ c[Len(b) + 1] = slot
        /\ \A i \in DOMAIN b : i \in DOMAIN c /\ c[i] = b[i]
    BY <1>1
  <2> HIDE DEF c
  <2>4. PointsIn(b) \subseteq PointsIn(c)
    BY <2>3 DEF PointsIn
  <2>5. Len(b) + 1 \in DOMAIN c
    BY <2>3
  <2>6. slot \subseteq PointsIn(c)
    BY <2>3, <2>5 DEF PointsIn
  <2>7. /\ PointsIn(b) \subseteq PointsIn(Append(b, slot))
        /\ slot \subseteq PointsIn(Append(b, slot))
    BY <2>4, <2>6 DEF c
  <2> QED
    BY <2>1, <2>2, <2>7
<1> QED
  BY <1>2, <1>3

(* A point that is taken is in the buffer; one that finds no room is not   *)
(* owed; one that is added with the mode of before a change, or that is no *)
(* number, is forgone.                                                     *)
LEMMA AddKeepsInv == ASSUME AggInv, AddPoint PROVE AggInv'
<1> DEFINE p == adding[2]
           rt == adding[3]
           b == Kept(rt, aggregate)
<1>1. /\ adding # <<>> /\ lastMode' = rt
      /\ UNCHANGED <<aggMode, budget, guarded>>
      /\ adding' \in {<<>>, <<"flush", p, rt>>}
  BY DEF AddPoint, At
<1>2. p \in CloudPoints /\ rt \in ReportModes
  BY <1>1 DEF AggInv, AggTypes
<1>3. b \in Seq(Slots)
  BY KeptTyped DEF AggInv
<1>4. /\ rt = aggMode => unsent \ forgone \subseteq PointsIn(b)
      /\ rt # aggMode => unsent \subseteq forgone
  BY <1>1 DEF AggInv, KeptUntilSent, StaleMode
<1>5. unsent \subseteq CloudPoints /\ forgone \subseteq CloudPoints
  BY DEF AggInv, AggTypes
<1>6. Kept(aggMode, aggregate)'
        = IF rt = aggMode THEN aggregate' ELSE <<>>
  BY <1>1 DEF Kept
<1>7. \/ aggregate' = b /\ unsent' = unsent /\ forgone' = forgone
      \/ /\ aggregate' = Collected(p, {p}, b)
         /\ unsent' = unsent \cup {p}
         /\ forgone' = IF rt = aggMode THEN forgone \ {p}
                       ELSE forgone \cup {p}
      \/ /\ aggregate' = Collected(p, {}, b)
         /\ unsent' = unsent /\ forgone' = forgone \cup {p}
  BY DEF AddPoint, owing
<1> HIDE DEF p, rt, b
<1>8. /\ aggregate' \in Seq(Slots)
      /\ unsent' \subseteq CloudPoints /\ forgone' \subseteq CloudPoints
      /\ rt = aggMode => (unsent \ forgone)' \subseteq PointsIn(aggregate')
      /\ rt # aggMode => unsent' \subseteq forgone'
  <2>1. CASE aggregate' = b /\ unsent' = unsent /\ forgone' = forgone
    BY <2>1, <1>3, <1>4, <1>5
  <2>2. CASE /\ aggregate' = Collected(p, {p}, b)
             /\ unsent' = unsent \cup {p}
             /\ forgone' = IF rt = aggMode THEN forgone \ {p}
                           ELSE forgone \cup {p}
    <3>1. /\ Collected(p, {p}, b) \in Seq(Slots)
          /\ PointsIn(b) \ {p} \subseteq PointsIn(Collected(p, {p}, b))
          /\ {p} \subseteq PointsIn(Collected(p, {p}, b))
      BY <1>2, <1>3, CollectedSlots
    <3> QED
      BY <2>2, <3>1, <1>2, <1>4, <1>5
  <2>3. CASE /\ aggregate' = Collected(p, {}, b)
             /\ unsent' = unsent /\ forgone' = forgone \cup {p}
    <3>1. /\ Collected(p, {}, b) \in Seq(Slots)
          /\ PointsIn(b) \ {p} \subseteq PointsIn(Collected(p, {}, b))
      BY <1>2, <1>3, CollectedSlots
    <3> QED
      BY <2>3, <3>1, <1>2, <1>4, <1>5
  <2> QED
    BY <1>7, <2>1, <2>2, <2>3
<1>9. AggTypes'
  BY <1>1, <1>2, <1>8 DEF AggInv, AggTypes, budget
<1>10. StaleMode'
  BY <1>1, <1>8 DEF StaleMode
<1>11. KeptUntilSent'
  BY <1>1, <1>6, <1>8 DEF KeptUntilSent
<1>12. TokensLeft'
  BY <1>1 DEF AggInv, TokensLeft, budget
<1> QED
  BY <1>9, <1>10, <1>11, <1>12 DEF AggInv

\* Status reports and slaves spend what is in the bucket.
LEMMA StatusKeepsInv == AggInv /\ (StatusTick \/ SlaveChanged) => AggInv'
<1> SUFFICES ASSUME AggInv, StatusTick \/ SlaveChanged PROVE AggInv'
  OBVIOUS
<1>1. \E n \in 0..bucket : Spend(n)
  <2>1. bucket \in Nat
    BY TokensAssumption DEF AggInv, AggTypes
  <2>2. CASE StatusTick
    BY <2>1, <2>2 DEF StatusTick, StatusPackets, Least, Allowance
  <2>3. CASE SlaveChanged
    BY <2>1, <2>3 DEF SlaveChanged, Allowance
  <2> QED
    BY <2>2, <2>3
<1>2. UNCHANGED <<adding, aggMode, lastMode, aggregate, guarded, owing>>
  BY DEF StatusTick, SlaveChanged
<1>3. bucket' \in 0..MaxTokens /\ burst' \in Int
      /\ bucket' + burst' <= MaxTokens
  BY <1>1, TokensAssumption DEF Spend, AggInv, AggTypes, TokensLeft
<1>4. AggTypes'
  BY <1>2, <1>3 DEF AggInv, AggTypes, owing
<1> QED
  BY <1>2, <1>3, <1>4
  DEF AggInv, TokensLeft, StaleMode, KeptUntilSent, Kept, owing

\* Time, the platform's answers and the user fill the bucket or empty it.
LEMMA BucketKeepsInv ==
  ASSUME AggInv,
         \/ RefillTick \/ RateBlockEnds \/ GuardCleared
         \/ \E code \in {403, 413} : Refused(code)
  PROVE  AggInv'
<1>0. guarded \subseteq {403, 413}
  BY DEF AggInv, AggTypes
<1>1. /\ UNCHANGED <<adding, aggMode, lastMode, aggregate, owing>>
      /\ guarded' \subseteq {403, 413}
  <2>1. CASE RefillTick
    BY <1>0, <2>1 DEF RefillTick
  <2>2. CASE RateBlockEnds
    BY <1>0, <2>2 DEF RateBlockEnds
  <2>3. CASE GuardCleared
    BY <1>0, <2>3 DEF GuardCleared
  <2>4. CASE \E code \in {403, 413} : Refused(code)
    BY <1>0, <2>4 DEF Refused
  <2> QED
    BY <2>1, <2>2, <2>3, <2>4
<1>2. bucket' \in 0..MaxTokens /\ burst' \in Int
      /\ bucket' + burst' <= MaxTokens
  BY TokensAssumption
  DEF RefillTick, RateBlockEnds, GuardCleared, Refused, Least, Replenish,
      budget, AggInv, AggTypes, TokensLeft
<1>3. AggTypes'
  BY <1>1, <1>2 DEF AggInv, AggTypes, owing
<1> QED
  BY <1>1, <1>2, <1>3
  DEF AggInv, TokensLeft, StaleMode, KeptUntilSent, Kept, owing

\* The bucket is full and the aggregate empty at the start.
LEMMA AggInvInit == AggInit => AggInv
BY TokensAssumption
DEF AggInit, AggInv, AggTypes, TokensLeft, StaleMode, KeptUntilSent,
    ReportModes

\* The limiter takes a token per packet; a flush that it stops keeps the rest.
LEMMA AggInvNext == AggInv /\ [AggNext]_aggVars => AggInv'
<1> SUFFICES ASSUME AggInv, [AggNext]_aggVars PROVE AggInv'
  OBVIOUS
<1>1. CASE \E p \in CloudPoints : CollectPoint(p)
  BY <1>1, CollectKeepsInv
<1>2. CASE AddPoint \/ TestRoom
  BY <1>2, AddKeepsInv, TestKeepsInv
<1>3. CASE MakeRoom \/ FlushFull \/ FlushTick
  BY <1>3, FlushesKeepInv
<1>4. CASE NotLocked
  <2>1. /\ adding' = <<>>
        /\ UNCHANGED <<aggMode, lastMode, aggregate, budget, guarded, owing>>
    BY <1>4 DEF NotLocked
  <2>2. AggTypes'
    BY <2>1 DEF AggInv, AggTypes, budget, owing
  <2> QED
    BY <2>1, <2>2
    DEF AggInv, TokensLeft, StaleMode, KeptUntilSent, Kept, budget, owing
<1>5. CASE StatusTick \/ SlaveChanged
  BY <1>5, StatusKeepsInv
<1>6. CASE \/ RefillTick \/ RateBlockEnds \/ GuardCleared
           \/ \E code \in {403, 413} : Refused(code)
  BY <1>6, BucketKeepsInv
<1>7. CASE SessionUp
  <2>1. aggregate' \in Seq(Slots)
    BY <1>7, KeptTyped DEF SessionUp, AggInv
  <2>2. Kept(aggMode, aggregate)' = Kept(aggMode, aggregate)
    BY <1>7 DEF SessionUp, Kept
  <2>3. bucket' \in 0..MaxTokens /\ burst' \in Int
        /\ bucket' + burst' <= MaxTokens
    BY <1>7, TokensAssumption
    DEF SessionUp, Replenish, AggInv, AggTypes, TokensLeft
  <2>4. UNCHANGED <<adding, aggMode, guarded, owing>>
    BY <1>7 DEF SessionUp
  <2>5. AggTypes'
    BY <2>1, <2>3, <2>4 DEF AggInv, AggTypes, owing
  <2> QED
    BY <2>2, <2>3, <2>4, <2>5
    DEF AggInv, TokensLeft, StaleMode, KeptUntilSent, owing
<1>8. CASE \/ SessionStable \/ SessionLost \/ ReplayStarts \/ ReplayEnds
           \/ UNCHANGED aggVars
  <2>1. UNCHANGED <<adding, aggMode, lastMode, aggregate, budget, guarded,
                    owing>>
    BY <1>8 DEF SessionStable, SessionLost, ReplayStarts, ReplayEnds,
                aggVars, budget, owing
  <2>2. AggTypes'
    BY <2>1 DEF AggInv, AggTypes, budget, owing
  <2> QED
    BY <2>1, <2>2
    DEF AggInv, TokensLeft, StaleMode, KeptUntilSent, Kept, budget, owing
<1>9. CASE ReportMode
  <2>1. /\ aggMode' \in ReportModes /\ forgone' = forgone \cup unsent
        /\ UNCHANGED <<adding, aggregate, budget, guarded, unsent>>
    BY <1>9 DEF ReportMode
  <2>2. AggTypes'
    BY <2>1 DEF AggInv, AggTypes, budget
  <2>3. StaleMode' /\ KeptUntilSent' /\ TokensLeft'
    BY <2>1 DEF AggInv, TokensLeft, StaleMode, KeptUntilSent, budget
  <2> QED
    BY <2>2, <2>3 DEF AggInv
<1> QED
  BY <1>1, <1>2, <1>3, <1>4, <1>5, <1>6, <1>7, <1>8, <1>9
  DEF AggNext, AddStep

(***************************************************************************)
(* Between two refills the platform gets no more packets than the bucket   *)
(* holds, one more for every reconnect: tc_rate_allow() is asked by every  *)
(* sender.                                                                 *)
(***************************************************************************)
THEOREM RateIsKept == AggSteps => []RateKept
<1>1. AggInv => RateKept
  BY TokensAssumption DEF AggInv, AggTypes, TokensLeft, RateKept
<1> QED
  BY <1>1, AggInvInit, AggInvNext, PTL DEF AggSteps

(***************************************************************************)
(* The newest value of a point stays in the aggregate until it is          *)
(* published, however the limiter, its guard, a replay, a publish that     *)
(* fails and the connection hold back thingscloud_flush(); but for a       *)
(* change of mode, a packet skipped for want of memory and a value that is *)
(* no number (forgone).                                                    *)
(***************************************************************************)
THEOREM UnsentIsKept == AggSteps => []KeptUntilSent
<1>1. AggInv => KeptUntilSent
  BY DEF AggInv
<1> QED
  BY <1>1, AggInvInit, AggInvNext, PTL DEF AggSteps
-----------------------------------------------------------------------------
\* The modes, the clock of the status and the length of the aggregate.
AggBounds ==
  /\ aggMode \in ReportModes /\ lastMode \in ReportModes /\ ticks \in 0..2
  /\ Len(aggregate) <= AggMax

\* They hold at the start.
LEMMA AggBoundsInit == AggInit => AggBounds
<1> SUFFICES ASSUME AggInit PROVE AggBounds
  OBVIOUS
<1>1. Len(<<>>) = 0
  OBVIOUS
<1> QED
  BY <1>1, BufferAssumption DEF AggInit, AggBounds, ReportModes

\* What is left of the aggregate after a change of mode is no longer.
LEMMA KeptShort ==
  ASSUME AggBounds, NEW m
  PROVE  Len(Kept(m, aggregate)) <= AggMax
<1>1. Len(<<>>) = 0
  OBVIOUS
<1> QED
  BY <1>1, BufferAssumption DEF AggBounds, Kept

\* A flush leaves the aggregate as it was, or empty.
LEMMA FlushKeepsBounds ==
  ASSUME AggInv, AggBounds, Flush(aggMode), UNCHANGED <<aggMode, ticks>>
  PROVE  AggBounds'
<1>1. lastMode' \in {aggMode, lastMode}
  BY DEF Flush, FlushOf
<1>2. aggregate' \in {<<>>, aggregate, Kept(aggMode, aggregate)}
  BY DEF Flush, FlushOf, Send, AfterFlush
<1>3. Len(<<>>) = 0
  OBVIOUS
<1>4. Len(aggregate') <= AggMax
  BY <1>2, <1>3, KeptShort, BufferAssumption DEF AggBounds
<1> QED
  BY <1>1, <1>4 DEF AggBounds

\* A point is appended only to an aggregate that has room.
LEMMA AggBoundsNext ==
  ASSUME AggInv, AggBounds, [AggNext]_aggVars PROVE AggBounds'
<1>1. ASSUME UNCHANGED <<aggMode, lastMode, ticks, aggregate>>
      PROVE  AggBounds'
  BY <1>1 DEF AggBounds
<1>2. CASE TestRoom
  <2>1. /\ adding # <<>> /\ lastMode' = adding[3]
        /\ aggregate' = Kept(adding[3], aggregate)
        /\ UNCHANGED <<aggMode, ticks>>
    BY <1>2 DEF TestRoom, At
  <2>2. adding[3] \in ReportModes
    BY <2>1 DEF AggInv, AggTypes
  <2> QED
    BY <2>1, <2>2, KeptShort DEF AggBounds
<1>3. CASE AddPoint
  <2> DEFINE b == Kept(adding[3], aggregate)
             p == adding[2]
  <2>1. b \in Seq(Slots) /\ Len(b) \in Nat /\ Len(b) <= AggMax
    BY KeptTyped, KeptShort DEF AggInv
  <2>2. /\ adding # <<>> /\ lastMode' = adding[3]
        /\ UNCHANGED <<aggMode, ticks>>
        /\ \/ aggregate' = b
           \/ /\ Len(b) < AggMax
              /\ \E slot \in {{p}, {}} : aggregate' = Collected(p, slot, b)
    BY <1>3 DEF AddPoint, At
  <2>3. adding[3] \in ReportModes /\ p \in CloudPoints
    BY <2>2 DEF AggInv, AggTypes
  <2> HIDE DEF b, p
  <2>4. Len(aggregate') <= AggMax
    <3>1. CASE aggregate' = b
      BY <2>1, <3>1
    <3>2. CASE /\ Len(b) < AggMax
               /\ \E slot \in {{p}, {}} : aggregate' = Collected(p, slot, b)
      <4>1. Len(aggregate') \in {Len(b), Len(b) + 1}
        BY <3>2, <2>1, <2>3, CollectedSlots
      <4> QED
        BY <4>1, <3>2, <2>1, BufferAssumption
    <3> QED
      BY <2>2, <3>1, <3>2
  <2> QED
    BY <2>2, <2>3, <2>4 DEF AggBounds
<1>4. CASE MakeRoom \/ FlushFull \/ FlushTick
  BY <1>4, FlushKeepsBounds DEF MakeRoom, FlushFull, FlushTick
<1>5. CASE StatusTick
  BY <1>5 DEF StatusTick, AggBounds
<1>6. CASE RefillTick
  BY <1>6 DEF RefillTick, Least, AggBounds
<1>7. CASE SessionUp
  BY <1>7, KeptShort DEF SessionUp, AggBounds
<1>8. CASE ReportMode
  <2>1. aggMode' \in ReportModes /\ UNCHANGED <<lastMode, ticks, aggregate>>
    BY <1>8 DEF ReportMode
  <2> QED
    BY <2>1 DEF AggBounds
<1>9. CASE \/ \E p \in CloudPoints : CollectPoint(p)
           \/ \E code \in {403, 413} : Refused(code)
           \/ NotLocked \/ SlaveChanged \/ RateBlockEnds \/ GuardCleared
           \/ SessionStable \/ SessionLost \/ ReplayStarts \/ ReplayEnds
           \/ UNCHANGED aggVars
  <2>1. UNCHANGED <<aggMode, lastMode, ticks, aggregate>>
    BY <1>9 DEF CollectPoint, Refused, NotLocked, SlaveChanged,
                RateBlockEnds, GuardCleared, SessionStable, SessionLost,
                ReplayStarts, ReplayEnds, aggVars
  <2> QED
    BY <1>1, <2>1
<1> QED
  BY <1>2, <1>3, <1>4, <1>5, <1>6, <1>7, <1>8, <1>9 DEF AggNext, AddStep

\* They are the shape that the module promises.
LEMMA AggTyped == ASSUME AggInv, AggBounds PROVE AggTypeOK
<1>1. aggregate \in Seq(Slots)
  BY DEF AggInv, AggTypes
<1>2. \A i \in DOMAIN aggregate : aggregate[i] \subseteq CloudPoints
  BY <1>1 DEF Slots
<1>3. PointsIn(aggregate) \subseteq CloudPoints
  BY <1>2 DEF PointsIn
<1> QED
  BY <1>3 DEF AggTypeOK, AggBounds, AggInv, AggTypes
-----------------------------------------------------------------------------
\* The oldest record that is held is one of them.
LEMMA OldestIsHeld ==
  ASSUME NEW S, S \subseteq Seqs, S # {}
  PROVE  Oldest(S) \in S
<1>1. S \subseteq Nat
  BY CloudSeqsAssumption
<1>2. \E s \in S : \A t \in S : s <= t
  BY <1>1, LeastExists
<1> QED
  BY <1>2 DEF Oldest

\* What each variable of the replay ranges over, by the tasks it is for.
RecordTypes ==
  /\ mode \in Modes /\ held \subseteq Seqs /\ handed \subseteq Seqs
  /\ removed \subseteq Seqs /\ answered \subseteq Seqs
  /\ rseq \in Seqs \cup {None} /\ cur \in Seqs \cup {None}
  /\ wire \subseteq Messages /\ faults \in 0..MaxFaults
TaskTypes ==
  /\ rpc \in {"idle", "publish"} /\ (rpc = "publish" => cur \in Seqs)
  /\ ppc \in {"idle", "flush", "status"} /\ tokens \in {0, 1}
FlagTypes ==
  /\ outstanding \in BOOLEAN /\ gatewayTopic \in BOOLEAN
  /\ recent \in BOOLEAN /\ backoff \in BOOLEAN /\ agg \in BOOLEAN
  /\ blocked \in BOOLEAN /\ suspended \in BOOLEAN /\ online \in BOOLEAN
CloudTypes == RecordTypes /\ TaskTypes /\ FlagTypes

\* They hold at the start, and are the shape that the module promises.
LEMMA CloudTypesInit == CloudInit => CloudTypes
<1> SUFFICES ASSUME CloudInit PROVE CloudTypes
  OBVIOUS
<1>1. RecordTypes
  BY CloudFaultsAssumption DEF CloudInit, RecordTypes
<1>2. TaskTypes
  BY DEF CloudInit, TaskTypes
<1>3. FlagTypes
  BY DEF CloudInit, FlagTypes
<1> QED
  BY <1>1, <1>2, <1>3 DEF CloudTypes

\* As one sees by taking the sets apart.
LEMMA CloudTyped == ASSUME CloudTypes PROVE CloudTypeOK
BY DEF CloudTypes, RecordTypes, TaskTypes, FlagTypes, CloudTypeOK

\* A publish that fails has spent a token that was there.
LEMMA FailedTyped ==
  ASSUME CloudTypes, PublishFails
  PROVE  tokens' \in {0, 1} /\ faults' \in 0..MaxFaults
BY CloudFaultsAssumption
DEF PublishFails, RateAllows, CloudTypes, RecordTypes, TaskTypes

\* replay_task: the record it marks is one that is held.
LEMMA ReplayTyped ==
  ASSUME CloudTypes, ReplayStep PROVE CloudTypes'
<1>1. CASE ReplayTimeout
  BY <1>1 DEF ReplayTimeout, CloudTypes, RecordTypes, TaskTypes, FlagTypes,
              replay, live, limiter, link, store
<1>2. CASE ReplayMark
  <2>1. Oldest(held) \in Seqs
    BY <1>2, OldestIsHeld
    DEF ReplayMark, MayReplay, CloudTypes, RecordTypes
  <2>2. /\ cur' = Oldest(held) /\ rseq' = Oldest(held) /\ rpc' = "publish"
        /\ recent' = TRUE /\ outstanding' = TRUE
        /\ UNCHANGED <<mode, backoff, live, limiter, link, wire, store,
                       answered>>
    BY <1>2 DEF ReplayMark
  <2>3. gatewayTopic' \in BOOLEAN
    BY <1>2 DEF ReplayMark
  <2> QED
    BY <2>1, <2>2, <2>3
    DEF CloudTypes, RecordTypes, TaskTypes, FlagTypes, live, limiter, link,
        store
<1>3. CASE ReplayPublish
  <2>1. /\ tokens' = tokens - 1 /\ tokens > 0 /\ rpc = "publish"
        /\ rpc' = "idle" /\ cur' = None
        /\ wire' = wire \cup {Message(TelemetryTopic, cur)}
        /\ UNCHANGED <<mode, uif, live, blocked, suspended, link, store,
                       answered>>
    BY <1>3 DEF ReplayPublish, RateAllows
  <2>2. Message(TelemetryTopic, cur) \in Messages
    BY <2>1 DEF Message, Messages, TelemetryTopic, CloudTypes, TaskTypes
  <2>3. tokens' \in {0, 1}
    BY <2>1 DEF CloudTypes, TaskTypes
  <2> QED
    BY <2>1, <2>2, <2>3
    DEF CloudTypes, RecordTypes, TaskTypes, FlagTypes, uif, live, link, store
<1>4. CASE ReplayDeferred
  <2>1. /\ outstanding' = FALSE /\ backoff' = TRUE /\ rpc' = "idle"
        /\ cur' = None
        /\ UNCHANGED <<mode, rseq, gatewayTopic, recent, live, blocked,
                       suspended, online, wire, store, answered>>
    BY <1>4 DEF ReplayDeferred
  <2>2. tokens' \in {0, 1} /\ faults' \in 0..MaxFaults
    <3>1. UNCHANGED <<tokens, faults>> \/ PublishFails
      BY <1>4 DEF ReplayDeferred
    <3> QED
      BY <3>1, FailedTyped DEF CloudTypes, RecordTypes, TaskTypes
  <2> QED
    BY <2>1, <2>2
    DEF CloudTypes, RecordTypes, TaskTypes, FlagTypes, live, store
<1> QED
  BY <1>1, <1>2, <1>3, <1>4 DEF ReplayStep

\* publish_task, and a slave's status: a token for each message.
LEMMA LiveTyped ==
  ASSUME CloudTypes,
         LivePoint \/ FlushCheck \/ StatusCheck \/ PublishStep \/ SlaveStatus
  PROVE  CloudTypes'
<1>1. CASE LivePublish \/ SlaveStatus
  <2>1. /\ tokens' = tokens - 1 /\ tokens > 0 /\ ppc' \in {ppc, "idle"}
        /\ UNCHANGED <<mode, uif, replay, blocked, suspended, link, store,
                       answered>>
    BY <1>1 DEF LivePublish, SlaveStatus, RateAllows, live
  <2>2. wire' \subseteq Messages
    <3>1. \E t \in {Attributes, GatewayAttributes} :
            wire' = wire \cup {Message(t, None)}
      BY <1>1 DEF LivePublish, SlaveStatus, SlaveStatusSent, TelemetryTopic
    <3> QED
      BY <3>1 DEF Message, Messages, CloudTypes, RecordTypes
  <2>3. agg' \in BOOLEAN
    BY <1>1 DEF LivePublish, SlaveStatus, live, CloudTypes, FlagTypes
  <2>4. tokens' \in {0, 1}
    BY <2>1 DEF CloudTypes, TaskTypes
  <2> QED
    BY <2>1, <2>2, <2>3, <2>4
    DEF CloudTypes, RecordTypes, TaskTypes, FlagTypes, uif, replay, link,
        store
<1>2. CASE LivePoint \/ FlushCheck \/ StatusCheck
  <2>1. /\ UNCHANGED <<mode, uif, replay, limiter, link, wire, store,
                       answered>>
        /\ agg' \in {agg, TRUE} /\ ppc' \in {ppc, "flush", "status"}
    BY <1>2 DEF LivePoint, FlushCheck, StatusCheck
  <2>2. RecordTypes'
    BY <2>1 DEF CloudTypes, RecordTypes, uif, replay, link, store
  <2>3. TaskTypes'
    BY <2>1 DEF CloudTypes, TaskTypes, replay, limiter
  <2>4. FlagTypes'
    BY <2>1 DEF CloudTypes, FlagTypes, uif, limiter, link
  <2> QED
    BY <2>2, <2>3, <2>4 DEF CloudTypes
<1>3. CASE LiveHeld
  <2>1. /\ ppc' = "idle"
        /\ UNCHANGED <<mode, uif, replay, agg, blocked, suspended, online,
                       wire, store, answered>>
    BY <1>3 DEF LiveHeld
  <2>2. tokens' \in {0, 1} /\ faults' \in 0..MaxFaults
    <3>1. UNCHANGED <<tokens, faults>> \/ PublishFails
      BY <1>3 DEF LiveHeld
    <3> QED
      BY <3>1, FailedTyped DEF CloudTypes, RecordTypes, TaskTypes
  <2> QED
    BY <2>1, <2>2
    DEF CloudTypes, RecordTypes, TaskTypes, FlagTypes, uif, replay, store
<1> QED
  BY <1>1, <1>2, <1>3 DEF PublishStep

\* The MQTT task handles an answer.
LEMMA AnswerTyped ==
  ASSUME CloudTypes, NEW m \in wire, NEW code \in Codes, Answer(m, code)
  PROVE  CloudTypes'
<1>1. /\ UNCHANGED <<mode, rpc, cur, agg, ppc, online, faults, handed>>
      /\ wire' = wire \ {m}
  BY DEF Answer, replay, live, link
<1>2. /\ tokens' \in {0, tokens}
      /\ blocked' \in BOOLEAN /\ suspended' \in BOOLEAN
  BY DEF Answer, RecordPublishResponse
<1>3. /\ held' \subseteq held /\ removed' \subseteq removed \cup held
      /\ rseq' \in {rseq, None}
  BY DEF Answer, CloudResponse, uif
<1>4. /\ outstanding' \in BOOLEAN /\ recent' \in BOOLEAN
      /\ backoff' \in BOOLEAN /\ gatewayTopic' \in BOOLEAN
  <2>1. \/ /\ outstanding' = FALSE /\ recent' = FALSE
           /\ backoff' = (code # 0) /\ UNCHANGED gatewayTopic
        \/ UNCHANGED uif
    BY DEF Answer, CloudResponse
  <2> QED
    BY <2>1 DEF uif, CloudTypes, FlagTypes
<1>5. answered' \subseteq Seqs
  <2>1. answered' \in {answered, answered \cup {m.seq}}
        /\ (m.seq = None => answered' = answered)
    BY DEF Answer
  <2>2. m.seq \in Seqs \cup {None}
    BY DEF CloudTypes, RecordTypes, Messages
  <2> QED
    BY <2>1, <2>2 DEF CloudTypes, RecordTypes
<1> QED
  BY <1>1, <1>2, <1>3, <1>4, <1>5
  DEF CloudTypes, RecordTypes, TaskTypes, FlagTypes

\* Time, the network and the user.
LEMMA OthersTyped ==
  ASSUME CloudTypes,
         \/ \E s \in Seqs : Put(s)
         \/ \E m \in wire : Lose(m)
         \/ Time \/ ClearPublishGuard
         \/ Connected \/ Disconnected \/ ConnectionLost
         \/ UNCHANGED cloudVars
  PROVE  CloudTypes'
<1>1. CASE \E s \in Seqs : Put(s)
  BY <1>1 DEF Put, CloudTypes, RecordTypes, TaskTypes, FlagTypes, uif, replay,
              live, limiter, link
<1>2. CASE (\E m \in wire : Lose(m)) \/ Disconnected
  <2>1. faults' \in 0..MaxFaults /\ wire' \subseteq wire
    BY <1>2, CloudFaultsAssumption
    DEF Lose, Disconnected, CloudTypes, RecordTypes
  <2>2. /\ UNCHANGED <<mode, uif, replay, live, limiter, store, answered>>
        /\ online' \in {online, FALSE}
    BY <1>2 DEF Lose, Disconnected
  <2>3. RecordTypes'
    BY <2>1, <2>2 DEF CloudTypes, RecordTypes, uif, replay, store
  <2>4. TaskTypes'
    BY <2>2 DEF CloudTypes, TaskTypes, replay, live, limiter
  <2>5. FlagTypes'
    BY <2>2 DEF CloudTypes, FlagTypes, uif, live, limiter
  <2> QED
    BY <2>3, <2>4, <2>5 DEF CloudTypes
<1>3. CASE Time \/ ClearPublishGuard \/ Connected \/ ConnectionLost
  <2>1. /\ UNCHANGED <<mode, gatewayTopic, replay, live, store, faults,
                       answered>>
        /\ rseq' \in {rseq, None}
    BY <1>3 DEF Time, AnswerOverdue, BackoffEnds, BlockEnds, Refill, uif,
                ClearPublishGuard, Connected, ConnectionLost, link
  <2>2. tokens' \in {tokens, 0, 1}
    BY <1>3 DEF Time, AnswerOverdue, BackoffEnds, BlockEnds, Refill,
                ClearPublishGuard, Connected, ConnectionLost, limiter
  <2>3. /\ outstanding' \in {outstanding, FALSE}
        /\ recent' \in {recent, FALSE}
        /\ backoff' \in {backoff, FALSE}
    BY <1>3 DEF Time, AnswerOverdue, BackoffEnds, BlockEnds, Refill, uif,
                ClearPublishGuard, Connected, ConnectionLost
  <2>4. /\ blocked' \in {blocked, FALSE}
        /\ suspended' \in {suspended, FALSE}
        /\ online' \in {online, TRUE}
    BY <1>3 DEF Time, AnswerOverdue, BackoffEnds, BlockEnds, Refill, limiter,
                ClearPublishGuard, Connected, ConnectionLost, link
  <2>5. wire' \subseteq Messages
    <3>1. wire' \in {wire, wire \cup {Message(Attributes, None)}}
      BY <1>3 DEF Time, AnswerOverdue, BackoffEnds, BlockEnds, Refill,
                  ClearPublishGuard, Connected, ConnectionLost,
                  SlaveStatusSent
    <3> QED
      BY <3>1 DEF Message, Messages, CloudTypes, RecordTypes
  <2>6. RecordTypes'
    BY <2>1, <2>5 DEF CloudTypes, RecordTypes, replay, store
  <2>7. TaskTypes'
    BY <2>1, <2>2 DEF CloudTypes, TaskTypes, replay, live
  <2>8. FlagTypes'
    BY <2>1, <2>3, <2>4 DEF CloudTypes, FlagTypes, live
  <2> QED
    BY <2>6, <2>7, <2>8 DEF CloudTypes
<1>4. CASE UNCHANGED cloudVars
  BY <1>4 DEF cloudVars, CloudTypes, RecordTypes, TaskTypes, FlagTypes, uif,
              replay, live, limiter, link, store
<1> QED
  BY <1>1, <1>2, <1>3, <1>4

\* Every step keeps the types.
LEMMA CloudTypesNext ==
  ASSUME CloudTypes, [CloudNext]_cloudVars PROVE CloudTypes'
BY ReplayTyped, LiveTyped, AnswerTyped, OthersTyped DEF CloudNext, Answers

CloudSideInv == AggInv /\ AggBounds /\ CloudTypes

\* A step of the model is one of each part, or leaves the part alone.
LEMMA CloudSideKeeps ==
  ASSUME CloudSideInv, [CloudSideNext]_cloudSideVars PROVE CloudSideInv'
<1>1. [AggNext]_aggVars /\ [CloudNext]_cloudVars
  BY DEF CloudSideNext, InAggregate, InReplay, cloudSideVars
<1> QED
  BY <1>1, AggInvNext, AggBoundsNext, CloudTypesNext DEF CloudSideInv

(***************************************************************************)
(* The aggregate never exceeds THINGSCLOUD_AGG_BUFFER_MAX, the bucket is   *)
(* never overdrawn by any of its users, and replay_task works on a record  *)
(* of the store: for every set of points and records.                      *)
(***************************************************************************)
THEOREM CloudSideTypeCorrect == CloudSideSpec => []CloudSideTypeOK
<1>1. CloudSideSpec => CloudSideInit /\ [][CloudSideNext]_cloudSideVars
  BY PTL DEF CloudSideSpec
<1>2. CloudSideInit => CloudSideInv
  BY AggInvInit, AggBoundsInit, CloudTypesInit DEF CloudSideInit, CloudSideInv
<1>3. CloudSideInv => CloudSideTypeOK
  BY AggTyped, CloudTyped DEF CloudSideInv, CloudSideTypeOK
<1> QED
  BY <1>1, <1>2, <1>3, CloudSideKeeps, PTL
-----------------------------------------------------------------------------
(***************************************************************************)
(* Which answers complete a record.  The topic that uif_replay_all() notes *)
(* and the topic that the adapter sends to are opposites in either mode.   *)
(***************************************************************************)
TopicsInv ==
  /\ outstanding => (gatewayTopic <=> mode = "GATEWAY")
  /\ \A m \in wire : m.seq # None => m.topic = TelemetryTopic
  /\ \A m \in wire : mode = "GATEWAY" => m.topic = Attributes
  /\ mode = "GATEWAY" => removed = {}

\* An answer to a record's own message changes neither the store nor what
\* replay_task knows.
OwnAnswerIgnored ==
  [][\A m \in wire, code \in Codes :
       m.seq # None /\ Answer(m, code) => UNCHANGED <<held, removed, uif>>
    ]_cloudVars

\* In gateway mode no answer at all removes a record.
NothingReplayed == mode = "GATEWAY" => removed = {}

\* By the two topics, an answer to a record is taken for a stranger's.
LEMMA StrangersAnswer ==
  ASSUME TopicsInv,
         NEW m \in wire, NEW code \in Codes, Answer(m, code),
         m.seq # None \/ mode = "GATEWAY"
  PROVE  UNCHANGED <<held, removed, uif>>
<1>1. CloudResponse(m.topic = GatewayAttributes, code)
  BY DEF Answer
<1>2. m.topic = TelemetryTopic
  BY DEF TopicsInv, TelemetryTopic
<1>3. outstanding => ~((m.topic = GatewayAttributes) = gatewayTopic)
  BY <1>2 DEF TopicsInv, TelemetryTopic, Attributes, GatewayAttributes
<1> QED
  BY <1>1, <1>3 DEF CloudResponse

\* Nothing is on its way at the start.
LEMMA TopicsInvInit == CloudInit => TopicsInv
BY DEF CloudInit, TopicsInv

\* The messages that a step adds go to the topic of the mode.
LEMMA PublishedTopics ==
  ASSUME TopicsInv, ReplayPublish \/ LivePublish \/ SlaveStatus \/ Connected
  PROVE  TopicsInv'
<1>1. /\ UNCHANGED <<mode, uif, removed>>
      /\ \/ wire' = wire
         \/ wire' = wire \cup {Message(TelemetryTopic, cur)}
         \/ \E t \in {TelemetryTopic, Attributes} :
              wire' = wire \cup {Message(t, None)}
  BY DEF ReplayPublish, LivePublish, SlaveStatus, Connected, SlaveStatusSent,
         store
<1>2. TelemetryTopic' = TelemetryTopic
  BY <1>1 DEF TelemetryTopic
<1>3. \A m \in wire' : m.seq # None => m.topic = TelemetryTopic
  BY <1>1 DEF TopicsInv, Message
<1>4. \A m \in wire' : mode = "GATEWAY" => m.topic = Attributes
  BY <1>1 DEF TopicsInv, Message, TelemetryTopic
<1> QED
  BY <1>1, <1>2, <1>3, <1>4 DEF TopicsInv, uif

\* replay_task notes the topic of the other mode whenever it marks a record.
LEMMA TopicsInvNext ==
  ASSUME TopicsInv, [CloudNext]_cloudVars PROVE TopicsInv'
<1>1. ASSUME UNCHANGED <<mode, removed, gatewayTopic>>, wire' \subseteq wire,
             outstanding' => outstanding
      PROVE  TopicsInv'
  BY <1>1 DEF TopicsInv, TelemetryTopic
<1>2. CASE ReplayPublish \/ LivePublish \/ SlaveStatus \/ Connected
  BY <1>2, PublishedTopics
<1>3. CASE ReplayMark
  <2>1. /\ UNCHANGED <<mode, removed, wire>>
        /\ gatewayTopic' = (mode = "GATEWAY")
    BY <1>3 DEF ReplayMark, store
  <2> QED
    BY <2>1 DEF TopicsInv, TelemetryTopic
<1>4. ASSUME NEW m \in wire, NEW code \in Codes, Answer(m, code)
      PROVE  TopicsInv'
  <2>1. /\ mode' = mode /\ gatewayTopic' = gatewayTopic /\ wire' \subseteq wire
        /\ outstanding' => outstanding
    BY <1>4 DEF Answer, CloudResponse, uif
  <2>2. CASE mode = "GATEWAY"
    BY <1>1, <1>4, <2>1, <2>2, StrangersAnswer
  <2>3. CASE mode # "GATEWAY"
    BY <2>1, <2>3 DEF TopicsInv, TelemetryTopic
  <2> QED
    BY <2>2, <2>3
<1>5. CASE \/ \E s \in Seqs : Put(s)
           \/ \E m \in wire : Lose(m)
           \/ LivePoint \/ FlushCheck \/ StatusCheck \/ LiveHeld
           \/ UNCHANGED cloudVars
  <2>1. UNCHANGED <<mode, removed, uif>> /\ wire' \subseteq wire
    BY <1>5 DEF Put, Lose, LivePoint, FlushCheck, StatusCheck, LiveHeld,
                cloudVars, store
  <2> QED
    BY <1>1, <2>1 DEF uif
<1>6. CASE ReplayTimeout \/ ReplayDeferred
  BY <1>1, <1>6 DEF ReplayTimeout, ReplayDeferred, store
<1>7. CASE Time
  BY <1>1, <1>7 DEF Time, AnswerOverdue, BackoffEnds, BlockEnds, Refill, uif,
                    store
<1>8. CASE ClearPublishGuard \/ Disconnected \/ ConnectionLost
  BY <1>1, <1>8 DEF ClearPublishGuard, Disconnected, ConnectionLost, uif,
                    store
<1> QED
  BY <1>2, <1>3, <1>4, <1>5, <1>6, <1>7, <1>8
  DEF CloudNext, ReplayStep, PublishStep, Answers

(***************************************************************************)
(* What the run cloud_drain finds, for every set of records, answers and   *)
(* faults: the answer that the platform gives to a record changes neither  *)
(* the offline store nor what replay_task waits for, so a record is sent   *)
(* again until an unrelated answer is mistaken for its own.                *)
(***************************************************************************)
THEOREM OwnAnswersIgnored == CloudSpec => OwnAnswerIgnored
<1>1. CloudSpec => CloudInit /\ [][CloudNext]_cloudVars
  BY PTL DEF CloudSpec
<1>2. ASSUME TopicsInv
      PROVE  \A m \in wire, code \in Codes :
               m.seq # None /\ Answer(m, code)
                 => UNCHANGED <<held, removed, uif>>
  BY <1>2, StrangersAnswer
<1>3. TopicsInv /\ [CloudNext]_cloudVars
        => [\A m \in wire, code \in Codes :
              m.seq # None /\ Answer(m, code)
                => UNCHANGED <<held, removed, uif>>]_cloudVars
  BY <1>2
<1> QED
  BY <1>1, <1>3, TopicsInvInit, TopicsInvNext, PTL DEF OwnAnswerIgnored

(***************************************************************************)
(* In gateway mode no answer of the platform is ever awaited on the topic  *)
(* that it comes on: nothing that was cached is removed by replaying it.   *)
(***************************************************************************)
THEOREM NothingReplayedInGatewayMode == CloudSpec => []NothingReplayed
<1>1. CloudSpec => CloudInit /\ [][CloudNext]_cloudVars
  BY PTL DEF CloudSpec
<1>2. TopicsInv => NothingReplayed
  BY DEF TopicsInv, NothingReplayed
<1> QED
  BY <1>1, <1>2, TopicsInvInit, TopicsInvNext, PTL

(***************************************************************************)
(* In the common model of live telemetry and replay the rate is kept, a    *)
(* point that is not forgone stays until it is sent, and the answers are   *)
(* ignored as above.                                                       *)
(***************************************************************************)
THEOREM CloudSideSafe ==
  CloudSideSpec => /\ []RateKept /\ []KeptUntilSent
                   /\ OwnAnswerIgnored /\ []NothingReplayed
<1>1. CloudSideSpec => CloudSideInit /\ [][CloudSideNext]_cloudSideVars
  BY PTL DEF CloudSideSpec
<1>2. CloudSideInit => AggInit /\ CloudInit
  BY DEF CloudSideInit
<1>3. [CloudSideNext]_cloudSideVars
        => [AggNext]_aggVars /\ [CloudNext]_cloudVars
  BY DEF CloudSideNext, InAggregate, InReplay, cloudSideVars
<1>4. CloudSideSpec => AggSteps /\ CloudSpec
  BY <1>1, <1>2, <1>3, PTL DEF AggSteps, CloudSpec
<1> QED
  BY <1>4, RateIsKept, UnsentIsKept, OwnAnswersIgnored,
     NothingReplayedInGatewayMode, PTL
=============================================================================
