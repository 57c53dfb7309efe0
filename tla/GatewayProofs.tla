--------------------------- MODULE GatewayProofs ----------------------------
(***************************************************************************)
(* Three components whose tasks run side by side: the way of a reading     *)
(* through the queues (main/scheduler/scheduler.c), the life cycle of the  *)
(* MQTT client (main/mqtt_comm/mqtt_handler.c), and the discovery of       *)
(* devices (main/modbus/modbus_discover.c) with the web editor.            *)
(***************************************************************************)
EXTENDS MCGateway, ArraysProofs, FiniteSetTheorems

\* Safety needs no fairness: the behaviours of each component, fair or not.
PipelineSteps  == PipelineInit /\ [][PipelineNext]_pipelineVars
MqttSteps      == MqttInit /\ [][MqttNext]_mqttVars
DiscoverySteps == DiscoveryInit /\ [][DiscoveryNext]_scanVars

(***************************************************************************)
(* LossAccounted.  Each number that was polled is in one column of a       *)
(* ledger: it travels (in a hand or a queue), or it was cached, sent or    *)
(* kept, or it is lost; the lost ones are no more than were counted.  The  *)
(* cardinalities of the property come from two facts about what travels:   *)
(* no number is in two hands, in two places of the queues or in both, and  *)
(* so hands and places can be counted instead of numbers.                  *)
(***************************************************************************)

Items == [n : Nat, p : Points \cup {Nobody.p}, good : BOOLEAN]

\* Hands h and queues q hold readings up to m, each of them in one place.
InOneHand(h) ==
  \A t, u \in Hands : h[t] # Nobody /\ h[t].n = h[u].n => t = u

InOneQueue(q) ==
  \A k, l \in Queues : \A i \in 1..Len(q[k]), j \in 1..Len(q[l]) :
    q[k][i].n = q[l][j].n => k = l /\ i = j

HandOrQueue(h, q) ==
  \A t \in Hands, k \in Queues : \A i \in 1..Len(q[k]) : q[k][i].n # h[t].n

Flow(h, q, m) ==
  /\ h \in [Hands -> Items] /\ q \in [Queues -> Seq(Items)]
  /\ \A t \in Hands : h[t] # Nobody => h[t].n \in 1..m
  /\ \A k \in Queues : \A i \in 1..Len(q[k]) : q[k][i].n \in 1..m
  /\ InOneHand(h) /\ InOneQueue(q) /\ HandOrQueue(h, q)

InHands(h)  == {h[t].n : t \in {u \in Hands : h[u] # Nobody}}
InQueue(q, k) == {q[k][i].n : i \in 1..Len(q[k])}
Travels(h, q) == InHands(h) \cup UNION {InQueue(q, k) : k \in Queues}

\* What the tasks do to hands and queues.
Put(h, t, r)     == [h EXCEPT ![t] = r]
Appended(q, k, r) == [q EXCEPT ![k] = Append(@, r)]
Shortened(q, k)  == [q EXCEPT ![k] = Tail(@)]

\* An empty hand is an item as well, with number 0.
LEMMA NobodyItem == Nobody \in Items /\ Nobody.n = 0
BY DEF Nobody, Items

\* A number travels when some hand or some queue has it.
LEMMA TravelsIff ==
  ASSUME NEW h, NEW q, NEW n
  PROVE  n \in Travels(h, q) <=>
           \/ \E t \in Hands : h[t] # Nobody /\ h[t].n = n
           \/ \E k \in Queues : \E i \in 1..Len(q[k]) : q[k][i].n = n
BY DEF Travels, InHands, InQueue

\* What travels was polled.
LEMMA TravelsUpTo ==
  ASSUME NEW h, NEW q, NEW m \in Nat, Flow(h, q, m)
  PROVE  Travels(h, q) \subseteq 1..m
BY TravelsIff DEF Flow

\* A task hands its item on to a queue.
LEMMA PassFlow ==
  ASSUME NEW h, NEW q, NEW m \in Nat, Flow(h, q, m),
         NEW t \in Hands, NEW k \in Queues, h[t] # Nobody
  PROVE  LET h1 == Put(h, t, Nobody)
             q1 == Appended(q, k, h[t])
         IN Flow(h1, q1, m) /\ Travels(h1, q1) = Travels(h, q)
<1> DEFINE h1 == Put(h, t, Nobody)
           q1 == Appended(q, k, h[t])
<1>1. h \in [Hands -> Items] /\ q \in [Queues -> Seq(Items)]
  BY DEF Flow
<1>2. /\ q1 \in [Queues -> Seq(Items)]
      /\ Len(q[k]) \in Nat /\ Len(q1[k]) = Len(q[k]) + 1
      /\ \A i \in 1..Len(q[k]) : q1[k][i] = q[k][i]
      /\ q1[k][Len(q[k]) + 1] = h[t]
      /\ \A l \in Queues : l # k => q1[l] = q[l]
  BY <1>1, AppendProperties, LenProperties DEF Appended
<1>3. /\ h1 \in [Hands -> Items] /\ h1[t] = Nobody
      /\ \A u \in Hands : u # t => h1[u] = h[u]
  BY <1>1, NobodyItem DEF Put
<1> HIDE DEF h1, q1
<1>4. ASSUME NEW l \in Queues, NEW i \in 1..Len(q1[l])
      PROVE  \/ i \in 1..Len(q[l]) /\ q1[l][i] = q[l][i]
             \/ l = k /\ i = Len(q[k]) + 1 /\ q1[l][i] = h[t]
  BY <1>2
<1>5. h[t].n \in 1..m /\ \A u \in Hands : u # t => h[u].n # h[t].n
  BY DEF Flow, InOneHand
<1>6. InOneHand(h1)
  BY <1>3, NobodyItem DEF Flow, InOneHand
<1>7. InOneQueue(q1)
  <2> SUFFICES ASSUME NEW a \in Queues, NEW b \in Queues,
                      NEW i \in 1..Len(q1[a]), NEW j \in 1..Len(q1[b]),
                      q1[a][i].n = q1[b][j].n
               PROVE  a = b /\ i = j
    BY DEF InOneQueue
  <2>1. \A l \in Queues : \A x \in 1..Len(q[l]) : q[l][x].n # h[t].n
    BY DEF Flow, HandOrQueue
  <2>2. CASE i \in 1..Len(q[a]) /\ q1[a][i] = q[a][i]
    <3>1. CASE j \in 1..Len(q[b]) /\ q1[b][j] = q[b][j]
      BY <2>2, <3>1 DEF Flow, InOneQueue
    <3>2. CASE b = k /\ j = Len(q[k]) + 1 /\ q1[b][j] = h[t]
      BY <2>1, <2>2, <3>2
    <3> QED
      BY <1>4, <3>1, <3>2
  <2>3. CASE a = k /\ i = Len(q[k]) + 1 /\ q1[a][i] = h[t]
    <3>1. CASE j \in 1..Len(q[b]) /\ q1[b][j] = q[b][j]
      BY <2>1, <2>3, <3>1
    <3>2. CASE b = k /\ j = Len(q[k]) + 1 /\ q1[b][j] = h[t]
      BY <2>3, <3>2
    <3> QED
      BY <1>4, <3>1, <3>2
  <2> QED
    BY <1>4, <2>2, <2>3
<1>8. HandOrQueue(h1, q1)
  <2> SUFFICES ASSUME NEW u \in Hands, NEW l \in Queues,
                      NEW i \in 1..Len(q1[l])
               PROVE  q1[l][i].n # h1[u].n
    BY DEF HandOrQueue
  <2>1. q1[l][i].n \in 1..m
    BY <1>4, <1>5 DEF Flow
  <2>2. CASE u = t
    BY <1>3, <2>1, <2>2, NobodyItem
  <2>3. CASE u # t
    <3>1. h1[u] = h[u] /\ h[u].n # h[t].n
      BY <1>3, <1>5, <2>3
    <3>2. i \in 1..Len(q[l]) => q[l][i].n # h[u].n
      BY DEF Flow, HandOrQueue
    <3> QED
      BY <1>4, <3>1, <3>2
  <2> QED
    BY <2>2, <2>3
<1>9. Flow(h1, q1, m)
  BY <1>2, <1>3, <1>4, <1>5, <1>6, <1>7, <1>8 DEF Flow
<1>10. ASSUME NEW n PROVE n \in Travels(h1, q1) <=> n \in Travels(h, q)
  <2> DEFINE InIt(hs, qs) ==
               \/ \E u \in Hands : hs[u] # Nobody /\ hs[u].n = n
               \/ \E l \in Queues : \E i \in 1..Len(qs[l]) : qs[l][i].n = n
  <2>0. /\ n \in Travels(h, q) <=> InIt(h, q)
        /\ n \in Travels(h1, q1) <=> InIt(h1, q1)
    BY DEF Travels, InHands, InQueue
  <2>1. ASSUME InIt(h1, q1) PROVE InIt(h, q)
    BY <1>3, <1>4, <2>1
  <2>2. ASSUME NEW u \in Hands, h[u] # Nobody, h[u].n = n
        PROVE  InIt(h1, q1)
    <3>1. Len(q[k]) + 1 \in 1..Len(q1[k])
      BY <1>2
    <3> QED
      BY <1>2, <1>3, <2>2, <3>1
  <2>3. ASSUME NEW l \in Queues, NEW i \in 1..Len(q[l]), q[l][i].n = n
        PROVE  InIt(h1, q1)
    <3>1. i \in 1..Len(q1[l]) /\ q1[l][i] = q[l][i]
      BY <1>2
    <3> QED
      BY <2>3, <3>1
  <2> QED
    BY <2>0, <2>1, <2>2, <2>3
<1> QED
  BY <1>9, <1>10 DEF h1, q1

\* A task takes the oldest item of a queue, or drops it.
LEMMA OldestTaken ==
  ASSUME NEW q \in [Queues -> Seq(Items)], NEW k \in Queues, q[k] # <<>>
  PROVE  /\ Shortened(q, k) \in [Queues -> Seq(Items)]
         /\ Len(q[k]) \in Nat \ {0} /\ Len(Tail(q[k])) = Len(q[k]) - 1
         /\ Head(q[k]) = q[k][1] /\ q[k][1] \in Items
         /\ \A i \in 1..(Len(q[k]) - 1) : Tail(q[k])[i] = q[k][i + 1]
<1>1. /\ Tail(q[k]) \in Seq(Items) /\ Len(Tail(q[k])) = Len(q[k]) - 1
      /\ Head(q[k]) = q[k][1] /\ q[k][1] \in Items
      /\ \A i \in 1..Len(Tail(q[k])) : Tail(q[k])[i] = q[k][i + 1]
      /\ Len(q[k]) \in Nat \ {0}
  BY HeadTailProperties, EmptySeq, LenProperties
<1> QED
  BY <1>1 DEF Shortened

\* A task that takes the head of a queue moves a reading, no more.
LEMMA TakeFlow ==
  ASSUME NEW h, NEW q, NEW m \in Nat, Flow(h, q, m),
         NEW t \in Hands, NEW k \in Queues, h[t] = Nobody, q[k] # <<>>
  PROVE  LET h1 == Put(h, t, Head(q[k]))
             q1 == Shortened(q, k)
         IN Flow(h1, q1, m) /\ Travels(h1, q1) = Travels(h, q)
<1> DEFINE h1 == Put(h, t, Head(q[k]))
           q1 == Shortened(q, k)
<1>1. h \in [Hands -> Items] /\ q \in [Queues -> Seq(Items)]
  BY DEF Flow
<1>2. /\ q1 \in [Queues -> Seq(Items)]
      /\ Len(q[k]) \in Nat \ {0} /\ Len(q1[k]) = Len(q[k]) - 1
      /\ \A i \in 1..(Len(q[k]) - 1) : q1[k][i] = q[k][i + 1]
      /\ \A l \in Queues : l # k => q1[l] = q[l]
  BY <1>1, OldestTaken DEF Shortened
<1>3. /\ h1 \in [Hands -> Items] /\ h1[t] = q[k][1]
      /\ \A u \in Hands : u # t => h1[u] = h[u]
  BY <1>1, OldestTaken DEF Put
<1> HIDE DEF h1, q1
<1>4. ASSUME NEW l \in Queues, NEW i \in 1..Len(q1[l])
      PROVE  \/ l # k /\ i \in 1..Len(q[l]) /\ q1[l][i] = q[l][i]
             \/ l = k /\ i + 1 \in 2..Len(q[k]) /\ q1[l][i] = q[k][i + 1]
  BY <1>2
<1>5. 1 \in 1..Len(q[k]) /\ q[k][1].n \in 1..m /\ q[k][1] # Nobody
  BY <1>2, NobodyItem DEF Flow
<1>5b. ASSUME NEW l \in Queues, NEW i \in 1..Len(q1[l])
      PROVE  \E j \in 1..Len(q[l]) :
               q1[l][i] = q[l][j] /\ j = IF l = k THEN i + 1 ELSE i
  <2>1. CASE l = k
    <3>1. i + 1 \in 1..Len(q[l])
      BY <1>2, <1>4, <2>1
    <3> QED
      BY <1>4, <2>1, <3>1
  <2>2. CASE l # k
    BY <1>4, <2>2
  <2> QED
    BY <2>1, <2>2
<1>6. InOneHand(h1)
  <2>1. \A u \in Hands : q[k][1].n # h[u].n
    BY <1>5 DEF Flow, HandOrQueue
  <2>2. InOneHand(h)
    BY DEF Flow
  <2> QED
    BY <1>3, <2>1, <2>2 DEF InOneHand
<1>7. InOneQueue(q1)
  <2> SUFFICES ASSUME NEW a \in Queues, NEW b \in Queues,
                      NEW i \in 1..Len(q1[a]), NEW j \in 1..Len(q1[b]),
                      q1[a][i].n = q1[b][j].n
               PROVE  a = b /\ i = j
    BY DEF InOneQueue
  <2>1. PICK e \in 1..Len(q[a]) :
          q1[a][i] = q[a][e] /\ e = IF a = k THEN i + 1 ELSE i
    BY <1>5b
  <2>2. PICK f \in 1..Len(q[b]) :
          q1[b][j] = q[b][f] /\ f = IF b = k THEN j + 1 ELSE j
    BY <1>5b
  <2>3. a = b /\ e = f
    BY <2>1, <2>2 DEF Flow, InOneQueue
  <2>4. Len(q1[a]) \in Nat /\ Len(q1[b]) \in Nat
    BY <1>2, LenProperties
  <2> QED
    BY <2>1, <2>2, <2>3, <2>4
<1>8. HandOrQueue(h1, q1)
  <2> SUFFICES ASSUME NEW u \in Hands, NEW l \in Queues,
                      NEW i \in 1..Len(q1[l])
               PROVE  q1[l][i].n # h1[u].n
    BY DEF HandOrQueue
  <2>1. PICK j \in 1..Len(q[l]) :
          q1[l][i] = q[l][j] /\ j = IF l = k THEN i + 1 ELSE i
    BY <1>5b
  <2>2. l = k => j # 1
    BY <1>2, <2>1
  <2> QED
    BY <1>3, <1>5, <2>1, <2>2 DEF Flow, HandOrQueue, InOneQueue
<1>9. Flow(h1, q1, m)
  <2>1. \A u \in Hands : h1[u] # Nobody => h1[u].n \in 1..m
    BY <1>3, <1>5 DEF Flow
  <2>2. \A l \in Queues : \A i \in 1..Len(q1[l]) : q1[l][i].n \in 1..m
    BY <1>5b DEF Flow
  <2> QED
    BY <1>2, <1>3, <1>6, <1>7, <1>8, <2>1, <2>2 DEF Flow
<1>10. ASSUME NEW n PROVE n \in Travels(h1, q1) <=> n \in Travels(h, q)
  <2> DEFINE InIt(hs, qs) ==
               \/ \E u \in Hands : hs[u] # Nobody /\ hs[u].n = n
               \/ \E l \in Queues : \E i \in 1..Len(qs[l]) : qs[l][i].n = n
  <2>0. /\ n \in Travels(h, q) <=> InIt(h, q)
        /\ n \in Travels(h1, q1) <=> InIt(h1, q1)
    BY DEF Travels, InHands, InQueue
  <2>1. ASSUME InIt(h1, q1) PROVE InIt(h, q)
    <3>1. ASSUME NEW u \in Hands, h1[u] # Nobody, h1[u].n = n
          PROVE  InIt(h, q)
      BY <1>1, <1>3, <1>5, <3>1
    <3>2. ASSUME NEW l \in Queues, NEW i \in 1..Len(q1[l]), q1[l][i].n = n
          PROVE  InIt(h, q)
      BY <1>5b, <3>2
    <3> QED
      BY <2>1, <3>1, <3>2
  <2>2. ASSUME NEW u \in Hands, h[u] # Nobody, h[u].n = n
        PROVE  InIt(h1, q1)
    BY <1>3, <2>2
  <2>3. ASSUME NEW l \in Queues, NEW i \in 1..Len(q[l]), q[l][i].n = n
        PROVE  InIt(h1, q1)
    <3>1. CASE l = k /\ i = 1
      BY <1>3, <1>5, <2>3, <3>1
    <3>2. CASE l = k /\ i # 1
      <4>1. i - 1 \in 1..Len(q1[k]) /\ q1[k][i - 1] = q[k][(i - 1) + 1]
        BY <1>2, <3>2
      <4>2. (i - 1) + 1 = i
        BY <1>2, <3>2
      <4> QED
        BY <2>3, <3>2, <4>1, <4>2
    <3>3. CASE l # k
      BY <1>2, <2>3, <3>3
    <3> QED
      BY <3>1, <3>2, <3>3
  <2> QED
    BY <2>0, <2>1, <2>2, <2>3
<1> QED
  BY <1>9, <1>10 DEF h1, q1

\* A task gives its item up or away; a poll puts a new one into a hand.
LEMMA DropFlow ==
  ASSUME NEW h, NEW q, NEW m \in Nat, Flow(h, q, m),
         NEW t \in Hands, h[t] # Nobody
  PROVE  LET h1 == Put(h, t, Nobody)
         IN /\ Flow(h1, q, m)
            /\ h[t].n \in Travels(h, q)
            /\ Travels(h1, q) = Travels(h, q) \ {h[t].n}
<1> DEFINE h1 == Put(h, t, Nobody)
<1>1. /\ h1 \in [Hands -> Items] /\ h1[t] = Nobody
      /\ \A u \in Hands : u # t => h1[u] = h[u]
  BY NobodyItem DEF Flow, Put
<1> HIDE DEF h1
<1>2. InOneHand(h1)
  BY <1>1, NobodyItem DEF Flow, InOneHand
<1>3. HandOrQueue(h1, q)
  BY <1>1, NobodyItem DEF Flow, HandOrQueue
<1>4. Flow(h1, q, m)
  BY <1>1, <1>2, <1>3 DEF Flow
<1>5. InHands(h1) = InHands(h) \ {h[t].n} /\ h[t].n \in InHands(h)
  BY <1>1 DEF Flow, InOneHand, InHands
<1>6. \A k \in Queues : h[t].n \notin InQueue(q, k)
  BY DEF Flow, HandOrQueue, InQueue
<1> QED
  BY <1>4, <1>5, <1>6 DEF Travels, h1

\* A poll puts a new reading into an empty hand.
LEMMA NewFlow ==
  ASSUME NEW h, NEW q, NEW m \in Nat, Flow(h, q, m),
         NEW t \in Hands, h[t] = Nobody, NEW r \in Items, r.n = m + 1
  PROVE  LET h1 == Put(h, t, r)
         IN /\ Flow(h1, q, m + 1)
            /\ Travels(h1, q) = Travels(h, q) \cup {m + 1}
<1> DEFINE h1 == Put(h, t, r)
<1>1. /\ h1 \in [Hands -> Items] /\ h1[t] = r /\ r # Nobody
      /\ \A u \in Hands : u # t => h1[u] = h[u]
  BY NobodyItem DEF Flow, Put
<1> HIDE DEF h1
<1>2. \A u \in Hands : h[u].n # m + 1
  BY NobodyItem DEF Flow, Put
<1>3. \A k \in Queues : \A i \in 1..Len(q[k]) : q[k][i].n \in 1..m
  BY DEF Flow
<1>4. InOneHand(h1)
  BY <1>1, <1>2 DEF Flow, InOneHand
<1>5. HandOrQueue(h1, q)
  <2>1. \A k \in Queues : \A i \in 1..Len(q[k]) : q[k][i].n # m + 1
    BY ONLY <1>3, m \in Nat
  <2>2. \A u \in Hands, k \in Queues : \A i \in 1..Len(q[k]) :
          q[k][i].n # h[u].n
    BY DEF Flow, HandOrQueue
  <2>3. h1[t].n = m + 1
    BY <1>1
  <2> QED
    BY ONLY <1>1, <2>1, <2>2, <2>3 DEF HandOrQueue
<1>6. Flow(h1, q, m + 1)
  BY <1>1, <1>3, <1>4, <1>5 DEF Flow
<1>7. InHands(h1) = InHands(h) \cup {m + 1}
  BY <1>1 DEF InHands
<1> QED
  BY <1>6, <1>7 DEF Travels, h1

\* Counting along a one-to-one function, and counting what is disjoint.
LEMMA CountedAlong ==
  ASSUME NEW S, IsFiniteSet(S), NEW T, NEW f \in [S -> T],
         \A a, b \in S : f[a] = f[b] => a = b,
         \A y \in T : \E a \in S : f[a] = y
  PROVE  IsFiniteSet(T) /\ Cardinality(T) = Cardinality(S)
<1>1. f \in Bijection(S, T)
  BY DEF Bijection, Injection, Surjection, IsInjective
<1> QED
  BY <1>1, FS_Bijection DEF ExistsBijection

\* Cardinalities of disjoint sets add up.
LEMMA CountedApart ==
  ASSUME NEW S, NEW T, IsFiniteSet(S), IsFiniteSet(T), S \cap T = {}
  PROVE  /\ IsFiniteSet(S \cup T)
         /\ Cardinality(S \cup T) = Cardinality(S) + Cardinality(T)
         /\ Cardinality(S) \in Nat /\ Cardinality(T) \in Nat
<1>1. Cardinality(S \cap T) = 0
  BY FS_EmptySet
<1>2. /\ IsFiniteSet(S \cup T)
      /\ Cardinality(S \cup T)
           = Cardinality(S) + Cardinality(T) - Cardinality(S \cap T)
  BY FS_Union
<1>3. Cardinality(S) \in Nat /\ Cardinality(T) \in Nat
  BY FS_CardinalityType
<1> QED
  BY <1>1, <1>2, <1>3

\* There are finitely many tasks.
LEMMA HandsFinite == IsFiniteSet(Hands)
<1>1. IsFiniteSet({} \cup {"poll"})
  BY FS_EmptySet, FS_AddElement
<1>2. IsFiniteSet(({} \cup {"poll"}) \cup {"build"})
  BY <1>1, FS_AddElement
<1>3. IsFiniteSet((({} \cup {"poll"}) \cup {"build"}) \cup {"publish"})
  BY <1>2, FS_AddElement
<1>4. IsFiniteSet(((({} \cup {"poll"}) \cup {"build"}) \cup {"publish"})
                    \cup {"out"})
  BY <1>3, FS_AddElement
<1>5. IsFiniteSet((((({} \cup {"poll"}) \cup {"build"}) \cup {"publish"})
                    \cup {"out"}) \cup {"cache"})
  BY <1>4, FS_AddElement
<1>6. Hands = (((({} \cup {"poll"}) \cup {"build"}) \cup {"publish"})
                    \cup {"out"}) \cup {"cache"}
  BY DEF Hands
<1> QED
  BY <1>5, <1>6

\* Readings in different places are different, so they can be counted.
LEMMA QueueCount ==
  ASSUME NEW h, NEW q, NEW m \in Nat, Flow(h, q, m), NEW k \in Queues
  PROVE  /\ IsFiniteSet(InQueue(q, k))
         /\ Cardinality(InQueue(q, k)) = Len(q[k])
<1>1. Len(q[k]) \in Nat
  BY LenProperties DEF Flow
<1> DEFINE f == [i \in 1..Len(q[k]) |-> q[k][i].n]
<1>2. /\ f \in [1..Len(q[k]) -> InQueue(q, k)]
      /\ \A i, j \in 1..Len(q[k]) : f[i] = f[j] => i = j
      /\ \A y \in InQueue(q, k) : \E i \in 1..Len(q[k]) : f[i] = y
  BY DEF Flow, InOneQueue, InQueue
<1>3. IsFiniteSet(1..Len(q[k])) /\ Cardinality(1..Len(q[k])) = Len(q[k])
  <2> DEFINE l == Len(q[k])
  <2>1. l \in Nat
    BY <1>1
  <2> HIDE DEF l
  <2>2. IsFiniteSet(1..l) /\ Cardinality(1..l) = l
    BY <2>1, FS_Interval
  <2> QED
    BY <2>2 DEF l
<1> HIDE DEF f
<1> QED
  BY <1>2, <1>3, CountedAlong

\* As many readings are in hands as there are busy hands.
LEMMA HandCount ==
  ASSUME NEW h, NEW q, NEW m \in Nat, Flow(h, q, m)
  PROVE  /\ IsFiniteSet(InHands(h))
         /\ Cardinality(InHands(h))
              = Cardinality({t \in Hands : h[t] # Nobody})
<1> DEFINE B == {t \in Hands : h[t] # Nobody}
           f == [t \in B |-> h[t].n]
<1>1. /\ f \in [B -> InHands(h)]
      /\ \A t, u \in B : f[t] = f[u] => t = u
      /\ \A y \in InHands(h) : \E t \in B : f[t] = y
  BY DEF Flow, InOneHand, InHands
<1>2. IsFiniteSet(B)
  BY HandsFinite, FS_Subset
<1> HIDE DEF f, B
<1>3. IsFiniteSet(InHands(h)) /\ Cardinality(InHands(h)) = Cardinality(B)
  BY <1>1, <1>2, CountedAlong
<1> QED
  BY <1>3 DEF B

\* As many readings travel as hands are busy and places in queues taken.
LEMMA TravelCount ==
  ASSUME NEW h, NEW q, NEW m \in Nat, Flow(h, q, m)
  PROVE  /\ IsFiniteSet(Travels(h, q))
         /\ Cardinality(Travels(h, q)) =
              Cardinality({t \in Hands : h[t] # Nobody}) + Len(q["raw"])
                + Len(q["context"]) + Len(q["out"]) + Len(q["cache"])
<1> DEFINE A == InHands(h)
           R == InQueue(q, "raw")
           C == InQueue(q, "context")
           O == InQueue(q, "out")
           W == InQueue(q, "cache")
<1>1. Travels(h, q) = A \cup (R \cup (C \cup (O \cup W)))
  BY DEF Travels, Queues
<1>2. \A k, l \in Queues : k # l => InQueue(q, k) \cap InQueue(q, l) = {}
  BY DEF Flow, InOneQueue, InQueue
<1>3. \A k \in Queues : InHands(h) \cap InQueue(q, k) = {}
  BY DEF Flow, HandOrQueue, InHands, InQueue
<1>4. /\ O \cap W = {} /\ C \cap (O \cup W) = {}
      /\ R \cap (C \cup (O \cup W)) = {}
      /\ A \cap (R \cup (C \cup (O \cup W))) = {}
  BY <1>2, <1>3 DEF Queues
<1>5. /\ IsFiniteSet(A) /\ IsFiniteSet(R) /\ IsFiniteSet(C)
      /\ IsFiniteSet(O) /\ IsFiniteSet(W)
      /\ Cardinality(R) = Len(q["raw"]) /\ Cardinality(C) = Len(q["context"])
      /\ Cardinality(O) = Len(q["out"]) /\ Cardinality(W) = Len(q["cache"])
      /\ Cardinality(A) = Cardinality({t \in Hands : h[t] # Nobody})
  BY QueueCount, HandCount DEF Queues
<1> HIDE DEF A, R, C, O, W
<1> DEFINE OW   == O \cup W
           COW  == C \cup OW
           RCOW == R \cup COW
<1>7. IsFiniteSet(OW) /\ Cardinality(OW) = Len(q["out"]) + Len(q["cache"])
  <2>1. O \cap W = {} /\ IsFiniteSet(O) /\ IsFiniteSet(W)
    BY <1>4, <1>5
  <2>2. IsFiniteSet(OW) /\ Cardinality(OW) = Cardinality(O) + Cardinality(W)
    BY <2>1, CountedApart
  <2> QED
    BY <1>5, <2>2
<1>8. C \cap OW = {} /\ R \cap COW = {} /\ A \cap RCOW = {}
  BY <1>4
<1>9. Travels(h, q) = A \cup RCOW
  BY <1>1
<1> HIDE DEF OW
<1>10. /\ IsFiniteSet(COW)
       /\ Cardinality(COW) = Len(q["context"]) + Cardinality(OW)
  BY <1>5, <1>7, <1>8, CountedApart
<1> HIDE DEF COW
<1>11. /\ IsFiniteSet(RCOW)
       /\ Cardinality(RCOW) = Len(q["raw"]) + Cardinality(COW)
  BY <1>5, <1>8, <1>10, CountedApart
<1> HIDE DEF RCOW
<1>12. /\ IsFiniteSet(A \cup RCOW)
       /\ Cardinality(A \cup RCOW) = Cardinality(A) + Cardinality(RCOW)
       /\ Cardinality(A) \in Nat
  BY <1>5, <1>8, <1>11, CountedApart
<1> DEFINE r == Len(q["raw"])
           c == Len(q["context"])
           o == Len(q["out"])
           w == Len(q["cache"])
           a == Cardinality(A)
<1>13. r \in Nat /\ c \in Nat /\ o \in Nat /\ w \in Nat /\ a \in Nat
  BY <1>12, LenProperties DEF Flow, Queues
<1>14. /\ Cardinality(OW) = o + w
       /\ Cardinality(COW) = c + Cardinality(OW)
       /\ Cardinality(RCOW) = r + Cardinality(COW)
       /\ Cardinality(Travels(h, q)) = a + Cardinality(RCOW)
  BY <1>7, <1>9, <1>10, <1>11, <1>12
<1>15. a = Cardinality({t \in Hands : h[t] # Nobody})
  BY <1>5
<1> HIDE DEF r, c, o, w, a
<1>16. Cardinality(Travels(h, q)) = a + r + c + o + w
  BY <1>13, <1>14
<1> QED
  BY <1>9, <1>12, <1>15, <1>16 DEF r, c, o, w
-----------------------------------------------------------------------------
Travelling == Travels(hand, queue)
Lost       == (1..polled) \ (Travelling \cup cached \cup Sent \cup kept)
Counted    == loss + failed

\* A reading is in one column of the ledger, and who lost it counted it.
Ledger ==
  /\ cached \cup kept \cup Sent \subseteq 1..polled
  /\ Sent \cap (cached \cup kept \cup Travelling) = {}
  /\ cached \cap (kept \cup Travelling) = {} /\ kept \cap Travelling = {}
  /\ Cardinality(Lost) <= Counted

\* What publish_task decided is about an item that it holds.
Deciding == route # "none" => hand["publish"] # Nobody

FlowInv ==
  /\ polled \in Nat /\ loss \in Nat /\ failed \in Nat
  /\ Flow(hand, queue, polled)
  /\ Deciding

\* What was lost can be counted.
LEMMA LostFinite ==
  ASSUME polled \in Nat
  PROVE  IsFiniteSet(Lost) /\ Cardinality(Lost) \in Nat
<1>1. IsFiniteSet(1..polled)
  BY FS_Interval
<1>2. IsFiniteSet(Lost)
  BY <1>1, FS_Subset DEF Lost
<1> QED
  BY <1>2, FS_CardinalityType

\* Nothing leaves the pipeline, and no count falls.
LEMMA MovesKeepLedger ==
  ASSUME FlowInv, Ledger, Travelling' = Travelling,
         UNCHANGED <<polled, cached, published, clouded, kept>>,
         Counted' \in Nat, Counted' >= Counted
  PROVE  Ledger'
<1>1. Sent' = Sent /\ Lost' = Lost
  BY DEF Sent, Lost
<1>2. Cardinality(Lost) \in Nat /\ Counted \in Nat
  BY LostFinite DEF FlowInv, Counted
<1> QED
  BY <1>1, <1>2 DEF Ledger

\* One reading leaves it into one column.
LEMMA SettlingKeepsLedger ==
  ASSUME FlowInv, Ledger, NEW n \in Travelling,
         Travelling' = Travelling \ {n}, polled' = polled,
         \/ cached' = cached \cup {n} /\ Sent' = Sent /\ kept' = kept
         \/ cached' = cached /\ Sent' = Sent \cup {n} /\ kept' = kept
         \/ cached' = cached /\ Sent' = Sent /\ kept' = kept \cup {n},
         Counted' \in Nat, Counted' >= Counted
  PROVE  Ledger'
<1>1. n \in 1..polled
  BY TravelsUpTo DEF FlowInv, Travelling
<1>2. Lost' = Lost
  BY DEF Lost
<1>3. Cardinality(Lost) \in Nat /\ Counted \in Nat
  BY LostFinite DEF FlowInv, Counted
<1> QED
  BY <1>1, <1>2, <1>3 DEF Ledger

\* One is given up, and counted.
LEMMA LosingKeepsLedger ==
  ASSUME FlowInv, Ledger, NEW n \in Travelling,
         Travelling' = Travelling \ {n}, polled' = polled,
         UNCHANGED <<cached, published, clouded, kept>>,
         Counted' = Counted + 1
  PROVE  Ledger'
<1>1. Sent' = Sent
  BY DEF Sent
<1>2. n \in 1..polled
  BY TravelsUpTo DEF FlowInv, Travelling
<1>3. Lost' = Lost \cup {n}
  BY <1>1, <1>2 DEF Lost, Ledger
<1>4. /\ Cardinality(Lost) \in Nat /\ Counted \in Nat
      /\ Cardinality(Lost') <= Cardinality(Lost) + 1
      /\ Cardinality(Lost') \in Nat
  <2>1. IsFiniteSet(Lost) /\ Cardinality(Lost) \in Nat
    BY LostFinite DEF FlowInv
  <2>2. Cardinality(Lost \cup {n}) =
          IF n \in Lost THEN Cardinality(Lost) ELSE Cardinality(Lost) + 1
    BY <2>1, FS_AddElement
  <2> QED
    BY <1>3, <2>1, <2>2 DEF FlowInv, Counted
<1> QED
  BY <1>1, <1>4 DEF Ledger

\* A new one is polled.
LEMMA PollingKeepsLedger ==
  ASSUME FlowInv, Ledger, polled' = polled + 1,
         Travelling' = Travelling \cup {polled + 1},
         UNCHANGED <<cached, published, clouded, kept, loss, failed>>
  PROVE  Ledger'
<1>1. Sent' = Sent /\ Counted' = Counted
  BY DEF Sent, Counted
<1>2. Travelling \subseteq 1..polled
  BY TravelsUpTo DEF FlowInv, Travelling
<1>3. 1..(polled + 1) = (1..polled) \cup {polled + 1}
  BY DEF FlowInv
<1>4. polled + 1 \notin 1..polled
  BY DEF FlowInv
<1>5. Lost' = Lost
  BY <1>1, <1>2, <1>3, <1>4 DEF Lost
<1> QED
  BY <1>1, <1>2, <1>3, <1>4, <1>5 DEF Ledger

\* The operations of the tasks on hands and queues.
Recorded == <<polled, cached, published, clouded, kept>>

\* Handing an item on keeps the ledger.
LEMMA PassKeeps ==
  ASSUME FlowInv, Ledger, NEW t \in Hands, NEW k \in Queues, Busy(t),
         Pass(t, k), UNCHANGED Recorded,
         Counted' \in Nat, Counted' >= Counted
  PROVE  Flow(hand, queue, polled)' /\ Ledger'
<1>1. Flow(hand', queue', polled) /\ Travelling' = Travelling
  <2>1. /\ polled \in Nat /\ Flow(hand, queue, polled) /\ hand[t] # Nobody
        /\ hand' = Put(hand, t, Nobody)
        /\ queue' = Appended(queue, k, hand[t])
    BY DEF FlowInv, Pass, Busy, Put, Appended
  <2>2. LET h1 == Put(hand, t, Nobody)
            q1 == Appended(queue, k, hand[t])
        IN Flow(h1, q1, polled) /\ Travels(h1, q1) = Travels(hand, queue)
    BY <2>1, PassFlow
  <2> QED
    BY <2>1, <2>2, Zenon DEF Travelling
<1> QED
  BY <1>1, MovesKeepLedger DEF Recorded

\* Taking the head of a queue keeps it too.
LEMMA TakeKeeps ==
  ASSUME FlowInv, Ledger, NEW t \in Hands, NEW k \in Queues, Take(k, t),
         UNCHANGED <<Recorded, loss, failed>>
  PROVE  Flow(hand, queue, polled)' /\ Ledger'
<1>1. Flow(hand', queue', polled) /\ Travelling' = Travelling
  <2>1. /\ polled \in Nat /\ Flow(hand, queue, polled)
        /\ hand[t] = Nobody /\ queue[k] # <<>>
        /\ hand' = Put(hand, t, Head(queue[k]))
        /\ queue' = Shortened(queue, k)
    BY DEF FlowInv, Take, Busy, Put, Shortened
  <2>2. LET h1 == Put(hand, t, Head(queue[k]))
            q1 == Shortened(queue, k)
        IN Flow(h1, q1, polled) /\ Travels(h1, q1) = Travels(hand, queue)
    BY <2>1, TakeFlow
  <2> QED
    BY <2>1, <2>2, Zenon DEF Travelling
<1>2. Counted' \in Nat /\ Counted' >= Counted
  BY DEF Counted, FlowInv
<1> QED
  BY <1>1, <1>2, MovesKeepLedger DEF Recorded

\* An item that leaves its hand travels no more, and nothing else changes.
LEMMA DropMoves ==
  ASSUME FlowInv, NEW t \in Hands, Busy(t),
         hand' = [hand EXCEPT ![t] = Nobody], UNCHANGED <<queue, polled>>
  PROVE  /\ Flow(hand, queue, polled)' /\ hand[t].n \in Travelling
         /\ Travelling' = Travelling \ {hand[t].n}
BY DropFlow DEF FlowInv, Busy, Travelling, Put

\* Giving an item up keeps the ledger, for it is counted.
LEMMA GiveUpKeeps ==
  ASSUME FlowInv, Ledger, NEW t \in Hands, Busy(t),
         hand' = [hand EXCEPT ![t] = Nobody], UNCHANGED <<queue, Recorded>>,
         \/ loss' = loss + 1 /\ failed' = failed
         \/ loss' = loss /\ failed' = failed + 1
  PROVE  Flow(hand, queue, polled)' /\ Ledger'
<1>1. Counted' = Counted + 1
  BY DEF Counted, FlowInv
<1> QED
  BY <1>1, DropMoves, LosingKeepsLedger DEF Recorded

\* An item that is sent, cached or stopped by design gets its column.
LEMMA SettleKeeps ==
  ASSUME FlowInv, Ledger, NEW t \in Hands, Busy(t),
         hand' = [hand EXCEPT ![t] = Nobody], UNCHANGED <<queue, polled>>,
         \/ /\ cached' = cached \cup {hand[t].n}
            /\ UNCHANGED <<published, clouded, kept>>
         \/ /\ published' = published \cup {hand[t].n}
            /\ UNCHANGED <<cached, clouded, kept>>
         \/ /\ clouded' = clouded \cup {hand[t].n}
            /\ UNCHANGED <<cached, published, kept>>
         \/ /\ kept' = kept \cup {hand[t].n}
            /\ UNCHANGED <<cached, published, clouded>>,
         Counted' \in Nat, Counted' >= Counted
  PROVE  Flow(hand, queue, polled)' /\ Ledger'
<1> DEFINE n == hand[t].n
<1>1. \/ cached' = cached \cup {n} /\ Sent' = Sent /\ kept' = kept
      \/ cached' = cached /\ Sent' = Sent \cup {n} /\ kept' = kept
      \/ cached' = cached /\ Sent' = Sent /\ kept' = kept \cup {n}
  BY DEF Sent
<1> QED
  BY <1>1, DropMoves, SettlingKeepsLedger

FlowKept == Flow(hand, queue, polled)' /\ Ledger'

\* The tasks one after another.
LEMMA PollKeeps ==
  ASSUME FlowInv, Ledger,
         PollStep \/ \E p \in Points, good \in BOOLEAN : Poll(p, good)
  PROVE  FlowKept
<1>1. ASSUME NEW p \in Points, NEW good \in BOOLEAN, Poll(p, good)
      PROVE  FlowKept
  <2> DEFINE r == [n |-> polled + 1, p |-> p, good |-> good]
  <2>1. /\ hand["poll"] = Nobody /\ hand' = Put(hand, "poll", r)
        /\ polled' = polled + 1
        /\ UNCHANGED <<queue, cached, published, clouded, kept, loss, failed>>
    BY <1>1 DEF Poll, Busy, Put
  <2>2. r \in Items /\ r.n = polled + 1
    BY DEF FlowInv, Items
  <2>3. /\ Flow(hand', queue, polled + 1)
        /\ Travels(hand', queue) = Travels(hand, queue) \cup {polled + 1}
    <3>1. "poll" \in Hands /\ polled \in Nat /\ Flow(hand, queue, polled)
      BY DEF FlowInv, Hands
    <3> QED
      <4>1. LET h1 == Put(hand, "poll", r)
            IN /\ Flow(h1, queue, polled + 1)
               /\ Travels(h1, queue) = Travels(hand, queue) \cup {polled + 1}
        BY <2>1, <2>2, <3>1, NewFlow
      <4> QED
        BY <2>1, <4>1, Zenon
  <2> QED
    BY <2>1, <2>3, PollingKeepsLedger DEF FlowKept, Travelling
<1>2. CASE PollEnqueue
  <2>1. \/ GiveUp("poll") /\ UNCHANGED <<queue, failed, Recorded>>
        \/ Pass("poll", "raw") /\ UNCHANGED <<loss, failed, Recorded>>
    BY <1>2 DEF PollEnqueue, Recorded
  <2>2. Busy("poll") /\ "poll" \in Hands /\ "raw" \in Queues
    BY <1>2 DEF PollEnqueue, Hands, Queues
  <2>3. UNCHANGED <<loss, failed>> => Counted' \in Nat /\ Counted' >= Counted
    BY DEF Counted, FlowInv
  <2> QED
    BY <2>1, <2>2, <2>3, PassKeeps, GiveUpKeeps DEF GiveUp, FlowKept
<1> QED
  BY <1>1, <1>2 DEF PollStep

\* context_build_task rejects a reading or builds its context.
LEMMA BuildKeeps ==
  ASSUME FlowInv, Ledger, BuildStep PROVE FlowKept
<1>1. "build" \in Hands /\ "raw" \in Queues /\ "context" \in Queues
  BY DEF Hands, Queues
<1>2. UNCHANGED <<loss, failed>> => Counted' \in Nat /\ Counted' >= Counted
  BY DEF Counted, FlowInv
<1>3. CASE BuildContext
  BY <1>1, <1>3, TakeKeeps DEF BuildContext, Recorded, FlowKept
<1>4. CASE BuildEnqueue
  <2>1. \/ GiveUp("build") /\ UNCHANGED <<queue, failed, Recorded>>
        \/ Pass("build", "context") /\ UNCHANGED <<loss, failed, Recorded>>
    BY <1>4 DEF BuildEnqueue, Recorded
  <2>2. Busy("build")
    BY <1>4 DEF BuildEnqueue
  <2> QED
    BY <1>1, <1>2, <2>1, <2>2, PassKeeps, GiveUpKeeps DEF GiveUp, FlowKept
<1>5. CASE BuildReject
  <2> DEFINE n  == Head(queue["raw"]).n
             h1 == Put(hand, "build", Head(queue["raw"]))
  <2>1. /\ hand["build"] = Nobody /\ queue["raw"] # <<>>
        /\ queue' = Shortened(queue, "raw")
        /\ kept' = kept \cup {n}
        /\ UNCHANGED <<hand, polled, cached, published, clouded, loss, failed>>
    BY <1>5 DEF BuildReject, Busy, Shortened
  <2>2. Flow(h1, queue', polled) /\ Travels(h1, queue') = Travelling
    <3>1. polled \in Nat /\ Flow(hand, queue, polled)
      BY DEF FlowInv
    <3> QED
      <4>1. LET q1 == Shortened(queue, "raw")
            IN Flow(h1, q1, polled) /\ Travels(h1, q1) = Travels(hand, queue)
        BY <1>1, <2>1, <3>1, TakeFlow
      <4> QED
        BY <2>1, <4>1, Zenon DEF Travelling
  <2>3. h1["build"] = Head(queue["raw"]) /\ h1["build"] # Nobody
    <3>1. Head(queue["raw"]) = queue["raw"][1] /\ 1 \in 1..Len(queue["raw"])
      BY <1>1, <2>1, OldestTaken DEF FlowInv, Flow
    <3> QED
      BY <1>1, <3>1, NobodyItem DEF FlowInv, Flow, Put
  <2>4. hand = Put(h1, "build", Nobody)
    BY <1>1, <2>1 DEF FlowInv, Flow, Put
  <2> HIDE DEF h1
  <2>5. /\ Flow(hand, queue', polled) /\ h1["build"].n \in Travels(h1, queue')
        /\ Travels(hand, queue') = Travels(h1, queue') \ {h1["build"].n}
    <3>1. polled \in Nat
      BY DEF FlowInv
    <3> QED
      BY <1>1, <2>2, <2>3, <2>4, <3>1, DropFlow
  <2>6. /\ n \in Travelling /\ Travelling' = Travelling \ {n}
        /\ Flow(hand, queue, polled)'
    BY <2>1, <2>2, <2>3, <2>5 DEF Travelling
  <2>7. Sent' = Sent
    BY <2>1 DEF Sent
  <2> QED
    BY <1>2, <2>1, <2>6, <2>7, SettlingKeepsLedger DEF FlowKept
<1> QED
  BY <1>3, <1>4, <1>5 DEF BuildStep

\* The counters of losses and failed publishes never fall.
LEMMA CountsStay ==
  ASSUME FlowInv
  PROVE  /\ UNCHANGED <<loss, failed>> =>
              Counted' \in Nat /\ Counted' >= Counted
         /\ loss' = loss /\ failed' = failed + 1 =>
              Counted' \in Nat /\ Counted' >= Counted
BY DEF Counted, FlowInv

\* publish_task, whatever it reads of the configuration and the link.
LEMMA PublishKeeps ==
  ASSUME FlowInv, Ledger, PublishTaskStep PROVE FlowKept
<1>1. /\ "publish" \in Hands /\ "context" \in Queues /\ "out" \in Queues
      /\ "cache" \in Queues
  BY DEF Hands, Queues
<1>2. CASE PublishTake
  BY <1>1, <1>2, TakeKeeps DEF PublishTake, Recorded, FlowKept
<1>3. route # "none" => Busy("publish")
  BY DEF FlowInv, Deciding, Busy
<1>4. CASE PublishLocal
  BY <1>1, <1>3, <1>4, CountsStay, SettleKeeps DEF PublishLocal, FlowKept
<1>5. ASSUME UNCHANGED <<hand, queue, loss, failed, Recorded>>
      PROVE  FlowKept
  <2>1. Travelling' = Travelling
    BY <1>5 DEF Travelling
  <2>2. Ledger'
    BY <1>5, <2>1, CountsStay, MovesKeepLedger DEF Recorded
  <2> QED
    BY <1>5, <2>2 DEF FlowInv, FlowKept, Recorded
<1>6. CASE PublishRoute
  BY <1>5, <1>6 DEF PublishRoute, Recorded
<1>7. ASSUME NEW q \in Queues, Busy("publish"),
             Pass("publish", q) /\ loss' = loss, UNCHANGED Recorded,
             failed' \in {failed, failed + 1}
      PROVE  FlowKept
  BY <1>1, <1>7, CountsStay, PassKeeps DEF FlowKept
<1>8. ASSUME Busy("publish"), GiveUp("publish"),
             UNCHANGED <<queue, failed, Recorded>>
      PROVE  FlowKept
  BY <1>1, <1>8, GiveUpKeeps DEF GiveUp, FlowKept
<1>9. CASE PublishCache
  BY <1>1, <1>3, <1>7, <1>8, <1>9 DEF PublishCache, Recorded
<1>10. CASE PublishCloud
  BY <1>1, <1>3, <1>10, CountsStay, SettleKeeps DEF PublishCloud, FlowKept
<1>11. CASE PublishCloudRefused
  BY <1>1, <1>3, <1>7, <1>8, <1>11 DEF PublishCloudRefused, Recorded
<1>12. CASE PublishMqtt
  BY <1>1, <1>3, <1>5, <1>7, <1>12 DEF PublishMqtt, Recorded
<1>13. CASE PublishUnserialised
  BY <1>1, <1>3, <1>13, GiveUpKeeps
  DEF PublishUnserialised, Recorded, FlowKept
<1> QED
  BY <1>2, <1>4, <1>6, <1>9, <1>10, <1>11, <1>12, <1>13 DEF PublishTaskStep

\* cache_writer_task and mqtt_publish_task.
LEMMA StoreKeeps ==
  ASSUME FlowInv, Ledger, CacheStep \/ OutStep PROVE FlowKept
<1>1. /\ "cache" \in Hands /\ "cache" \in Queues /\ "out" \in Hands
      /\ "out" \in Queues
  BY DEF Hands, Queues
<1>2. CASE CacheTake
  BY <1>1, <1>2, TakeKeeps DEF CacheTake, Recorded, FlowKept
<1>3. CASE CacheWrite
  <2>1. CASE /\ cached' = cached \cup {hand["cache"].n}
             /\ hand' = [hand EXCEPT !["cache"] = Nobody]
             /\ UNCHANGED loss
    BY <1>1, <1>3, <2>1, CountsStay, SettleKeeps DEF CacheWrite, FlowKept
  <2>2. CASE GiveUp("cache") /\ UNCHANGED cached
    BY <1>1, <1>3, <2>2, GiveUpKeeps
    DEF CacheWrite, GiveUp, Recorded, FlowKept
  <2> QED
    BY <1>3, <2>1, <2>2 DEF CacheWrite
<1>4. CASE OutTake
  BY <1>1, <1>4, TakeKeeps DEF OutTake, Recorded, FlowKept
<1>5. CASE OutPublish
  BY <1>1, <1>5, CountsStay, SettleKeeps DEF OutPublish, FlowKept
<1>6. CASE OutStore
  <2>1. CASE cached' = cached \cup {hand["out"].n}
    BY <1>1, <1>6, <2>1, CountsStay, SettleKeeps DEF OutStore, FlowKept
  <2>2. CASE UNCHANGED cached
    BY <1>1, <1>6, <2>2, GiveUpKeeps DEF OutStore, Recorded, FlowKept
  <2> QED
    BY <1>6, <2>1, <2>2 DEF OutStore
<1> QED
  BY <1>2, <1>3, <1>4, <1>5, <1>6 DEF CacheStep, OutStep

\* Changes of the link and of the configuration move no reading.
LEMMA IdleKeeps ==
  ASSUME FlowInv, Ledger,
         PoolClear \/ LinkChanges \/ Reconfigured \/ UNCHANGED pipelineVars
  PROVE  FlowKept
<1>1. UNCHANGED <<hand, queue, loss, failed, polled, cached, published,
                  clouded, kept>>
  BY DEF PoolClear, LinkChanges, Reconfigured, pipelineVars
<1>2. Travelling' = Travelling
  BY <1>1 DEF Travelling
<1>3. Ledger'
  BY <1>1, <1>2, CountsStay, MovesKeepLedger
<1> QED
  BY <1>1, <1>3 DEF FlowInv, FlowKept

\* publish_task decides about the item in its hand only.
LEMMA DecidingKept ==
  ASSUME FlowInv, [PipelineNext]_pipelineVars
  PROVE  Deciding'
<1>1. hand \in [Hands -> Items] /\ "publish" \in Hands
  BY DEF FlowInv, Flow, Hands
<1>2. ASSUME route' = route, hand'["publish"] = hand["publish"]
      PROVE  Deciding'
  BY <1>2 DEF FlowInv, Deciding
<1>3. CASE PublishTake
  <2>1. "context" \in Queues /\ queue["context"] # <<>>
    BY <1>3 DEF PublishTake, Take, Queues
  <2>2. Head(queue["context"]) # Nobody
    <3>1. /\ Head(queue["context"]) = queue["context"][1]
          /\ 1 \in 1..Len(queue["context"])
      BY <2>1, OldestTaken DEF FlowInv, Flow
    <3> QED
      BY <2>1, <3>1, NobodyItem DEF FlowInv, Flow
  <2>3. hand'["publish"] = Head(queue["context"])
    BY <1>1, <1>3 DEF PublishTake, Take
  <2> QED
    BY <2>2, <2>3 DEF Deciding
<1>4. CASE PublishTaskStep /\ ~PublishTake
  <2>1. \/ route' = "none"
        \/ UNCHANGED hand /\ route # "none"
    BY <1>4
    DEF PublishTaskStep, PublishLocal, PublishRoute, PublishCache,
        PublishCloud, PublishCloudRefused, PublishMqtt, PublishUnserialised
  <2> QED
    BY <2>1 DEF FlowInv, Deciding
<1>5. CASE PollStep \/ \E p \in Points, good \in BOOLEAN : Poll(p, good)
  BY <1>1, <1>2, <1>5 DEF PollStep, PollEnqueue, Poll, Pass, GiveUp
<1>6. CASE BuildStep
  BY <1>1, <1>2, <1>6
  DEF BuildStep, BuildReject, BuildContext, BuildEnqueue, Take, Pass, GiveUp
<1>7. CASE CacheStep \/ OutStep
  BY <1>1, <1>2, <1>7
  DEF CacheStep, OutStep, CacheTake, CacheWrite, OutTake, OutPublish, OutStore,
      Take, GiveUp
<1>8. CASE PoolClear \/ LinkChanges \/ Reconfigured \/ UNCHANGED pipelineVars
  BY <1>2, <1>8 DEF PoolClear, LinkChanges, Reconfigured, pipelineVars
<1> QED
  BY <1>3, <1>4, <1>5, <1>6, <1>7, <1>8 DEF PipelineNext

\* The counters count.
LEMMA CountersKept ==
  ASSUME FlowInv, [PipelineNext]_pipelineVars
  PROVE  polled' \in Nat /\ loss' \in Nat /\ failed' \in Nat
<1> DEFINE Grown == /\ polled' \in {polled, polled + 1}
                    /\ loss' \in {loss, loss + 1}
                    /\ failed' \in {failed, failed + 1}
<1>1. ASSUME PollStep \/ \E p \in Points, good \in BOOLEAN : Poll(p, good)
      PROVE  Grown
  BY <1>1 DEF PollStep, PollEnqueue, Poll, GiveUp
<1>2. ASSUME BuildStep
      PROVE  Grown
  BY <1>2
  DEF BuildStep, BuildReject, BuildContext, BuildEnqueue, GiveUp
<1>3. ASSUME PublishTaskStep
      PROVE  Grown
  BY <1>3
  DEF PublishTaskStep, PublishTake, PublishLocal, PublishRoute, PublishCache,
      PublishCloud, PublishCloudRefused, PublishMqtt, PublishUnserialised,
      GiveUp
<1>4. ASSUME CacheStep \/ OutStep
      PROVE  Grown
  BY <1>4
  DEF CacheStep, OutStep, CacheTake, CacheWrite, OutTake, OutPublish, OutStore,
      GiveUp
<1>5. ASSUME PoolClear \/ LinkChanges \/ Reconfigured \/ UNCHANGED pipelineVars
      PROVE  Grown
  BY <1>5 DEF PoolClear, LinkChanges, Reconfigured, pipelineVars
<1>6. Grown
  BY <1>1, <1>2, <1>3, <1>4, <1>5 DEF PipelineNext
<1> QED
  BY <1>6 DEF FlowInv

\* The start, and every step.
LEMMA FlowInvInit == PipelineInit => FlowInv /\ Ledger
<1> SUFFICES ASSUME PipelineInit PROVE FlowInv /\ Ledger
  OBVIOUS
<1> USE DEF PipelineInit
<1>1. queue \in [Queues -> Seq(Items)] /\ \A k \in Queues : Len(queue[k]) = 0
  <2>1. <<>> \in Seq(Items) /\ Len(<<>>) = 0
    BY EmptySeq
  <2> QED
    BY <2>1
<1>2. hand \in [Hands -> Items] /\ \A t \in Hands : hand[t] = Nobody
  BY NobodyItem
<1>3. Flow(hand, queue, polled)
  BY <1>1, <1>2 DEF Flow, InOneHand, InOneQueue, HandOrQueue
<1>4. Deciding /\ polled = 0 /\ loss = 0 /\ failed = 0
  BY DEF Deciding
<1>5. Travelling = {}
  BY <1>1, <1>2 DEF Travelling, Travels, InHands, InQueue
<1>6. Sent = {} /\ Lost = {} /\ Cardinality(Lost) = 0
  BY <1>4, FS_EmptySet DEF Sent, Lost
<1> QED
  BY <1>3, <1>4, <1>5, <1>6 DEF FlowInv, Ledger, Counted

\* Every step of every task keeps the invariant and the ledger.
LEMMA FlowInvNext ==
  FlowInv /\ Ledger /\ [PipelineNext]_pipelineVars => FlowInv' /\ Ledger'
<1> SUFFICES ASSUME FlowInv, Ledger, [PipelineNext]_pipelineVars
             PROVE  FlowInv' /\ Ledger'
  OBVIOUS
<1>1. FlowKept
  BY PollKeeps, BuildKeeps, PublishKeeps, StoreKeeps, IdleKeeps
  DEF PipelineNext
<1> QED
  BY <1>1, DecidingKept, CountersKept DEF FlowInv, FlowKept

\* So they hold throughout.
LEMMA FlowInvAlways == PipelineSteps => [](FlowInv /\ Ledger)
<1>1. PipelineSteps => PipelineInit /\ [][PipelineNext]_pipelineVars
  BY PTL DEF PipelineSteps
<1> QED
  BY <1>1, FlowInvInit, FlowInvNext, PTL

\* The ledger in the words of the model: hands that are busy, items under way.
LEMMA LedgerAccounts == FlowInv /\ Ledger => LossAccounted
<1> SUFFICES ASSUME FlowInv, Ledger PROVE LossAccounted
  OBVIOUS
<1>1. Flow(hand, queue, polled) /\ polled \in Nat
  BY DEF FlowInv
<1>2. Travelling \subseteq 1..polled
  BY <1>1, TravelsUpTo DEF Travelling
<1>3. \A t \in Hands : hand[t].n = 0 \/ hand[t].n \in Travelling
  BY <1>1, NobodyItem DEF Flow, Travelling, Travels, InHands
<1>4. Underway \ {0} \subseteq Travelling
  BY <1>3 DEF Underway, Travelling, Travels, InQueue
<1>5. Travelling \subseteq Underway
  BY DEF Underway, Travelling, Travels, InHands, InQueue
<1>6. Underway \ {0} = Travelling
  <2>1. 0 \notin Travelling
    BY <1>1, <1>2
  <2> QED
    BY <1>4, <1>5, <2>1
<1>7. 0 \notin cached \cup kept \cup Sent
  BY <1>1 DEF Ledger
<1>8. /\ Sent \cap (cached \cup kept \cup Underway) = {}
      /\ cached \cap (Underway \cup kept) = {}
  BY <1>6, <1>7 DEF Ledger
<1>9. Vanished = Lost
  BY <1>1, <1>6 DEF Vanished, Lost
<1>10. Cardinality(Travelling) =
         Cardinality({t \in Hands : Busy(t)}) + Len(queue["raw"])
           + Len(queue["context"]) + Len(queue["out"]) + Len(queue["cache"])
  BY <1>1, TravelCount DEF Travelling, Busy
<1> QED
  BY <1>6, <1>8, <1>9, <1>10 DEF LossAccounted, HeldOnce, Ledger, Counted

\* No reading is in two places, none is sent twice, and one that is nowhere
\* any more was counted as lost or as a failed publish (data_loss_count and
\* mqtt_failed of main/scheduler/scheduler.c), for every length of the four
\* queues, every set of points and any number of polls and upsets.
THEOREM ReadingsAccounted == PipelineSteps => []LossAccounted
BY FlowInvAlways, LedgerAccounts, PTL
-----------------------------------------------------------------------------
(***************************************************************************)
(* The state pool only moves forward.  A failed poll overtakes the queue,  *)
(* but enters the pool as a failure; a good reading enters it as it leaves *)
(* the raw queue, which is in the order of polling.  So every good entry   *)
(* is older than what the raw queue and modbus_poll still hold.            *)
(***************************************************************************)
Raw == queue["raw"]

InOrder(s)   == \A i, j \in 1..Len(s) : i < j => s[i].n < s[j].n
Before(r, s) == \A i \in 1..Len(s) : r.n < s[i].n

PoolInv ==
  /\ pool \in [Points -> Items]
  /\ hand["poll"] # Nobody => hand["poll"].n = polled
  /\ InOrder(Raw)
  /\ \A p \in Points : pool[p].good =>
       /\ pool[p].n <= polled
       /\ hand["poll"] # Nobody => pool[p].n < polled
       /\ Before(pool[p], Raw)

\* The pool and the queues are empty.
LEMMA PoolInvInit == PipelineInit => PoolInv
<1> SUFFICES ASSUME PipelineInit PROVE PoolInv
  OBVIOUS
<1>1. Raw = <<>> /\ hand["poll"] = Nobody
  BY DEF PipelineInit, Raw, Hands, Queues
<1>2. Len(Raw) = 0
  BY <1>1
<1>3. pool \in [Points -> Items] /\ \A p \in Points : ~pool[p].good
  BY NobodyItem DEF PipelineInit, Nobody
<1> QED
  BY <1>1, <1>2, <1>3 DEF PoolInv, InOrder, Before

\* What the pool's update leaves of the good entries.
LEMMA UpdatedPool ==
  ASSUME NEW r \in Items, PoolUpdate(r), pool \in [Points -> Items]
  PROVE  /\ pool' \in [Points -> Items]
         /\ \A p \in Points : pool'[p].good =>
              pool'[p] = pool[p] \/ (p = r.p /\ pool'[p] = r)
<1>1. \A p \in Points : pool'[p] \in {r, Nobody, pool[p]}
                        /\ (pool'[p] = r => p = r.p \/ r \in {Nobody, pool[p]})
  BY DEF PoolUpdate
<1>2. DOMAIN pool' = Points /\ pool' = [p \in Points |-> pool'[p]]
  BY DEF PoolUpdate
<1>3. pool' \in [Points -> Items]
  BY <1>1, <1>2, NobodyItem
<1>4. ~Nobody.good
  BY DEF Nobody
<1> QED
  BY <1>1, <1>3, <1>4

\* The oldest item leaves the raw queue; a new one joins it.
LEMMA RawShortened ==
  ASSUME FlowInv, PoolInv, Raw # <<>>, Raw' = Tail(Raw)
  PROVE  /\ Head(Raw) \in Items /\ InOrder(Raw')
         /\ Before(Head(Raw), Raw') /\ Head(Raw).n \in 1..polled
         /\ hand["poll"] # Nobody => Head(Raw).n < polled
         /\ \A p \in Points : pool[p].good =>
              pool[p].n < Head(Raw).n /\ Before(pool[p], Raw')
<1>1. /\ Len(Raw) \in Nat \ {0} /\ Len(Raw') = Len(Raw) - 1
      /\ Head(Raw) = Raw[1] /\ Raw[1] \in Items
      /\ \A i \in 1..(Len(Raw) - 1) : Raw'[i] = Raw[i + 1]
  BY OldestTaken DEF FlowInv, Flow, Raw, Queues
<1>2. \A i \in 1..Len(Raw) : Raw[i].n \in 1..polled
  BY DEF FlowInv, Flow, Raw, Queues
<1>3. hand["poll"] # Nobody => \A i \in 1..Len(Raw) : Raw[i].n # polled
  BY DEF FlowInv, Flow, HandOrQueue, PoolInv, Raw, Hands, Queues
<1> DEFINE s == Raw
           t == Raw'
<1>4. InOrder(s) /\ \A p \in Points : pool[p].good => Before(pool[p], s)
  BY DEF PoolInv
<1> HIDE DEF s, t
<1>5. /\ Len(s) \in Nat \ {0} /\ Len(t) = Len(s) - 1
      /\ \A i \in 1..Len(t) : t[i] = s[i + 1] /\ i + 1 \in 2..Len(s)
      /\ 1 \in 1..Len(s)
  BY <1>1 DEF s, t
<1>6. InOrder(t) /\ Before(s[1], t)
  <2>1. \A i, j \in 1..Len(s) : i < j => s[i].n < s[j].n
    BY <1>4 DEF InOrder
  <2>2. ASSUME NEW i \in 1..Len(t), NEW j \in 1..Len(t), i < j
        PROVE  t[i].n < t[j].n
    <3>1. /\ t[i] = s[i + 1] /\ t[j] = s[j + 1]
          /\ i + 1 \in 1..Len(s) /\ j + 1 \in 1..Len(s) /\ i + 1 < j + 1
      BY <1>5, <2>2
    <3> QED
      BY <2>1, <3>1
  <2>3. ASSUME NEW i \in 1..Len(t)
        PROVE  s[1].n < t[i].n
    <3>1. /\ t[i] = s[i + 1] /\ i + 1 \in 1..Len(s) /\ 1 < i + 1
          /\ 1 \in 1..Len(s)
      BY <1>5
    <3> QED
      BY <2>1, <3>1
  <2> QED
    BY <2>2, <2>3 DEF InOrder, Before
<1>7. \A p \in Points : pool[p].good =>
        pool[p].n < s[1].n /\ Before(pool[p], t)
  BY <1>4, <1>5 DEF Before
<1>8. s[1].n \in 1..polled
      /\ (hand["poll"] # Nobody => s[1].n < polled)
  BY <1>2, <1>3, <1>5 DEF s, FlowInv
<1> QED
  BY <1>1, <1>6, <1>7, <1>8 DEF s, t

\* modbus_poll appends what is younger than everything polled before.
LEMMA RawAppended ==
  ASSUME FlowInv, PoolInv, hand["poll"] # Nobody,
         Raw' = Append(Raw, hand["poll"])
  PROVE  /\ InOrder(Raw')
         /\ \A p \in Points : pool[p].good => Before(pool[p], Raw')
<1>1. hand["poll"] \in Items /\ hand["poll"].n = polled
  BY DEF FlowInv, Flow, PoolInv, Hands
<1>2. /\ Len(Raw) \in Nat /\ Len(Raw') = Len(Raw) + 1
      /\ \A i \in 1..Len(Raw) : Raw'[i] = Raw[i]
      /\ Raw'[Len(Raw) + 1] = hand["poll"]
  BY <1>1, AppendProperties, LenProperties DEF FlowInv, Flow, Raw, Queues
<1>3. \A i \in 1..Len(Raw) : Raw[i].n < polled /\ Raw[i].n \in Nat
  BY <1>1 DEF FlowInv, Flow, HandOrQueue, Raw, Hands, Queues
<1> DEFINE s == Raw
           t == Raw'
<1>4. /\ InOrder(s)
      /\ \A p \in Points : pool[p].good =>
           Before(pool[p], s) /\ pool[p].n < polled
  BY DEF PoolInv
<1> HIDE DEF s, t
<1>5. /\ Len(s) \in Nat /\ Len(t) = Len(s) + 1
      /\ \A i \in 1..Len(t) :
           \/ i \in 1..Len(s) /\ t[i] = s[i] /\ s[i].n < polled
           \/ i = Len(s) + 1 /\ t[i].n = polled
  BY <1>1, <1>2, <1>3 DEF s, t
<1> QED
  BY <1>4, <1>5 DEF InOrder, Before, s, t

\* Nothing the invariant speaks of changes, or the pool is emptied.
LEMMA PoolUntouched ==
  ASSUME PoolInv, UNCHANGED <<polled, Raw>>, hand'["poll"] = hand["poll"],
         pool' = pool \/ PoolClear
  PROVE  PoolInv'
<1>1. CASE pool' = pool
  BY <1>1 DEF PoolInv
<1>2. CASE PoolClear
  <2>1. pool' \in [Points -> Items] /\ \A p \in Points : ~pool'[p].good
    BY <1>2, NobodyItem DEF PoolClear, Nobody
  <2> QED
    BY <2>1 DEF PoolInv
<1> QED
  BY <1>1, <1>2

\* Every step of every task keeps the pool behind the raw queue.
LEMMA PoolInvNext ==
  ASSUME FlowInv, PoolInv, [PipelineNext]_pipelineVars
  PROVE  PoolInv'
<1>1. /\ hand \in [Hands -> Items] /\ queue \in [Queues -> Seq(Items)]
      /\ polled \in Nat
  BY DEF FlowInv, Flow
<1>2. ASSUME NEW p \in Points, NEW good \in BOOLEAN, Poll(p, good)
      PROVE  PoolInv'
  <2> DEFINE r == [n |-> polled + 1, p |-> p, good |-> good]
  <2>1. /\ hand["poll"] = Nobody /\ hand'["poll"] = r /\ polled' = polled + 1
        /\ Raw' = Raw
        /\ IF good THEN pool' = pool ELSE PoolUpdate(r)
    BY <1>1, <1>2 DEF Poll, Busy, Raw, Hands
  <2>2. r \in Items /\ r.n = polled + 1 /\ r.good = good
    BY <1>1 DEF Items
  <2>3. /\ pool' \in [Points -> Items]
        /\ \A o \in Points : pool'[o].good => pool'[o] = pool[o]
    <3>1. CASE good
      BY <2>1, <3>1 DEF PoolInv
    <3>2. CASE ~good
      BY <2>1, <2>2, <3>2, UpdatedPool DEF PoolInv
    <3> QED
      BY <3>1, <3>2
  <2> HIDE DEF r
  <2>4. \A o \in Points : pool[o] \in Items /\ pool[o].n \in Nat
    BY DEF PoolInv, Items
  <2> QED
    BY <1>1, <2>1, <2>2, <2>3, <2>4 DEF PoolInv
<1>3. CASE PollEnqueue
  <2>1. /\ hand["poll"] # Nobody /\ hand'["poll"] = Nobody
        /\ UNCHANGED <<polled, pool>>
        /\ Raw' = Raw \/ Raw' = Append(Raw, hand["poll"])
    BY <1>1, <1>3
    DEF PollEnqueue, Busy, Pass, GiveUp, Raw, Hands, Queues
  <2>2. /\ InOrder(Raw')
        /\ \A p \in Points : pool[p].good => Before(pool[p], Raw')
    BY <2>1, RawAppended DEF PoolInv
  <2> QED
    BY <2>1, <2>2 DEF PoolInv
<1>4. CASE BuildReject
  <2>1. /\ Raw # <<>> /\ Raw' = Tail(Raw)
        /\ UNCHANGED <<polled, pool, hand>>
    BY <1>1, <1>4 DEF BuildReject, Raw, Queues
  <2> QED
    BY <2>1, RawShortened DEF PoolInv
<1>5. CASE BuildContext
  <2> DEFINE r == Head(Raw)
  <2>1. /\ Raw # <<>> /\ Raw' = Tail(Raw) /\ hand'["build"] = r
        /\ hand'["poll"] = hand["poll"] /\ polled' = polled
        /\ PoolUpdate(r)
    BY <1>1, <1>5 DEF BuildContext, Take, Raw, Queues, Hands
  <2>2. /\ r \in Items /\ InOrder(Raw') /\ Before(r, Raw') /\ r.n \in 1..polled
        /\ hand["poll"] # Nobody => r.n < polled
        /\ \A p \in Points : pool[p].good => Before(pool[p], Raw')
    BY <2>1, RawShortened
  <2>3. /\ pool' \in [Points -> Items]
        /\ \A p \in Points :
             pool'[p].good => pool'[p] = pool[p] \/ pool'[p] = r
    BY <2>1, <2>2, UpdatedPool DEF PoolInv
  <2> HIDE DEF r
  <2> QED
    BY <1>1, <2>1, <2>2, <2>3 DEF PoolInv
<1>6. CASE BuildEnqueue
  BY <1>1, <1>6, PoolUntouched
  DEF BuildEnqueue, Pass, GiveUp, Raw, Hands, Queues
<1>7. CASE PublishTaskStep
  <2>1. /\ hand'["poll"] = hand["poll"] /\ Raw' = Raw
        /\ UNCHANGED <<polled, pool>>
    BY <1>1, <1>7
    DEF PublishTaskStep, PublishTake, PublishLocal, PublishRoute, PublishCache,
        PublishCloud, PublishCloudRefused, PublishMqtt, PublishUnserialised,
        Take, Pass, GiveUp, Raw, Hands, Queues
  <2> QED
    BY <2>1, PoolUntouched
<1>8. CASE CacheStep \/ OutStep
  <2>1. /\ hand'["poll"] = hand["poll"] /\ Raw' = Raw
        /\ UNCHANGED <<polled, pool>>
    BY <1>1, <1>8
    DEF CacheStep, OutStep, CacheTake, CacheWrite, OutTake, OutPublish,
        OutStore, Take, Pass, GiveUp, Raw, Hands, Queues
  <2> QED
    BY <2>1, PoolUntouched
<1>9. CASE PoolClear \/ LinkChanges \/ Reconfigured \/ UNCHANGED pipelineVars
  BY <1>9, PoolUntouched
  DEF PoolClear, LinkChanges, Reconfigured, pipelineVars, Raw
<1> QED
  BY <1>2, <1>3, <1>4, <1>5, <1>6, <1>7, <1>8, <1>9
  DEF PipelineNext, PollStep, BuildStep

\* A good entry is replaced by a younger good one only.
Forward == \A p \in Points :
             pool[p].good /\ pool'[p].good => pool'[p].n >= pool[p].n

\* No step replaces a good entry by an older good one.
LEMMA ForwardStep ==
  ASSUME FlowInv, PoolInv, [PipelineNext]_pipelineVars
  PROVE  [Forward]_pool
<1>0. \A p \in Points : pool[p].n \in Nat
  BY DEF PoolInv, Items
<1>1. ASSUME NEW p \in Points, NEW good \in BOOLEAN, Poll(p, good)
      PROVE  [Forward]_pool
  <2> DEFINE r == [n |-> polled + 1, p |-> p, good |-> good]
  <2>1. pool' = pool \/ (~good /\ PoolUpdate(r))
    BY <1>1 DEF Poll
  <2>2. r \in Items /\ r.good = good
    BY DEF FlowInv, Items
  <2> HIDE DEF r
  <2> QED
    BY <1>0, <2>1, <2>2, UpdatedPool DEF Forward, PoolInv
<1>2. CASE BuildContext
  <2> DEFINE r == Head(Raw)
  <2>1. /\ Raw # <<>> /\ Raw' = Tail(Raw) /\ PoolUpdate(r)
    BY <1>2 DEF BuildContext, Take, Raw, Queues, Hands, FlowInv, Flow
  <2>2. r \in Items /\ \A p \in Points : pool[p].good => pool[p].n < r.n
    BY <2>1, RawShortened
  <2>3. r.n \in Nat
    BY <2>2 DEF Items
  <2> HIDE DEF r
  <2> QED
    BY <1>0, <2>1, <2>2, <2>3, UpdatedPool DEF Forward, PoolInv
<1>3. CASE PoolClear
  BY <1>3 DEF PoolClear, Forward, Nobody
<1>4. ASSUME \/ PollStep \/ BuildReject \/ BuildEnqueue \/ PublishTaskStep
             \/ CacheStep \/ OutStep \/ LinkChanges \/ Reconfigured
             \/ UNCHANGED pipelineVars
      PROVE  pool' = pool
  BY <1>4
  DEF PollStep, PollEnqueue, BuildReject, BuildEnqueue, PublishTaskStep,
      PublishTake, PublishLocal, PublishRoute, PublishCache, PublishCloud,
      PublishCloudRefused, PublishMqtt, PublishUnserialised, CacheStep,
      CacheTake, CacheWrite, OutStep, OutTake, OutPublish, OutStore,
      LinkChanges, Reconfigured, pipelineVars
<1> QED
  BY <1>1, <1>2, <1>3, <1>4 DEF PipelineNext, BuildStep

\* The state pool never replaces a good reading of a point by an older good
\* one (tcm_state_pool_update()), although failed polls overtake the queue
\* and entries are evicted, for every capacity and every queue length.
THEOREM PoolMovesForward == PipelineSteps => PoolForward
<1>1. PipelineSteps => PipelineInit /\ [][PipelineNext]_pipelineVars
  BY PTL DEF PipelineSteps
<1>2. FlowInv /\ PoolInv /\ [PipelineNext]_pipelineVars => PoolInv'
  BY PoolInvNext
<1>3. FlowInv /\ PoolInv /\ [PipelineNext]_pipelineVars => [Forward]_pool
  BY ForwardStep
<1>4. PipelineSteps => [][Forward]_pool
  BY <1>1, <1>2, <1>3, PoolInvInit, FlowInvAlways, PTL
<1> QED
  BY <1>4 DEF PoolForward, Forward
-----------------------------------------------------------------------------
(***************************************************************************)
(* TopicsAtBroker.  The restart task enters a topic and then looks at the  *)
(* state of the link; the client's task sets the state and then reads the  *)
(* table.  So on a live link at most the topic that was entered last is    *)
(* still unknown to the broker, and only until the restart task's next     *)
(* step.                                                                   *)
(***************************************************************************)

USE DEF settings, atBroker, ClientKeeps

TopicNames == {"command", "attributes", "push"}
ToEnter    == TopicsOf(restart.set.v)
Live       == brokerLink = "up" /\ event = "none" /\ conn = "connected"

\* The table has at most the topics of the settings being applied, and the
\* broker knows all of it but the one that the restart task has just entered
\* and those whose SUBSCRIBE failed; a restart under way is pending.
TableInv ==
  /\ topics \in Seq(TopicNames)
  /\ restart.at = "topic" => Len(topics) < Len(ToEnter)
  /\ restart.at = "send"  => Len(topics) \in 1..Len(ToEnter)
  /\ restart.at # "idle"  <=> pending

SubsInv ==
  Live => \A i \in 1..Len(topics) :
            \/ topics[i] \in subs \cup missed
            \/ restart.at = "send" /\ i = Len(topics)

\* The settings have one or two topics.
LEMMA TopicsToEnter ==
  ASSUME NEW v
  PROVE  /\ TopicsOf(v) \in Seq(TopicNames) /\ Len(TopicsOf(v)) \in {1, 2}
         /\ \A i \in 1..Len(TopicsOf(v)) : TopicsOf(v)[i] \in TopicNames
<1>1. CASE v % 2 = 0
  <2>1. TopicsOf(v) = <<"command">>
    BY <1>1 DEF TopicsOf
  <2> QED
    BY <2>1 DEF TopicNames
<1>2. CASE v % 2 # 0
  <2>1. TopicsOf(v) = <<"attributes", "push">>
    BY <1>2 DEF TopicsOf
  <2> QED
    BY <2>1 DEF TopicNames
<1> QED
  BY <1>1, <1>2

\* mqtt_init() has entered the topics, and there is no connection.
LEMMA TableInvInit == MqttInit => TableInv /\ SubsInv
BY TopicsToEnter DEF MqttInit, TableInv, SubsInv, Live, Idle

\* A step that leaves the table alone and does not begin to fill it.
LEMMA TableUntouched ==
  ASSUME TableInv, topics' = topics,
         \/ restart' = restart /\ pending' = pending
         \/ restart'.at \notin {"topic", "send", "idle"} /\ pending'
         \/ restart'.at = "idle" /\ ~pending'
  PROVE  TableInv'
BY DEF TableInv, ToEnter

\* Nor one that does not bring the link to life.
LEMMA SubsUntouched ==
  ASSUME SubsInv, UNCHANGED <<topics, atBroker>>, Live' => Live,
         restart.at = "send" => restart'.at = "send"
  PROVE  SubsInv'
BY DEF SubsInv

\* mqtt_subscribe() enters one topic that the broker may not know yet ...
LEMMA AddTopicKeeps ==
  ASSUME TableInv, SubsInv, AddTopic PROVE TableInv' /\ SubsInv'
<1> DEFINE n == Len(topics)
           x == ToEnter[n + 1]
<1>1. /\ restart.at = "topic" /\ topics' = Append(topics, x)
      /\ restart' = [at |-> "send", set |-> restart.set]
      /\ UNCHANGED <<brokerLink, event, conn, atBroker, pending>>
  BY DEF AddTopic, RestartTo, RestartUnchanged, At, ToEnter
<1>2. topics \in Seq(TopicNames) /\ n \in Nat /\ n < Len(ToEnter)
  BY <1>1, LenProperties DEF TableInv
<1>3. ToEnter' = ToEnter /\ Len(ToEnter) \in {1, 2}
      /\ \A i \in 1..Len(ToEnter) : ToEnter[i] \in TopicNames
  BY <1>1, TopicsToEnter DEF ToEnter
<1>4. x \in TopicNames
  BY <1>2, <1>3
<1>5. /\ topics' \in Seq(TopicNames) /\ Len(topics') = n + 1
      /\ \A i \in 1..n : topics'[i] = topics[i]
  BY <1>1, <1>2, <1>4, AppendProperties
<1> HIDE DEF n, x
<1>6. TableInv'
  BY <1>1, <1>2, <1>3, <1>5 DEF TableInv
<1>7. \A i \in 1..n : Live => topics[i] \in subs \cup missed
  BY <1>1 DEF SubsInv, n
<1>8. SubsInv'
  <2>1. Live' <=> Live
    BY <1>1 DEF Live
  <2>2. ASSUME Live, NEW i \in 1..Len(topics'), i # Len(topics')
        PROVE  topics'[i] \in (subs \cup missed)'
    <3>1. i \in 1..n
      BY <1>2, <1>5, <2>2
    <3> QED
      BY <1>1, <1>5, <1>7, <2>2, <3>1
  <2> QED
    BY <1>1, <2>1, <2>2 DEF SubsInv
<1> QED
  BY <1>6, <1>8

\* ... and then tells the broker, if the link is there.
LEMMA SendTopicKeeps ==
  ASSUME TableInv, SubsInv, SendTopic PROVE TableInv' /\ SubsInv'
<1>1. /\ restart.at = "send" /\ topics' = topics
      /\ restart' = [at |-> IF Len(topics) = Len(ToEnter)
                            THEN "dial" ELSE "topic", set |-> restart.set]
      /\ UNCHANGED <<brokerLink, event, conn, pending>>
      /\ subs \cup missed \subseteq (subs \cup missed)'
      /\ conn = "connected" /\ brokerLink = "up"
           => topics[Len(topics)] \in (subs \cup missed)'
  BY DEF SendTopic, RestartTo, RestartUnchanged, At, ToEnter
<1>2. Len(ToEnter) \in {1, 2} /\ ToEnter' = ToEnter
  BY <1>1, TopicsToEnter DEF ToEnter
<1>3. TableInv'
  BY <1>1, <1>2 DEF TableInv
<1>4. SubsInv'
  BY <1>1 DEF SubsInv, Live
<1> QED
  BY <1>3, <1>4

\* The restart task empties the table before it fills it.
LEMMA ConfigureKeeps ==
  ASSUME TableInv, SubsInv, RestartConfigures PROVE TableInv' /\ SubsInv'
<1>1. CASE topics' = <<>> /\ RestartTo("topic")
  <2>1. topics' \in Seq(TopicNames) /\ Len(topics') = 0
    BY <1>1, EmptySeq
  <2>2. /\ restart'.at = "topic" /\ Len(ToEnter') \in {1, 2}
    BY <1>1, TopicsToEnter DEF RestartTo, At, ToEnter
  <2>3. pending'
    <3>1. restart.at = "config" /\ UNCHANGED <<pending>>
      BY DEF RestartConfigures
    <3>2. pending
      BY <3>1 DEF TableInv
    <3> QED
      BY <3>1, <3>2
  <2>4. Len(topics') < Len(ToEnter') /\ restart'.at # "send"
    BY <2>1, <2>2
  <2>5. TableInv'
    <3>1. restart'.at # "idle" <=> pending'
      BY <2>2, <2>3
    <3> QED
      BY <2>1, <2>4, <3>1, Zenon DEF TableInv
  <2>6. 1..Len(topics') = {}
    BY <2>1
  <2> QED
    BY <2>5, <2>6 DEF SubsInv
<1>2. CASE topics' = topics /\ RestartTo("end")
  <2>1. /\ restart.at = "config" /\ restart'.at = "end"
        /\ UNCHANGED <<brokerLink, event, atBroker, pending>>
        /\ conn' \in {conn, "error"}
    BY <1>2 DEF RestartConfigures, RestartTo, At, RestartUnchanged
  <2>2. Live' => Live
    BY <2>1 DEF Live
  <2>3. pending'
    BY <2>1 DEF TableInv
  <2> QED
    BY <1>2, <2>1, <2>2, <2>3, TableUntouched, SubsUntouched
<1> QED
  BY <1>1, <1>2 DEF RestartConfigures, GiveMutex

\* The handler of MQTT_EVENT_CONNECTED reads the table after it has set the
\* state; until then the link does not count as live.
LEMMA ClientKeepsTopics ==
  ASSUME TableInv, SubsInv,
         \/ Dial \/ Accepted \/ Resubscribe \/ Refused \/ SuspendAsync
         \/ Closed \/ LinkCloses
  PROVE  TableInv' /\ SubsInv'
<1>1. UNCHANGED <<restart, topics, pending>>
  BY DEF Dial, Accepted, Resubscribe, Refused, SuspendAsync, Closed,
         LinkCloses, ClientUnchanged
<1>2. TableInv'
  BY <1>1, TableUntouched
<1>3. CASE Resubscribe
  <2>1. {topics[i] : i \in DOMAIN topics} \subseteq (subs \cup missed)'
    BY <1>3 DEF Resubscribe
  <2>2. DOMAIN topics = 1..Len(topics)
    BY LenProperties DEF TableInv
  <2>3. \A i \in 1..Len(topics) : topics[i] \in (subs \cup missed)'
    BY <2>1, <2>2
  <2> QED
    BY <1>1, <1>2, <2>3 DEF SubsInv
<1>4. ASSUME \/ Dial \/ Accepted \/ Refused \/ SuspendAsync \/ Closed
             \/ LinkCloses
      PROVE  ~Live'
  BY <1>4 DEF Dial, Accepted, Refused, SuspendAsync, Closed, LinkCloses, Live
<1> QED
  BY <1>2, <1>3, <1>4 DEF SubsInv

\* The other steps of the web server, the supervisor and the restart.
LEMMA TasksKeepTopics ==
  ASSUME TableInv, SubsInv,
         \/ SaveSettings \/ UserStops \/ TestConnection \/ WebStep
         \/ SupervisorStep \/ UNCHANGED mqttVars
         \/ RestartBegins \/ RestartCloses \/ RestartDials \/ RestartStops
         \/ RestartEnds
  PROVE  TableInv' /\ SubsInv'
<1> DEFINE Quiet == /\ UNCHANGED <<topics, atBroker, brokerLink, event>>
                    /\ conn' \in {conn, "disconnected", "error"}
<1>1. ASSUME Quiet, restart' = restart, pending' = pending
      PROVE  TableInv' /\ SubsInv'
  BY <1>1, TableUntouched, SubsUntouched DEF Live
<1>2. ASSUME Quiet, restart.at # "send",
             restart'.at \notin {"topic", "send", "idle"}, pending'
      PROVE  TableInv' /\ SubsInv'
  BY <1>2, TableUntouched, SubsUntouched DEF Live
<1>3. CASE \/ SaveSettings \/ UserStops \/ TestConnection
           \/ SupervisorStep \/ UNCHANGED mqttVars
  <2>1. Quiet /\ restart' = restart /\ pending' = pending
    BY <1>3
    DEF SaveSettings, UserStops, TestConnection, SupervisorStep,
        SupervisorWakes, SupervisorStops, StopClient, StopFails, WebUnchanged,
        mqttVars, mqttTasks, mqttClient, mqttLink
  <2> QED
    BY <1>1, <2>1
<1>4. CASE WebStop \/ WebStore \/ Reconnect \/ TestWaits
  <2>1. Quiet /\ restart' = restart /\ pending' = pending
    BY <1>4
    DEF WebStop, WebStore, Reconnect, TestWaits, StopClient, StopFails,
        WebUnchanged
  <2> QED
    BY <1>1, <2>1
<1>5. CASE WebSignal
  <2>1. Quiet
    BY <1>5 DEF WebSignal, mqttLink
  <2>2. CASE pending' = pending /\ restart' = restart
    BY <1>1, <2>1, <2>2
  <2>3. CASE pending' = TRUE /\ pending /\ restart' = restart
    <3>1. restart.at # "idle" /\ pending'
      BY <2>3 DEF TableInv
    <3>2. TableInv'
      BY <2>1, <2>3, <3>1 DEF TableInv, ToEnter
    <3> QED
      BY <2>1, <2>3, <3>2, SubsUntouched DEF Live
  <2>4. CASE pending' = TRUE /\ ~pending /\ restart' = At("begin", Idle.set)
    <3>1. restart.at # "send" /\ restart'.at = "begin"
      BY <2>4 DEF TableInv, At
    <3> QED
      BY <1>2, <2>1, <2>4, <3>1
  <2> QED
    BY <1>5, <2>2, <2>3, <2>4 DEF WebSignal
<1>6. CASE RestartBegins \/ RestartCloses \/ RestartDials \/ RestartStops
  <2>1. /\ Quiet /\ restart.at \notin {"send", "idle"} /\ pending' = pending
        /\ restart'.at \notin {"topic", "send", "idle"}
    <3>1. CASE RestartBegins
      BY <3>1 DEF RestartBegins, RestartUnchanged, At
    <3>2. CASE RestartCloses
      BY <3>2 DEF RestartCloses, RestartUnchanged, RestartTo, GiveMutex, At
    <3>3. CASE RestartDials
      BY <3>3 DEF RestartDials, RestartUnchanged, RestartTo, GiveMutex, At
    <3>4. CASE RestartStops
      BY <3>4
      DEF RestartStops, RestartUnchanged, RestartTo, At, StopClient, StopFails
    <3> QED
      BY <1>6, <3>1, <3>2, <3>3, <3>4
  <2> QED
    BY <1>2, <2>1 DEF TableInv
<1>7. CASE RestartEnds
  <2>1. Quiet /\ restart.at # "send" /\ restart'.at = "idle" /\ ~pending'
    BY <1>7 DEF RestartEnds, RestartUnchanged, Idle
  <2> QED
    BY <2>1, TableUntouched, SubsUntouched DEF Live
<1> QED
  BY <1>3, <1>4, <1>5, <1>6, <1>7 DEF WebStep

\* Every step of every task.
LEMMA TopicsInvNext ==
  TableInv /\ SubsInv /\ [MqttNext]_mqttVars => TableInv' /\ SubsInv'
BY AddTopicKeeps, SendTopicKeeps, ConfigureKeeps, ClientKeepsTopics,
   TasksKeepTopics
DEF MqttNext, RestartStep

\* On a live link the broker knows every topic of the table but those whose
\* SUBSCRIBE failed on it, although the restart task may rebuild the table
\* (mqtt_register_runtime_subscriptions()) while the client's task handles
\* MQTT_EVENT_CONNECTED.
THEOREM TopicsReachTheBroker == MqttSteps => []TopicsAtBroker
<1>1. MqttSteps => MqttInit /\ [][MqttNext]_mqttVars
  BY PTL DEF MqttSteps
<1>2. TableInv /\ SubsInv => TopicsAtBroker
  BY LenProperties DEF TableInv, SubsInv, Live, TopicsAtBroker
<1> QED
  BY <1>1, <1>2, TableInvInit, TopicsInvNext, PTL
-----------------------------------------------------------------------------
(***************************************************************************)
(* The user's stop.  The web server's task switches the settings off and   *)
(* stops the client under s_lifecycle_mutex, which a restart holds from    *)
(* the settings it read to its dial: what a restart began before the stop  *)
(* is finished when the stop gets the mutex, and one that begins later     *)
(* reads that MQTT is off.                                                 *)
(***************************************************************************)
Settings  == [v : Nat, on : BOOLEAN]
Applying  == {"close", "config", "topic", "send", "dial"}
Testing   == {"test", "wait"}
StopAhead == \/ web.at = "stop"
             \/ web.at = "signal" /\ restart.at = "idle"
             \/ restart.at \in {"begin", "stop"}
SetOff      == ~saved.on /\ ~overtaken /\ mqttFaults = 0
SwitchedOff == SetOff /\ ~StopAhead

\* What the web server's task holds.
Held(w) == w \in [at : Places, set : Settings]

SettingsInv ==
  /\ saved \in Settings /\ Held(web)
  /\ saves \in Nat /\ mqttFaults \in Nat

MutexInv == restart.at \in Applying => mutex # "free"

OffInv ==
  /\ SwitchedOff => /\ mqttSuspended
                    /\ restart.at \notin Applying
                    /\ started => ~auto /\ ~request
  /\ SetOff => web.at \notin Testing

\* The web server's task moves on with settings it may have.
LEMMA HeldAt ==
  ASSUME NEW p \in Places, NEW set \in Settings
  PROVE  Held(At(p, set))
BY DEF Held, At, Settings

\* MQTT is on, or the client was not started.
LEMMA StopInvInit == MqttInit => SettingsInv /\ MutexInv /\ OffInv
<1> SUFFICES ASSUME MqttInit PROVE SettingsInv /\ MutexInv /\ OffInv
  OBVIOUS
<1>1. PICK on \in BOOLEAN :
        saved = [v |-> 0, on |-> on] /\ started = on /\ mqttSuspended = ~on
  BY DEF MqttInit
<1>2. web.at = "idle" /\ restart.at = "idle"
  BY DEF MqttInit, Idle
<1>3. SettingsInv
  BY <1>1, <1>2 DEF MqttInit, SettingsInv, Held, Settings, Idle, Places
<1>4. MutexInv
  BY <1>2 DEF MutexInv, Applying
<1>5. OffInv
  <2>1. CASE on
    BY <1>1, <2>1 DEF OffInv, SwitchedOff, SetOff
  <2>2. CASE ~on
    BY <1>1, <1>2, <2>2 DEF OffInv, Applying, Testing
  <2> QED
    BY <2>1, <2>2
<1> QED
  BY <1>3, <1>4, <1>5

\* Settings stay settings.
LEMMA SettingsInvNext ==
  ASSUME SettingsInv, [MqttNext]_mqttVars PROVE SettingsInv'
<1> DEFINE Counting == mqttFaults' \in {mqttFaults, mqttFaults + 1}
<1>1. ASSUME UNCHANGED <<saved, web, saves>>, Counting
      PROVE  SettingsInv'
  BY <1>1 DEF SettingsInv
<1>2. ASSUME saves' \in {saves, saves + 1}, Counting,
             saved' \in Settings, Held(web')
      PROVE  SettingsInv'
  BY <1>2 DEF SettingsInv
<1>3. /\ Idle.set \in Settings /\ Idle = At("idle", Idle.set)
      /\ web.set \in Settings /\ saved \in Settings
  BY DEF SettingsInv, Held, Settings, Idle, At
<1>5. CASE SaveSettings
  <2>1. PICK p \in {"halt", "store"}, on \in BOOLEAN :
          web' = At(p, [v |-> saves + 1, on |-> on])
    BY <1>5 DEF SaveSettings
  <2>2. [v |-> saves + 1, on |-> on] \in Settings
    BY DEF SettingsInv, Settings
  <2>3. Held(web')
    BY <2>1, <2>2, HeldAt DEF Places
  <2> QED
    BY <1>2, <1>3, <1>5, <2>3 DEF SaveSettings
<1>6. CASE UserStops
  <2>1. saved' \in Settings
    BY <1>3, <1>6 DEF UserStops, Settings
  <2> QED
    BY <1>2, <1>6, <2>1, HeldAt DEF UserStops, Places
<1>7. CASE TestConnection
  BY <1>2, <1>3, <1>7, HeldAt DEF TestConnection, WebUnchanged, Places
<1>8. CASE WebStop
  <2>1. Counting
    BY <1>8 DEF WebStop, StopClient, StopFails, MqttFault
  <2>2. web' = At("store", web.set) \/ web' = At("idle", Idle.set)
    BY <1>3, <1>8 DEF WebStop
  <2>3. Held(web')
    BY <1>3, <2>2, HeldAt DEF Places
  <2> QED
    BY <1>2, <1>3, <1>8, <2>1, <2>3 DEF WebStop
<1>9. CASE WebStore
  <2>1. /\ saved' \in {saved, web.set}
        /\ web' = At("signal", web.set) \/ web' = At("idle", Idle.set)
    BY <1>3, <1>9 DEF WebStore
  <2>2. Held(web')
    BY <1>3, <2>1, HeldAt DEF Places
  <2> QED
    BY <1>2, <1>3, <1>9, <2>1, <2>2 DEF WebStore, MqttFault
<1>10. CASE WebSignal \/ Reconnect \/ TestWaits
  <2>1. /\ web' = At("wait", Idle.set) \/ web' = At("idle", Idle.set)
        /\ Counting /\ UNCHANGED <<saved, saves>>
    BY <1>3, <1>10 DEF WebSignal, Reconnect, TestWaits, MqttFault
  <2>2. Held(web')
    BY <1>3, <2>1, HeldAt DEF Places
  <2> QED
    BY <1>2, <1>3, <2>1, <2>2
<1>11. CASE RestartStep
  <2>1. UNCHANGED <<saved, web, saves>> /\ Counting
    BY <1>11
    DEF RestartStep, RestartBegins, RestartCloses, RestartConfigures, AddTopic,
        SendTopic, RestartDials, RestartStops, RestartEnds, RestartUnchanged,
        StopClient, StopFails, MqttFault
  <2> QED
    BY <1>1, <2>1
<1>12. CASE SupervisorStep \/ UNCHANGED mqttVars
  BY <1>1, <1>12
  DEF SupervisorStep, SupervisorWakes, SupervisorStops, StopClient, StopFails,
      MqttFault, mqttVars, mqttTasks
<1>13. CASE \/ Dial \/ Accepted \/ Refused \/ SuspendAsync \/ Closed
            \/ LinkCloses
  BY <1>1, <1>13
  DEF Dial, Accepted, Refused, SuspendAsync, Closed, LinkCloses,
      ClientUnchanged
<1>14. CASE Resubscribe
  <2>1. mqttFaults' = mqttFaults \/ MqttFault
    BY <1>14 DEF Resubscribe
  <2>2. UNCHANGED <<saved, web, saves>>
    BY <1>14 DEF Resubscribe
  <2> QED
    BY <1>1, <2>1, <2>2 DEF MqttFault
<1> QED
  BY <1>5, <1>6, <1>7, <1>8, <1>9, <1>10, <1>11, <1>12, <1>13, <1>14
  DEF MqttNext, WebStep

\* While the restart task applies settings it holds s_lifecycle_mutex.
LEMMA MutexInvNext ==
  ASSUME MutexInv, [MqttNext]_mqttVars PROVE MutexInv'
<1>1. ASSUME restart'.at \in Applying => restart.at \in Applying,
             mutex' = mutex
      PROVE  MutexInv'
  BY <1>1 DEF MutexInv
<1>2. ASSUME restart'.at \notin Applying PROVE MutexInv'
  BY <1>2 DEF MutexInv
<1>3. CASE \/ SaveSettings \/ UserStops \/ TestConnection \/ WebStop
           \/ WebStore \/ Reconnect \/ TestWaits \/ SupervisorStep
           \/ UNCHANGED mqttVars
  BY <1>1, <1>3
  DEF SaveSettings, UserStops, TestConnection, WebStop, WebStore, Reconnect,
      TestWaits, SupervisorStep, SupervisorWakes, SupervisorStops, StopClient,
      StopFails, WebUnchanged, mqttVars, mqttTasks
<1>4. CASE WebSignal
  BY <1>1, <1>2, <1>4 DEF WebSignal, Applying, At
<1>5. CASE RestartStep
  <2>1. CASE RestartBegins
    <3>1. mutex' = "restart" \/ restart'.at = "stop"
      BY <2>1 DEF RestartBegins, At
    <3> QED
      BY <3>1 DEF MutexInv, Applying
  <2>2. CASE RestartCloses
    <3>1. restart'.at = "end" \/ (restart.at = "close" /\ mutex' = mutex)
      BY <2>2 DEF RestartCloses, RestartTo, GiveMutex, At
    <3> QED
      BY <1>1, <1>2, <3>1 DEF Applying
  <2>3. CASE RestartConfigures
    <3>1. restart'.at = "end" \/ (restart.at = "config" /\ mutex' = mutex)
      <4>1. restart.at = "config" /\ (GiveMutex \/ mutex' = mutex)
        BY <2>3, Zenon DEF RestartConfigures
      <4> QED
        BY <4>1 DEF GiveMutex, RestartTo, At
    <3> QED
      BY <1>1, <1>2, <3>1 DEF Applying
  <2>4. CASE AddTopic \/ SendTopic
    <3>1. restart.at \in {"topic", "send"} /\ mutex' = mutex
      BY <2>4 DEF AddTopic, SendTopic
    <3> QED
      BY <1>1, <3>1 DEF Applying
  <2>5. CASE RestartDials \/ RestartStops \/ RestartEnds
    <3>1. restart'.at \in {"end", "idle"}
      BY <2>5
      DEF RestartDials, RestartStops, RestartEnds, RestartTo, GiveMutex, At,
          Idle
    <3> QED
      BY <1>2, <3>1 DEF Applying
  <2> QED
    BY <1>5, <2>1, <2>2, <2>3, <2>4, <2>5 DEF RestartStep
<1>6. CASE \/ Dial \/ Accepted \/ Resubscribe \/ Refused \/ SuspendAsync
           \/ Closed \/ LinkCloses
  BY <1>1, <1>6
  DEF Dial, Accepted, Resubscribe, Refused, SuspendAsync, Closed, LinkCloses,
      ClientUnchanged
<1> QED
  BY <1>3, <1>4, <1>5, <1>6 DEF MqttNext, WebStep

\* A stop that does not fail; and a fault, after which nothing is claimed.
LEMMA StopIsThrough ==
  ASSUME StopClient, MutexInv
  PROVE  /\ mqttSuspended' /\ restart.at \notin Applying
         /\ started' => ~auto' /\ ~request'
<1>1. mqttSuspended' /\ restart.at \notin Applying
  BY DEF StopClient, MutexInv
<1>2. ASSUME started PROVE ~auto' /\ ~request'
  BY <1>2 DEF StopClient, Configure
<1>3. started' = started
  BY DEF StopClient
<1> QED
  BY <1>1, <1>2, <1>3

\* After a failed call of the client nothing is claimed.
LEMMA FaultEnds ==
  ASSUME SettingsInv, MqttFault
  PROVE  ~SetOff'
BY DEF SettingsInv, MqttFault, SetOff

\* Nobody switches a client on that has been switched off.
LEMMA OffInvNext ==
  ASSUME SettingsInv, MutexInv, TableInv, OffInv, [MqttNext]_mqttVars
  PROVE  OffInv'
<1> DEFINE Calm == /\ UNCHANGED <<started, auto>>
                   /\ request' = request \/ ~request'
                   /\ mqttSuspended' = mqttSuspended \/ mqttSuspended'
                   /\ restart'.at \in Applying => restart.at \in Applying
           NoTest == web' = web \/ web'.at \notin Testing
<1>0. ASSUME SetOff' => SetOff, NoTest
      PROVE  SetOff' => web'.at \notin Testing
  BY <1>0 DEF OffInv
<1>1. ASSUME SwitchedOff' => SwitchedOff, SetOff' => SetOff, Calm, NoTest
      PROVE  OffInv'
  <2>1. CASE ~SwitchedOff'
    BY <1>0, <1>1, <2>1 DEF OffInv
  <2>2. CASE SwitchedOff'
    <3>0. mqttSuspended /\ restart.at \notin Applying
      BY <1>1, <2>2 DEF OffInv
    <3>1. mqttSuspended' /\ restart'.at \notin Applying
      <4>1. mqttSuspended'
        BY <1>1, <3>0, Zenon
      <4> QED
        BY <1>1, <3>0, <4>1
    <3>2. started' => ~auto' /\ ~request'
      BY <1>1, <2>2, Zenon DEF OffInv
    <3>3. SetOff' => web'.at \notin Testing
      BY <1>0, <1>1
    <3> QED
      BY <3>1, <3>2, <3>3, Zenon DEF OffInv
  <2> QED
    BY <2>1, <2>2
<1>2. ASSUME StopClient, restart'.at \in {restart.at, "end"},
             SetOff' => SetOff, NoTest
      PROVE  OffInv'
  <2>1. /\ mqttSuspended' /\ restart'.at \notin Applying
        /\ started' => ~auto' /\ ~request'
    BY <1>2, StopIsThrough DEF Applying
  <2>2. SetOff' => web'.at \notin Testing
    BY <1>0, <1>2
  <2> QED
    BY <2>1, <2>2, Zenon DEF OffInv
<1>3. ASSUME ~SetOff' PROVE OffInv'
  BY <1>3 DEF OffInv, SwitchedOff
<1>4. ASSUME StopAhead', SetOff' => SetOff, NoTest PROVE OffInv'
  BY <1>0, <1>4 DEF OffInv, SwitchedOff
<1>5. ASSUME StopAhead', web'.at \notin Testing PROVE OffInv'
  BY <1>5 DEF OffInv, SwitchedOff
<1>6. ASSUME UNCHANGED <<saved, overtaken, mqttFaults>>
      PROVE  SetOff' => SetOff
  BY <1>6 DEF SetOff
<1>7. ASSUME UNCHANGED <<saved, overtaken, mqttFaults, web, restart>>
      PROVE  SwitchedOff' => SwitchedOff
  BY <1>6, <1>7 DEF SwitchedOff, StopAhead
<1>8. CASE SaveSettings
  <2>1. /\ web.at = "idle" /\ web'.at \in {"halt", "store"}
        /\ UNCHANGED <<saved, overtaken, mqttFaults, mqttSuspended, restart>>
        /\ UNCHANGED <<started, auto, request>>
    BY <1>8 DEF SaveSettings, WebUnchanged, mqttClient, Idle, At
  <2>2. SwitchedOff' => SwitchedOff
    BY <1>6, <2>1 DEF SwitchedOff, StopAhead
  <2> QED
    BY <1>1, <1>6, <2>1, <2>2 DEF Testing
<1>9. CASE UserStops
  <2>1. web'.at = "stop"
    BY <1>9 DEF UserStops, At
  <2> QED
    BY <1>5, <2>1 DEF StopAhead, Testing
<1>10. CASE TestConnection
  <2>1. /\ web.at = "idle" /\ ~mqttSuspended
        /\ UNCHANGED <<saved, mqttFaults, restart>>
        /\ overtaken' = (overtaken \/ (~saved.on /\ restart # Idle))
    BY <1>10 DEF TestConnection, WebUnchanged, Idle
  <2>2. ~SwitchedOff
    BY <2>1 DEF OffInv
  <2>3. CASE restart = Idle
    BY <1>3, <2>1, <2>2, <2>3 DEF SwitchedOff, SetOff, StopAhead, Idle
  <2>4. CASE restart # Idle
    BY <1>3, <2>1, <2>4 DEF SetOff
  <2> QED
    BY <2>3, <2>4
<1>11. CASE WebStop
  <2>1. /\ UNCHANGED <<saved, overtaken, restart>>
        /\ web'.at \in {"store", "idle"}
    BY <1>11 DEF WebStop, WebUnchanged, At, Idle
  <2>2. CASE StopClient
    <3>1. mqttFaults' = mqttFaults
      BY <2>2 DEF StopClient
    <3> QED
      BY <1>2, <1>6, <2>1, <2>2, <3>1 DEF Testing
  <2>3. CASE StopFails
    BY <1>3, <2>3, FaultEnds DEF StopFails
  <2> QED
    BY <1>11, <2>2, <2>3 DEF WebStop
<1>12. CASE WebStore
  <2>1. CASE MqttFault
    BY <1>3, <2>1, FaultEnds
  <2>2. CASE ~MqttFault
    <3>1. /\ saved' = web.set /\ web'.at = "signal" /\ restart' = restart
          /\ overtaken' = (~web.set.on
                             /\ restart.at \notin {"idle", "begin", "stop"})
      BY <1>12, <2>2 DEF WebStore, WebUnchanged, At
    <3>2. CASE restart.at \in {"idle", "begin", "stop"}
      BY <1>5, <3>1, <3>2 DEF StopAhead, Testing
    <3>3. CASE restart.at \notin {"idle", "begin", "stop"}
      BY <1>3, <3>1, <3>3 DEF SetOff
    <3> QED
      BY <3>2, <3>3
  <2> QED
    BY <2>1, <2>2
<1>13. CASE WebSignal
  <2>1. /\ web.at = "signal" /\ web'.at = "idle" /\ saved' = saved
        /\ UNCHANGED <<started, auto, request, mqttSuspended>>
        /\ overtaken' = (pending /\ overtaken)
    BY <1>13 DEF WebSignal, mqttClient, mqttLink, Idle
  <2>2. CASE MqttFault
    BY <1>3, <2>2, FaultEnds
  <2>3. CASE ~MqttFault
    <3>1. /\ mqttFaults' = mqttFaults
          /\ restart' = IF pending THEN restart ELSE At("begin", Idle.set)
      BY <1>13, <2>3 DEF WebSignal
    <3>2. CASE ~pending
      BY <1>5, <2>1, <3>1, <3>2 DEF StopAhead, At, Testing
    <3>3. CASE pending
      <4>1. restart.at # "idle" /\ restart' = restart
        BY <3>1, <3>3 DEF TableInv
      <4>2. SetOff' => SetOff
        BY <2>1, <3>1, <3>3 DEF SetOff
      <4>3. SwitchedOff' => SwitchedOff
        BY <2>1, <4>1, <4>2 DEF SwitchedOff, StopAhead
      <4> QED
        BY <1>1, <2>1, <4>1, <4>2, <4>3 DEF Testing
    <3> QED
      BY <3>2, <3>3
  <2> QED
    BY <2>2, <2>3
<1>14. CASE Reconnect \/ TestWaits
  <2>1. /\ web.at \in Testing /\ UNCHANGED <<saved, overtaken, mqttFaults>>
    BY <1>14 DEF Reconnect, TestWaits, Testing
  <2> QED
    BY <1>3, <1>6, <2>1 DEF OffInv
<1>15. CASE RestartStep
  <2>0. UNCHANGED <<saved, overtaken, web>> /\ NoTest
    BY <1>15
    DEF RestartStep, RestartBegins, RestartCloses, RestartConfigures, AddTopic,
        SendTopic, RestartDials, RestartStops, RestartEnds, RestartUnchanged
  <2>1. CASE RestartBegins
    <3>1. CASE saved.on
      BY <1>3, <2>0, <3>1 DEF SetOff
    <3>2. CASE ~saved.on
      <4>1. restart'.at = "stop" /\ mqttFaults' = mqttFaults
        BY <2>1, <3>2 DEF RestartBegins, At
      <4> QED
        BY <1>4, <1>6, <2>0, <4>1 DEF StopAhead
    <3> QED
      BY <3>1, <3>2
  <2>2. CASE RestartCloses \/ RestartConfigures \/ AddTopic \/ SendTopic
             \/ RestartDials
    <3>1. restart.at \in Applying
      BY <2>2
      DEF RestartCloses, RestartConfigures, AddTopic, SendTopic, RestartDials,
          Applying
    <3>2. MqttFault \/ mqttFaults' = mqttFaults
      BY <2>2
      DEF RestartCloses, RestartConfigures, AddTopic, SendTopic, RestartDials
    <3>3. CASE MqttFault
      BY <1>3, <3>3, FaultEnds
    <3>4. CASE mqttFaults' = mqttFaults
      <4>1. ~SwitchedOff
        BY <3>1 DEF OffInv
      <4>2. CASE ~SetOff
        BY <1>3, <1>6, <2>0, <3>4, <4>2
      <4>3. CASE StopAhead
        BY <1>4, <1>6, <2>0, <3>1, <3>4, <4>3 DEF StopAhead, Applying
      <4> QED
        BY <4>1, <4>2, <4>3 DEF SwitchedOff
    <3> QED
      BY <3>2, <3>3, <3>4
  <2>3. CASE RestartStops
    <3>1. restart'.at = "end" /\ (StopClient \/ StopFails)
      BY <2>3 DEF RestartStops, RestartTo, At
    <3>2. CASE StopClient
      <4>1. mqttFaults' = mqttFaults
        BY <3>2 DEF StopClient
      <4> QED
        BY <1>2, <1>6, <2>0, <3>1, <3>2, <4>1
    <3>3. CASE StopFails
      BY <1>3, <3>3, FaultEnds DEF StopFails
    <3> QED
      BY <3>1, <3>2, <3>3
  <2>4. CASE RestartEnds
    <3>1. /\ restart.at = "end" /\ restart'.at = "idle"
          /\ UNCHANGED <<mqttFaults, mqttSuspended, started, auto, request>>
      BY <2>4 DEF RestartEnds, mqttClient, Idle
    <3>2. SwitchedOff' => SwitchedOff
      BY <1>6, <2>0, <3>1 DEF SwitchedOff, StopAhead
    <3> QED
      BY <1>1, <1>6, <2>0, <3>1, <3>2 DEF Applying
  <2> QED
    BY <1>15, <2>1, <2>2, <2>3, <2>4 DEF RestartStep
<1>16. CASE SupervisorStep
  <2>1. UNCHANGED <<saved, overtaken, web, restart>> /\ NoTest
    BY <1>16 DEF SupervisorStep, SupervisorWakes, SupervisorStops
  <2>2. CASE SupervisorWakes
    <3>1. UNCHANGED <<mqttFaults, mqttSuspended, started, auto, request>>
      BY <2>2 DEF SupervisorWakes, mqttClient, mqttLink
    <3> QED
      BY <1>1, <1>6, <1>7, <2>1, <3>1
  <2>3. CASE SupervisorStops
    <3>1. CASE StopClient
      <4>1. mqttFaults' = mqttFaults
        BY <3>1 DEF StopClient
      <4> QED
        BY <1>2, <1>6, <2>1, <3>1, <4>1
    <3>2. CASE StopFails
      BY <1>3, <3>2, FaultEnds DEF StopFails
    <3> QED
      BY <2>3, <3>1, <3>2 DEF SupervisorStops
  <2> QED
    BY <1>16, <2>2, <2>3 DEF SupervisorStep
<1>17. CASE \/ Dial \/ Accepted \/ Refused \/ SuspendAsync
           \/ Closed \/ LinkCloses \/ UNCHANGED mqttVars
  <2>1. UNCHANGED <<saved, overtaken, web, restart, mqttFaults, started, auto>>
    BY <1>17
    DEF Dial, Accepted, Refused, SuspendAsync, Closed, LinkCloses,
        ClientUnchanged, mqttVars, mqttTasks, mqttClient
  <2>2. request' = request \/ request' = FALSE
    BY <1>17
    DEF Dial, Accepted, Refused, SuspendAsync, Closed, LinkCloses,
        mqttVars, mqttClient
  <2>3. mqttSuspended' = mqttSuspended \/ mqttSuspended' = TRUE
    BY <1>17
    DEF Dial, Accepted, Refused, SuspendAsync, Closed, LinkCloses,
        mqttVars, mqttLink
  <2> QED
    BY <1>1, <1>6, <1>7, <2>1, <2>2, <2>3
<1>18. CASE Resubscribe
  <2>1. UNCHANGED <<saved, overtaken, web, restart, started, auto, request,
                    mqttSuspended>>
    BY <1>18 DEF Resubscribe
  <2>2. mqttFaults' = mqttFaults \/ MqttFault
    BY <1>18 DEF Resubscribe
  <2>3. CASE mqttFaults' = mqttFaults
    BY <1>1, <1>6, <1>7, <2>1, <2>3
  <2>4. CASE MqttFault
    BY <1>3, <2>4, FaultEnds
  <2> QED
    BY <2>2, <2>3, <2>4
<1> QED
  BY <1>8, <1>9, <1>10, <1>11, <1>12, <1>13, <1>14, <1>15, <1>16, <1>17,
     <1>18
  DEF MqttNext, WebStep

\* Only a dial brings the connection up.
LEMMA OffDoesNotDial ==
  ASSUME OffInv, [MqttNext]_mqttVars, Stopped, brokerLink = "down"
  PROVE  brokerLink' = "down"
<1>1. SwitchedOff
  BY DEF Stopped, SwitchedOff, SetOff, StopAhead, Idle
<1>2. ~(started /\ (auto \/ request))
  BY <1>1 DEF OffInv
<1>3. ~Dial
  BY <1>2 DEF Dial
<1>4. brokerLink' = brokerLink \/ Dial \/ LinkCloses
  BY DEF MqttNext, SaveSettings, UserStops, TestConnection, WebStep, WebStop,
      WebStore, WebSignal, Reconnect, TestWaits, RestartStep, RestartBegins,
      RestartCloses, RestartConfigures, AddTopic, SendTopic, RestartDials,
      RestartStops, RestartEnds, SupervisorStep, SupervisorWakes,
      SupervisorStops, Accepted, Resubscribe, Refused, SuspendAsync, Closed,
      WebUnchanged, RestartUnchanged, ClientUnchanged, mqttVars, mqttLink
<1> QED
  BY <1>3, <1>4 DEF LinkCloses

\* Once MQTT is switched off, by the user's stop or among saved settings,
\* and no request or restart is under way, no connection is made until it is
\* switched on, if no call of the client failed and settings switched off
\* were not overtaken by a restart or a test of the connection
\* (mqtt_disconnect_post_handler(), mqtt_config_put_handler(),
\* mqtt_restart_task(), mqtt_supervisor_task()), for every sequence of saves,
\* stops, tests and dials.
THEOREM StopIsKept == MqttSteps => StopHolds
<1>1. MqttSteps => MqttInit /\ [][MqttNext]_mqttVars
  BY PTL DEF MqttSteps
<1>2. TableInv /\ SubsInv /\ SettingsInv /\ MutexInv /\ OffInv
        /\ [MqttNext]_mqttVars
      => TableInv' /\ SubsInv' /\ SettingsInv' /\ MutexInv' /\ OffInv'
  <2> SUFFICES ASSUME TableInv, SubsInv, SettingsInv, MutexInv, OffInv,
                      [MqttNext]_mqttVars
               PROVE  TableInv' /\ SubsInv' /\ SettingsInv' /\ MutexInv'
                        /\ OffInv'
    OBVIOUS
  <2>1. TableInv' /\ SubsInv'
    BY TopicsInvNext
  <2>2. SettingsInv'
    BY SettingsInvNext
  <2>3. MutexInv'
    BY MutexInvNext
  <2>4. OffInv'
    BY OffInvNext
  <2> QED
    BY <2>1, <2>2, <2>3, <2>4
<1>3. OffInv /\ [MqttNext]_mqttVars
        => [Stopped /\ brokerLink = "down" => brokerLink' = "down"]_mqttVars
  BY OffDoesNotDial
<1>4. MqttSteps =>
        [][Stopped /\ brokerLink = "down" => brokerLink' = "down"]_mqttVars
  BY <1>1, <1>2, <1>3, TableInvInit, StopInvInit, PTL
<1> QED
  BY <1>4 DEF StopHolds
-----------------------------------------------------------------------------
(***************************************************************************)
(* ListSettled, EditsSurviveApply.  The invariant says what is true of the *)
(* list at each step of the scan: the slaves are in order, those that are  *)
(* still to be read have no registers, and a device that went away has     *)
(* none either and is behind the scan.  So an edit, which needs a register *)
(* of an active device, never meets the device that the scan is about to   *)
(* drop, and registers_found stays the sum over the list (Listed), also    *)
(* when the list is compacted.                                             *)
(***************************************************************************)

(* The sum of the registers in a list of devices. *)
DeviceType == [slave : 1..LastSlave, active : BOOLEAN,
               regs : Seq(RegisterType), probed : 0..2]

Totals(f, l) == /\ f[0] = 0
                /\ \A n \in 1..Len(l) : f[n] = f[n - 1] + Len(l[n].regs)
                /\ Listed(l) = f[Len(l)]

\* A device has a number of registers.
LEMMA RegsCount ==
  ASSUME NEW l \in Seq(DeviceType), NEW i \in 1..Len(l)
  PROVE  /\ l[i] \in DeviceType /\ l[i].regs \in Seq(RegisterType)
         /\ Len(l[i].regs) \in Nat
<1>1. l[i] \in DeviceType
  OBVIOUS
<1> QED
  BY <1>1 DEF DeviceType

\* Listed() adds device by device.
LEMMA ListedSteps ==
  ASSUME NEW l \in Seq(DeviceType)
  PROVE  \E f \in [0..Len(l) -> Nat] : Totals(f, l)
<1> DEFINE N == Len(l)
           c(n) == Len(l[n].regs)
           Body(f) == [n \in 0..N |-> IF n = 0 THEN 0 ELSE f[n - 1] + c(n)]
           upTo == CHOOSE f : f = Body(f)
<1>1. N \in Nat /\ \A i \in 1..N : c(i) \in Nat
  BY RegsCount
<1>2. Listed(l) = upTo[N]
  BY DEF Listed
<1> HIDE DEF N, c
<1>3. \E f : f = Body(f)
  <2> DEFINE step == [x \in (1..N) \X Nat |-> x[2] + c(x[1])]
  <2>1. step \in [(1..N) \X Nat -> Nat]
    BY <1>1
  <2>2. \A i \in 1..N : \A x \in Nat : step[<<i, x>>] = x + c(i)
    OBVIOUS
  <2> HIDE DEF step
  <2>3. PICK f \in [0..N -> Nat] : Defines(f, N, 0, step)
    <3> HIDE DEF Body, upTo
    <3>1. N \in Nat /\ 0 \in Nat
      BY <1>1
    <3>2. \A b \in Nat : \A s \in [(1..N) \X Nat -> Nat] :
            \E f \in [0..N -> Nat] : Defines(f, N, b, s)
      BY ONLY <3>1, Recursion
    <3> QED
      BY ONLY <2>1, <3>1, <3>2
  <2>4. ASSUME NEW i \in 0..N PROVE f[i] = Body(f)[i]
    <3>1. CASE i = 0
      BY <2>3, <3>1 DEF Defines
    <3>2. CASE i # 0
      <4>1. i \in 1..N /\ f[i - 1] \in Nat
        BY <1>1, <3>2
      <4> QED
        BY <2>2, <2>3, <3>2, <4>1 DEF Defines
    <3> QED
      BY <3>1, <3>2
  <2>5. f = Body(f)
    BY <2>4
  <2> QED
    BY <2>5
<1>4. upTo = Body(upTo)
  BY <1>3
<1> HIDE DEF upTo
<1>5. ASSUME NEW n \in 0..N
      PROVE  upTo[n] = IF n = 0 THEN 0 ELSE upTo[n - 1] + c(n)
  <2>1. upTo[n] = Body(upTo)[n]
    BY <1>4
  <2> QED
    BY <2>1
<1>6. upTo = [n \in 0..N |-> upTo[n]]
  BY <1>4
<1> HIDE DEF Body
<1> DEFINE A == {n \in 0..N : upTo[n] \in Nat}
<1>7. 0 \in A
  <2>1. upTo[0] = 0 /\ 0 \in 0..N
    BY <1>1, <1>5
  <2> QED
    BY <2>1
<1>8. \A n \in 1..N : n - 1 \in A => n \in A
  <2> SUFFICES ASSUME NEW n \in 1..N, n - 1 \in A PROVE n \in A
    OBVIOUS
  <2>1. upTo[n - 1] \in Nat /\ c(n) \in Nat /\ n \in 0..N /\ n # 0
    BY <1>1
  <2>2. upTo[n] = upTo[n - 1] + c(n)
    BY <1>5, <2>1
  <2> QED
    BY <2>1, <2>2
<1> HIDE DEF A
<1>9. \A n \in 0..N : n \in A
  <2>1. N \in Nat
    BY <1>1
  <2> QED
    BY ONLY <1>7, <1>8, <2>1, UpTo
<1>10. upTo \in [0..N -> Nat]
  BY <1>6, <1>9 DEF A
<1>11. upTo[0] = 0 /\ \A n \in 1..N : upTo[n] = upTo[n - 1] + c(n)
  BY <1>1, <1>5
<1> QED
  BY <1>2, <1>10, <1>11 DEF N, c, Totals

\* Two lists that agree, but for d registers of the device at k, differ by d.
LEMMA ListedDiffer ==
  ASSUME NEW l \in Seq(DeviceType), NEW m \in Seq(DeviceType),
         Len(m) = Len(l), NEW k \in 1..Len(l), NEW d \in Int,
         \A i \in 1..Len(l) : Len(m[i].regs)
                                = Len(l[i].regs) + (IF i = k THEN d ELSE 0)
  PROVE  Listed(m) = Listed(l) + d
<1>1. PICK f \in [0..Len(l) -> Nat] : Totals(f, l)
  BY ListedSteps
<1>2. PICK g \in [0..Len(m) -> Nat] : Totals(g, m)
  BY ListedSteps
<1> DEFINE N == Len(l)
           c(i) == Len(l[i].regs)
           P(n) == g[n] = f[n] + (IF n < k THEN 0 ELSE d)
           A == {n \in 0..N : P(n)}
<1>3. N \in Nat /\ k \in 1..N /\ \A i \in 1..N : c(i) \in Nat
  BY RegsCount
<1>4. /\ f \in [0..N -> Nat] /\ g \in [0..N -> Nat] /\ f[0] = 0 /\ g[0] = 0
      /\ \A n \in 1..N : f[n] = f[n - 1] + c(n)
      /\ \A n \in 1..N : g[n] = g[n - 1] + (c(n) + (IF n = k THEN d ELSE 0))
      /\ Listed(l) = f[N] /\ Listed(m) = g[N]
  BY <1>1, <1>2 DEF Totals
<1> HIDE DEF N, c
<1>5. 0 \in A
  BY <1>3, <1>4
<1>6. \A n \in 1..N : n - 1 \in A => n \in A
  <2> SUFFICES ASSUME NEW n \in 1..N, n - 1 \in A PROVE P(n) /\ n \in 0..N
    OBVIOUS
  <2>0. n \in Nat /\ k \in Nat /\ n - 1 \in 0..N /\ n \in 0..N
    BY <1>3
  <2>1. /\ f[n] \in Nat /\ g[n] \in Nat
        /\ f[n - 1] \in Nat /\ g[n - 1] \in Nat /\ c(n) \in Nat
    BY <1>3, <1>4, <2>0
  <2>2. g[n - 1] = f[n - 1] + (IF n - 1 < k THEN 0 ELSE d)
    OBVIOUS
  <2>3. /\ f[n] = f[n - 1] + c(n)
        /\ g[n] = g[n - 1] + (c(n) + (IF n = k THEN d ELSE 0))
    BY <1>4
  <2>4. CASE n < k
    <3>1. n - 1 < k /\ n # k
      BY <2>0, <2>4
    <3> QED
      BY <2>0, <2>1, <2>2, <2>3, <2>4, <3>1
  <2>5. CASE n = k
    <3>1. n - 1 < k /\ ~(n < k)
      BY <2>0, <2>5
    <3> QED
      BY <2>0, <2>1, <2>2, <2>3, <2>5, <3>1
  <2>6. CASE n > k
    <3>1. ~(n - 1 < k) /\ n # k /\ ~(n < k)
      BY <2>0, <2>6
    <3> QED
      BY <2>0, <2>1, <2>2, <2>3, <3>1
  <2> QED
    BY <2>0, <2>4, <2>5, <2>6
<1> HIDE DEF A
<1>7. N \in A
  <2>1. N \in Nat
    BY <1>3
  <2>2. \A n \in 0..N : n \in A
    BY ONLY <1>5, <1>6, <2>1, UpTo
  <2> QED
    BY <2>1, <2>2
<1>8. g[N] = f[N] + d
  BY <1>3, <1>7 DEF A
<1> QED
  BY <1>4, <1>8

\* A device more, with its registers.
LEMMA ListedAppend ==
  ASSUME NEW l \in Seq(DeviceType), NEW e \in DeviceType
  PROVE  Listed(Append(l, e)) = Listed(l) + Len(e.regs)
<1> DEFINE m == Append(l, e)
           N == Len(l)
           c(i) == Len(l[i].regs)
<1>0. /\ m \in Seq(DeviceType) /\ Len(m) = N + 1 /\ N \in Nat
      /\ \A i \in 1..N : m[i] = l[i] /\ c(i) \in Nat
      /\ m[N + 1] = e
  BY AppendProperties, RegsCount
<1> HIDE DEF m
<1>1. PICK f \in [0..Len(l) -> Nat] : Totals(f, l)
  BY ListedSteps
<1>2. PICK g \in [0..Len(m) -> Nat] : Totals(g, m)
  BY <1>0, ListedSteps
<1> DEFINE A == {n \in 0..N : g[n] = f[n]}
<1>4. /\ f[0] = 0 /\ g[0] = 0
      /\ \A n \in 1..N : f[n] = f[n - 1] + c(n)
      /\ \A n \in 1..N : g[n] = g[n - 1] + c(n)
      /\ g[N + 1] = g[N] + Len(e.regs)
      /\ Listed(l) = f[N] /\ Listed(m) = g[N + 1]
  <2>1. /\ \A n \in 1..(N + 1) : g[n] = g[n - 1] + Len(m[n].regs)
        /\ Listed(m) = g[N + 1] /\ g[0] = 0
    BY <1>0, <1>2 DEF Totals
  <2>2. \A n \in 1..N : g[n] = g[n - 1] + c(n)
    BY <1>0, <2>1
  <2>3. g[N + 1] = g[N] + Len(e.regs)
    <3>1. N + 1 \in 1..(N + 1) /\ (N + 1) - 1 = N
      BY <1>0
    <3> QED
      BY <1>0, <2>1, <3>1
  <2> QED
    BY <1>1, <2>1, <2>2, <2>3 DEF Totals
<1> HIDE DEF N, c
<1>5. 0 \in A
  BY <1>0, <1>4
<1>6. \A n \in 1..N : n - 1 \in A => n \in A
  <2> SUFFICES ASSUME NEW n \in 1..N, n - 1 \in A
               PROVE  g[n] = f[n] /\ n \in 0..N
    OBVIOUS
  <2>1. g[n - 1] = f[n - 1] /\ n \in 0..N
    BY <1>0
  <2>2. f[n] = f[n - 1] + c(n) /\ g[n] = g[n - 1] + c(n)
    BY <1>4
  <2> QED
    BY <2>1, <2>2
<1> HIDE DEF A
<1>7. N \in A
  <2>1. N \in Nat
    BY <1>0
  <2>2. \A n \in 0..N : n \in A
    BY ONLY <1>5, <1>6, <2>1, UpTo
  <2> QED
    BY <2>1, <2>2
<1>8. g[N] = f[N]
  BY <1>7 DEF A
<1> QED
  BY <1>4, <1>8 DEF m

\* The sum is a number, and an empty list has none.
LEMMA ListedIs ==
  /\ \A l \in Seq(DeviceType) : Listed(l) \in Nat
  /\ Listed(<<>>) = 0
<1>1. ASSUME NEW l \in Seq(DeviceType) PROVE Listed(l) \in Nat
  <2>1. PICK f \in [0..Len(l) -> Nat] : Totals(f, l)
    BY ListedSteps
  <2>2. Len(l) \in 0..Len(l)
    OBVIOUS
  <2> QED
    BY <2>1, <2>2 DEF Totals
<1>2. Listed(<<>>) = 0
  <2>1. <<>> \in Seq(DeviceType) /\ Len(<<>>) = 0
    OBVIOUS
  <2>2. PICK f \in [0..Len(<<>>) -> Nat] : Totals(f, <<>>)
    BY <2>1, ListedSteps
  <2> QED
    BY <2>1, <2>2 DEF Totals
<1> QED
  BY <1>1, <1>2

\* The devices that went away have no registers to lose.
LEMMA ListedCompacted ==
  ASSUME NEW l \in Seq(DeviceType), NEW S,
         \A i \in 1..Len(l) : i \notin S => l[i].regs = <<>>
  PROVE  Listed(Compacted(l, S)) = Listed(l)
<1>1. PICK f \in [0..Len(l) -> Nat] : Totals(f, l)
  BY ListedSteps
<1>2. PICK u \in [0..Len(l) -> Seq(DeviceType)] : Compacts(u, l, S)
  BY CompactedSteps
<1> DEFINE N == Len(l)
           A == {n \in 0..N : Listed(u[n]) = f[n]}
<1>3. /\ N \in Nat /\ f[0] = 0 /\ u[0] = <<>>
      /\ Listed(l) = f[N] /\ Compacted(l, S) = u[N]
  BY <1>1, <1>2 DEF Totals, Compacts
<1>4. 0 \in A
  BY <1>3, ListedIs
<1>5. \A n \in 1..N : n - 1 \in A => n \in A
  <2> SUFFICES ASSUME NEW n \in 1..N, n - 1 \in A
               PROVE  Listed(u[n]) = f[n] /\ n \in 0..N
    OBVIOUS
  <2>1. /\ n \in 0..N /\ n - 1 \in 0..N /\ Listed(u[n - 1]) = f[n - 1]
        /\ f[n] = f[n - 1] + Len(l[n].regs) /\ f[n - 1] \in Nat
    BY <1>1, <1>3 DEF Totals
  <2>2. u[n] = IF n \in S THEN Append(u[n - 1], l[n]) ELSE u[n - 1]
    BY <1>2, Zenon DEF Compacts
  <2>3. l[n] \in DeviceType /\ Len(l[n].regs) \in Nat
    BY RegsCount
  <2>4. u[n - 1] \in Seq(DeviceType)
    BY <1>2, <2>1
  <2>5. CASE n \in S
    <3>1. Listed(u[n]) = Listed(u[n - 1]) + Len(l[n].regs)
      BY <2>2, <2>3, <2>4, <2>5, ListedAppend
    <3> QED
      BY <2>1, <3>1
  <2>6. CASE n \notin S
    <3>1. Len(l[n].regs) = 0
      BY <2>6
    <3> QED
      BY <2>1, <2>2, <2>6, <3>1
  <2> QED
    BY <2>1, <2>5, <2>6
<1> HIDE DEF A
<1>6. N \in A
  <2>1. \A n \in 0..N : n \in A
    <3> HIDE DEF N
    <3>1. N \in Nat
      BY <1>3
    <3> QED
      BY ONLY <1>4, <1>5, <3>1, UpTo
  <2> QED
    BY <1>3, <2>1
<1> QED
  BY <1>3, <1>6 DEF A
-----------------------------------------------------------------------------
(* The inductive invariant. *)
Reading == {"read", "profile", "ask"}
Walking == {"verify"} \cup Reading
Running    == Walking \cup {"begin", "probe", "end", "report"}

ProgressType == [busy : BOOLEAN, found : 0..ListCapacity, registers : Nat]

Sized(l) ==
  /\ l \in Seq(DeviceType) /\ Len(l) <= ListCapacity
  /\ \A i \in 1..Len(l) : Len(l[i].regs) <= MaxRegisters
Ordered(l) ==
  \A i, j \in 1..Len(l) : i < j => l[i].slave < l[j].slave

CursorType == [step : Running \cup {"off", "leave"}, i : Nat, addr : Nat,
               gap : Nat]

ScanTyped ==
  /\ Sized(devices)
  /\ progress \in ProgressType
  /\ scanTask \in {"none", "bus", "full"}
  /\ at \in CursorType
  /\ Cardinality(DOMAIN mapped) <= AmmCapacity

\* the scan task, its step and what the status page says of it
TaskInv ==
  /\ progress.busy <=> at.step \in Running
  /\ scanTask = "none" <=> at.step = "off"
  /\ scanTask # "none" => lastScan = scanTask
  /\ at.step = "probe" => at.i \in 1..LastSlave
  /\ at.step \in Walking => scanTask = "full" /\ at.i > 0
  /\ at.step \in Reading => at.i <= Len(devices) /\ at.addr > 0

\* The devices from i on were found and not yet read.
FoundFrom(i) ==
  \A j \in 1..Len(devices) : j >= i => devices[j].regs = <<>>

\* the list is that of the slaves in their order, and a device that went
\* away has no registers and leaves the list when the scan ends
ListInv ==
  /\ Ordered(devices)
  /\ at.step = "probe" =>
       \A i \in 1..Len(devices) : devices[i].slave < at.i
  /\ at.step = "probe" => FoundFrom(1)
  /\ at.step = "verify" => FoundFrom(at.i)
  /\ at.step \in Reading => FoundFrom(at.i + 1)
  /\ \A i \in 1..Len(devices) :
       ~devices[i].active =>
         devices[i].regs = <<>> /\ at.step \in Walking /\ i < at.i

\* the counters of the status page
CountInv ==
  /\ at.step \notin Walking \cup {"begin", "probe"} /\ lastScan # "refused"
       => progress.found = Len(devices)
  /\ lastScan = "full" /\ at.step # "begin"
       => progress.registers = Listed(devices)
  /\ lastScan = "refused" => progress.found = 0 /\ progress.registers = 0

DiscoveryInv == ScanTyped /\ TaskInv /\ ListInv /\ CountInv

-----------------------------------------------------------------------------
(* One device of the list changes. *)
Replaced(m, l, k, e) ==
  /\ m \in Seq(DeviceType) /\ Len(m) = Len(l)
  /\ \A j \in 1..Len(l) : m[j] = IF j = k THEN e ELSE l[j]
  /\ Listed(m) = Listed(l) + (Len(e.regs) - Len(l[k].regs))

\* The sum differs by what the device has more.
LEMMA OneReplaced ==
  ASSUME NEW l \in Seq(DeviceType), NEW k \in 1..Len(l),
         NEW e \in DeviceType
  PROVE  Replaced([l EXCEPT ![k] = e], l, k, e)
<1> DEFINE m == [l EXCEPT ![k] = e]
           d == Len(e.regs) - Len(l[k].regs)
<1>1. /\ m \in Seq(DeviceType) /\ Len(m) = Len(l)
      /\ \A j \in 1..Len(l) : m[j] = IF j = k THEN e ELSE l[j]
  BY ChangedAt
<1>2. Len(e.regs) \in Nat /\ \A i \in 1..Len(l) : Len(l[i].regs) \in Nat
  BY RegsCount DEF DeviceType
<1> HIDE DEF m
<1>3. d \in Int
  BY <1>2
<1>4. ASSUME NEW i \in 1..Len(l)
      PROVE  Len(m[i].regs) = Len(l[i].regs) + (IF i = k THEN d ELSE 0)
  <2>1. m[i].regs = IF i = k THEN e.regs ELSE l[i].regs
    BY <1>1
  <2>2. Len(e.regs) \in Nat /\ Len(l[i].regs) \in Nat
    BY <1>2
  <2>3. CASE i = k
    BY <2>1, <2>2, <2>3
  <2>4. CASE i # k
    BY <2>1, <2>2, <2>4
  <2> QED
    BY <2>3, <2>4
<1> HIDE DEF d
<1>5. Listed(m) = Listed(l) + d
  BY <1>1, <1>3, <1>4, ListedDiffer
<1> QED
  BY <1>1, <1>5 DEF Replaced, m, d

\* The list keeps its order and its bounds.
LEMMA ReplacedFits ==
  ASSUME NEW l, NEW k \in 1..Len(l), NEW e \in DeviceType, NEW m,
         Replaced(m, l, k, e), Sized(l), Ordered(l),
         e.slave = l[k].slave, Len(e.regs) <= MaxRegisters
  PROVE  Sized(m) /\ Ordered(m)
BY DEF Replaced, Sized, Ordered

\* The bounds are numbers.
LEMMA ScanBounds ==
  /\ LastSlave \in Nat /\ LastRegister \in Nat /\ ListCapacity \in Nat
  /\ MaxRegisters \in Nat /\ AmmCapacity \in Nat /\ LastSlave > 0
BY ScanAssumption

(* The list stays as it is: the starts of a scan, its end, and what the    *)
(* web interface does to the AMM.                                          *)
LEMMA ListStays ==
  ASSUME DiscoveryInv,
         \/ StartFullScan \/ StartBusScan \/ StartFails \/ ReadsEnd
         \/ ResumePolling \/ ReportScan \/ LeaveTask
  PROVE  DiscoveryInv'
<1> USE DEF DiscoveryInv, ScanTyped, TaskInv, ListInv, CountInv, FoundFrom,
        Sized, Ordered, Walking, Reading, Running, CursorType, Off, Empty,
        MayStart, Scan
<1>1. CASE StartFullScan
  <2>1. /\ devices' = devices /\ mapped' = mapped
        /\ scanTask' = "full" /\ lastScan' = "full"
        /\ at' = [step |-> "begin", i |-> 0, addr |-> 0, gap |-> 0]
        /\ at.step = "off"
    BY <1>1 DEF StartFullScan
  <2>2. /\ progress' \in ProgressType /\ progress'.busy
    <3>1. progress' = [busy |-> TRUE, found |-> 0, registers |-> 0]
      BY ONLY <1>1 DEF StartFullScan, Empty
    <3> QED
      BY <3>1, ScanBounds DEF ProgressType
  <2>3. ScanTyped' /\ TaskInv'
    BY <2>1, <2>2
  <2>4. ListInv'
    BY <2>1
  <2>5. CountInv'
    BY <2>1
  <2> QED
    BY <2>3, <2>4, <2>5
<1>2. CASE StartBusScan
  <2>1. /\ devices' = devices /\ mapped' = mapped
        /\ scanTask' = "bus" /\ lastScan' = "bus"
        /\ at' = [step |-> "begin", i |-> 0, addr |-> 0, gap |-> 0]
        /\ at.step = "off"
    BY <1>2 DEF StartBusScan
  <2>2. /\ progress' \in ProgressType /\ progress'.busy
    BY <1>2 DEF StartBusScan, ProgressType
  <2>3. ScanTyped' /\ TaskInv'
    BY <2>1, <2>2
  <2>4. ListInv'
    BY <2>1
  <2>5. CountInv'
    BY <2>1
  <2> QED
    BY <2>3, <2>4, <2>5
<1>3. CASE StartFails
  <2>1. /\ devices' = devices /\ mapped' = mapped /\ at' = at
        /\ scanTask' = "none" /\ scanTask = "none" /\ at.step = "off"
    BY <1>3 DEF StartFails
  <2>2. CASE UNCHANGED <<lastScan, progress>>
    BY <2>1, <2>2
  <2>3. CASE lastScan' = "refused" /\ progress' = Empty
    <3>1. progress' = [busy |-> FALSE, found |-> 0, registers |-> 0]
      BY <2>3
    <3>2. progress' \in ProgressType /\ ~progress'.busy
      BY ONLY <3>1, ScanBounds DEF ProgressType
    <3>3. ScanTyped' /\ TaskInv'
      BY <2>1, <2>3, <3>2
    <3>4. ListInv'
      BY <2>1
    <3>5. CountInv'
      BY <2>1, <2>3, <3>1
    <3> QED
      BY <3>3, <3>4, <3>5
  <2> QED
    BY <1>3, <2>2, <2>3 DEF StartFails
<1>4. CASE ReadsEnd
  <2>1. /\ at.step = "read" /\ at' = [at EXCEPT !.step = "profile", !.addr = 1]
        /\ UNCHANGED <<devices, progress, scanTask, lastScan, mapped>>
    BY <1>4 DEF ReadsEnd
  <2>2. /\ at' = [step |-> "profile", i |-> at.i, addr |-> 1, gap |-> at.gap]
        /\ at.i \in Nat /\ at.gap \in Nat
    BY <2>1
  <2>3. ScanTyped'
    BY <2>1, <2>2
  <2>4. TaskInv'
    BY <2>1, <2>2
  <2>5. ListInv' /\ CountInv'
    BY <2>1, <2>2
  <2> QED
    BY <2>3, <2>4, <2>5
<1>5. CASE ResumePolling
  BY <1>5 DEF ResumePolling
<1>6. CASE ReportScan
  <2>1. progress' = [progress EXCEPT !.busy = FALSE]
    BY <1>6 DEF ReportScan
  <2>2. /\ progress' \in ProgressType /\ ~progress'.busy
        /\ progress'.found = progress.found
        /\ progress'.registers = progress.registers
    BY <2>1 DEF ProgressType
  <2>3. ScanTyped' /\ TaskInv'
    BY <1>6, <2>2 DEF ReportScan
  <2>4. ListInv' /\ CountInv'
    BY <1>6, <2>2 DEF ReportScan
  <2> QED
    BY <2>3, <2>4
<1>7. CASE LeaveTask
  BY <1>7 DEF LeaveTask
<1> QED
  BY <1>1, <1>2, <1>3, <1>4, <1>5, <1>6, <1>7

\* A scan begins with an empty list.
LEMMA ScanBeginsKeeps ==
  ASSUME DiscoveryInv, ScanBegins
  PROVE  DiscoveryInv'
<1> USE DEF DiscoveryInv, ScanTyped, TaskInv, ListInv, CountInv, FoundFrom,
        Sized, Ordered, Walking, Reading, Running, CursorType, Scan
<1>1. /\ devices' = <<>> /\ mapped' = mapped /\ lastScan' = lastScan
      /\ scanTask' = scanTask /\ scanTask # "none" /\ lastScan = scanTask
      /\ at.step = "begin" /\ progress.busy
      /\ at' = [at EXCEPT !.step = "probe", !.i = 1]
      /\ progress' = IF scanTask = "full"
                     THEN [progress EXCEPT !.registers = 0] ELSE progress
  BY DEF ScanBegins
<1>2. /\ at' = [step |-> "probe", i |-> 1, addr |-> at.addr, gap |-> at.gap]
      /\ at.addr \in Nat /\ at.gap \in Nat
  BY <1>1
<1>3. /\ progress' \in ProgressType /\ progress'.busy
      /\ scanTask = "full" => progress'.registers = 0
  BY <1>1 DEF ProgressType
<1>4. ScanTyped'
  BY <1>1, <1>2, <1>3, ScanBounds
<1>5. TaskInv'
  BY <1>1, <1>2, <1>3, ScanBounds
<1>6. ListInv'
  BY <1>1, <1>2
<1>7. CountInv'
  BY <1>1, <1>2, <1>3, ListedIs
<1> QED
  BY <1>4, <1>5, <1>6, <1>7

\* A slave that answers is appended, with no register yet.
LEMMA ProbeKeeps ==
  ASSUME DiscoveryInv, ProbeSlave
  PROVE  DiscoveryInv'
<1> USE DEF DiscoveryInv, ScanTyped, TaskInv, ListInv, CountInv, FoundFrom,
        Sized, Ordered, Walking, Reading, Running, CursorType, Scan
<1>1. /\ mapped' = mapped /\ lastScan' = lastScan /\ scanTask' = scanTask
      /\ scanTask # "none" /\ lastScan = scanTask
      /\ at.step = "probe" /\ at.i \in 1..LastSlave /\ progress.busy
      /\ progress' = [progress EXCEPT !.found = Len(devices')]
      /\ at' = IF at.i < LastSlave THEN [at EXCEPT !.i = @ + 1]
               ELSE AfterProbes
  BY DEF ProbeSlave
<1> DEFINE Found(l) == /\ Sized(l) /\ Ordered(l)
                       /\ \A i \in 1..Len(l) :
                            /\ l[i].slave \in Nat /\ l[i].slave <= at.i
                            /\ l[i].active /\ l[i].regs = <<>>
                       /\ Listed(l) = Listed(devices)
<1>2. Found(devices')
  <2>1. CASE devices' = devices
    <3>1. \A i \in 1..Len(devices) :
            /\ devices[i].slave \in Nat /\ devices[i].slave <= at.i
            /\ devices[i].active /\ devices[i].regs = <<>>
      <4>1. \A i \in 1..Len(devices) : devices[i] \in DeviceType
        BY RegsCount
      <4>2. \A i \in 1..Len(devices) :
              /\ devices[i].slave < at.i /\ devices[i].active
              /\ devices[i].regs = <<>>
        BY <1>1
      <4>3. at.i \in Nat /\ \A x \in DeviceType : x.slave \in Nat
        BY <1>1, ScanBounds DEF DeviceType
      <4> QED
        BY ONLY <4>1, <4>2, <4>3
    <3> QED
      BY <2>1, <3>1
  <2>2. ASSUME NEW e \in DeviceType, devices' = Append(devices, e),
               e.slave = at.i, e.active, e.regs = <<>>,
               Len(devices) < ListCapacity
        PROVE  Found(devices')
    <3>1. /\ devices' \in Seq(DeviceType)
          /\ Len(devices') = Len(devices) + 1
          /\ \A i \in 1..Len(devices) : devices'[i] = devices[i]
          /\ devices'[Len(devices) + 1] = e
      BY <2>2, AppendProperties
    <3>2. Listed(devices') = Listed(devices) + 0
      BY <2>2, ListedAppend
    <3>3. /\ Len(devices) \in Nat /\ at.i \in Nat
          /\ \A i \in 1..Len(devices) :
               /\ devices[i].slave \in Nat /\ devices[i].slave < at.i
               /\ devices[i].active /\ devices[i].regs = <<>>
      <4>1. \A i \in 1..Len(devices) : devices[i] \in DeviceType
        BY RegsCount
      <4>2. \A i \in 1..Len(devices) :
              /\ devices[i].slave < at.i /\ devices[i].active
              /\ devices[i].regs = <<>>
        BY <1>1
      <4>3. at.i \in Nat /\ \A x \in DeviceType : x.slave \in Nat
        BY <1>1, ScanBounds DEF DeviceType
      <4> QED
        BY ONLY <4>1, <4>2, <4>3
    <3>4. ASSUME NEW i \in 1..Len(devices')
          PROVE  \/ i \in 1..Len(devices) /\ devices'[i] = devices[i]
                 \/ i = Len(devices) + 1 /\ devices'[i] = e
      BY <3>1, <3>3
    <3>5. \A i \in 1..Len(devices') :
            /\ devices'[i].slave \in Nat /\ devices'[i].slave <= at.i
            /\ devices'[i].active /\ devices'[i].regs = <<>>
      BY <2>2, <3>3, <3>4
    <3>6. Ordered(devices')
      BY <2>2, <3>3, <3>4
    <3>7. Sized(devices')
      BY <2>2, <3>1, <3>3, <3>5, ScanBounds
    <3>8. Listed(devices') = Listed(devices)
      <4>1. devices \in Seq(DeviceType)
        OBVIOUS
      <4> QED
        BY <3>2, <4>1, ListedIs
    <3> QED
      BY <3>5, <3>6, <3>7, <3>8
  <2>3. \/ devices' = devices
        \/ \E e \in DeviceType :
             /\ devices' = Append(devices, e) /\ Len(devices) < ListCapacity
             /\ e.slave = at.i /\ e.active /\ e.regs = <<>>
    <3>1. PICK answer \in {"data", "exceptions", "silent"} :
            devices' = IF answer = "silent" \/ Len(devices) = ListCapacity
                       THEN devices
                       ELSE Append(devices,
                              [slave |-> at.i, active |-> TRUE, regs |-> <<>>,
                               probed |-> IF answer = "data" THEN 1 ELSE 0])
      BY DEF ProbeSlave
    <3>2. CASE answer # "silent" /\ Len(devices) # ListCapacity
      <4> DEFINE e == [slave |-> at.i, active |-> TRUE, regs |-> <<>>,
                       probed |-> IF answer = "data" THEN 1 ELSE 0]
      <4>1. /\ e \in DeviceType
            /\ e.slave = at.i /\ e.active /\ e.regs = <<>>
        BY <1>1 DEF DeviceType
      <4>2. devices' = Append(devices, e) /\ Len(devices) < ListCapacity
        BY <3>1, <3>2, ScanBounds
      <4> HIDE DEF e
      <4> QED
        BY <4>1, <4>2
    <3>3. CASE ~(answer # "silent" /\ Len(devices) # ListCapacity)
      BY <3>1, <3>3
    <3> QED
      BY <3>2, <3>3
  <2> HIDE DEF Found
  <2> QED
    BY ONLY <2>1, <2>2, <2>3
<1>3. \/ /\ at.i < LastSlave
         /\ at' = [step |-> "probe", i |-> at.i + 1, addr |-> at.addr,
                   gap |-> at.gap]
         /\ at.addr \in Nat /\ at.gap \in Nat
      \/ /\ scanTask = "full"
         /\ at' = [step |-> "verify", i |-> 1, addr |-> 0, gap |-> 0]
      \/ at' = [step |-> "end", i |-> 0, addr |-> 0, gap |-> 0]
  BY <1>1 DEF AfterProbes, Off
<1>4. /\ progress' \in ProgressType /\ progress'.busy
      /\ progress'.found = Len(devices')
      /\ progress'.registers = progress.registers
  BY <1>1, <1>2 DEF ProgressType
<1>5. ScanTyped'
  BY <1>1, <1>2, <1>3, <1>4, ScanBounds
<1>6. TaskInv'
  BY <1>1, <1>3, <1>4, ScanBounds
<1>7. ListInv'
  <2>1. at.i \in Nat
    BY <1>1, ScanBounds
  <2> QED
    BY <1>2, <1>3, <2>1
<1>8. CountInv'
  BY <1>1, <1>2, <1>4
<1> QED
  BY <1>5, <1>6, <1>7, <1>8

\* A device that does not answer any more goes away; one that does is read
\* from the first address.  It has no registers yet.
LEMMA VerifyKeeps ==
  ASSUME DiscoveryInv, VerifyDevice
  PROVE  DiscoveryInv'
<1> USE DEF DiscoveryInv, ScanTyped, TaskInv, ListInv, CountInv, FoundFrom,
        Walking, Reading, Running, CursorType, Scan
<1> DEFINE k == at.i
           Gone ==
             /\ devices' = [devices EXCEPT ![k].active = FALSE,
                                           ![k].regs = <<>>]
             /\ progress' = [progress EXCEPT !.found = IF @ > 0 THEN @ - 1
                                                       ELSE 0]
             /\ at' = [at EXCEPT !.i = @ + 1]
           There(count) ==
             /\ devices' = [devices EXCEPT ![k].probed = count,
                                           ![k].regs = <<>>]
             /\ at' = [at EXCEPT !.step = "read", !.addr = 1, !.gap = 0]
             /\ progress' = progress
<1>1. /\ mapped' = mapped /\ lastScan' = lastScan /\ scanTask' = scanTask
      /\ scanTask = "full" /\ lastScan = "full" /\ progress.busy
      /\ at.step = "verify" /\ k \in 1..Len(devices)
      /\ Sized(devices) /\ Ordered(devices)
      /\ devices \in Seq(DeviceType) /\ devices[k] \in DeviceType
      /\ devices[k].regs = <<>>
  <2>1. at.i \in Nat /\ at.i > 0 /\ at.i <= Len(devices)
    BY DEF VerifyDevice
  <2> QED
    BY <2>1 DEF VerifyDevice, Sized
<1>2. CASE Gone
  <2> DEFINE e == [devices[k] EXCEPT !.active = FALSE, !.regs = <<>>]
  <2>1. /\ e \in DeviceType /\ e.slave = devices[k].slave /\ ~e.active
        /\ e.regs = <<>>
    BY <1>1 DEF DeviceType
  <2>2. devices' = [devices EXCEPT ![k] = e]
    BY <1>1, <1>2
  <2> HIDE DEF e
  <2>3. Replaced(devices', devices, k, e)
    BY <1>1, <2>1, <2>2, OneReplaced
  <2>4. Sized(devices') /\ Ordered(devices')
    BY <1>1, <2>1, <2>3, ReplacedFits, ScanBounds
  <2>5. Listed(devices') = Listed(devices)
    BY <1>1, <2>1, <2>3, ListedIs DEF Replaced
  <2>6. /\ at' = [step |-> "verify", i |-> k + 1, addr |-> at.addr,
                  gap |-> at.gap]
        /\ at.addr \in Nat /\ at.gap \in Nat /\ k \in Nat
    BY <1>1, <1>2
  <2>7. /\ progress' \in ProgressType /\ progress'.busy
        /\ progress'.registers = progress.registers
    <3> DEFINE n == IF progress.found > 0 THEN progress.found - 1 ELSE 0
    <3>1. progress \in ProgressType /\ n \in 0..ListCapacity
      BY ScanBounds DEF ProgressType
    <3>2. progress' = [progress EXCEPT !.found = n]
      BY <1>2
    <3> HIDE DEF n
    <3> QED
      BY <1>1, <3>1, <3>2 DEF ProgressType
  <2>8. ScanTyped'
    BY <1>1, <2>4, <2>6, <2>7
  <2>9. TaskInv'
    BY <1>1, <2>6, <2>7
  <2>10. /\ Len(devices') = Len(devices)
         /\ \A j \in 1..Len(devices) :
              devices'[j] = IF j = k THEN e ELSE devices[j]
    BY <2>3 DEF Replaced
  <2>11. ListInv'
    <3>1. \A j \in 1..Len(devices) :
            /\ j >= k => devices[j].regs = <<>>
            /\ ~devices[j].active => devices[j].regs = <<>> /\ j < k
      BY <1>1
    <3>2. \A j \in 1..Len(devices') :
            /\ j >= k + 1 => devices'[j].regs = <<>>
            /\ ~devices'[j].active => devices'[j].regs = <<>> /\ j < k + 1
      BY ONLY <1>1, <2>1, <2>6, <2>10, <3>1
    <3> QED
      BY ONLY <2>4, <2>6, <3>2 DEF ListInv, FoundFrom, Walking
  <2>12. CountInv'
    BY <1>1, <2>5, <2>6, <2>7
  <2> QED
    BY <2>8, <2>9, <2>11, <2>12
<1>3. ASSUME NEW count \in 0..2, There(count)
      PROVE  DiscoveryInv'
  <2> DEFINE e == [devices[k] EXCEPT !.probed = count, !.regs = <<>>]
  <2>1. /\ e \in DeviceType /\ e.slave = devices[k].slave
        /\ e.active = devices[k].active /\ e.regs = <<>>
    BY <1>1 DEF DeviceType
  <2>2. devices' = [devices EXCEPT ![k] = e]
    BY <1>1, <1>3
  <2> HIDE DEF e
  <2>3. Replaced(devices', devices, k, e)
    BY <1>1, <2>1, <2>2, OneReplaced
  <2>4. Sized(devices') /\ Ordered(devices')
    BY <1>1, <2>1, <2>3, ReplacedFits, ScanBounds
  <2>5. Listed(devices') = Listed(devices)
    BY <1>1, <2>1, <2>3, ListedIs DEF Replaced
  <2>6. /\ at' = [step |-> "read", i |-> k, addr |-> 1, gap |-> 0]
        /\ k \in Nat
    BY <1>1, <1>3
  <2>7. /\ Len(devices') = Len(devices)
        /\ \A j \in 1..Len(devices) :
             devices'[j] = IF j = k THEN e ELSE devices[j]
    BY <2>3 DEF Replaced
  <2>8. ScanTyped'
    BY <1>1, <1>3, <2>4, <2>6
  <2>9. TaskInv'
    BY <1>1, <1>3, <2>6, <2>7
  <2>10. ListInv'
    <3>1. \A j \in 1..Len(devices) :
            /\ j >= k => devices[j].regs = <<>>
            /\ ~devices[j].active => devices[j].regs = <<>> /\ j < k
      BY <1>1
    <3>2. e.active
      BY <1>1, <2>1, <3>1
    <3>3. \A j \in 1..Len(devices') :
            /\ j >= k + 1 => devices'[j].regs = <<>>
            /\ ~devices'[j].active => devices'[j].regs = <<>> /\ j < k
      BY ONLY <1>1, <2>6, <2>7, <3>1, <3>2
    <3> QED
      BY ONLY <2>4, <2>6, <3>3 DEF ListInv, FoundFrom, Walking
  <2>11. CountInv'
    BY <1>1, <1>3, <2>5, <2>6
  <2> QED
    BY <2>8, <2>9, <2>10, <2>11
<1> QED
  <2>1. Gone \/ \E count \in 0..2 : There(count)
    <3>1. ASSUME NEW count \in IF devices[k].probed = 0 THEN {0, 1}
                               ELSE {1, 2}
          PROVE  count \in 0..2
      OBVIOUS
    <3> QED
      BY ONLY <3>1, VerifyDevice DEF VerifyDevice
  <2> HIDE DEF Gone, There
  <2> QED
    BY ONLY <1>2, <1>3, <2>1

\* What a block adds to a device has addresses of the range and room.
LEMMA BlockFits ==
  ASSUME NEW dev \in DeviceType, Len(dev.regs) <= MaxRegisters,
         NEW a \in Nat, NEW n \in Nat, a >= 1, a + n <= LastRegister + 2
  PROVE  /\ Block(dev, a, n) \in Seq(RegisterType)
         /\ Len(dev.regs) + Len(Block(dev, a, n)) <= MaxRegisters
<1> DEFINE room == Lower(n, MaxRegisters - Len(dev.regs))
<1>1. Len(dev.regs) \in Nat /\ dev.regs \in Seq(RegisterType)
  BY DEF DeviceType
<1>2. room \in Nat /\ room <= n /\ Len(dev.regs) + room <= MaxRegisters
  <2> DEFINE r == Len(dev.regs)
  <2>1. r \in Nat /\ r <= MaxRegisters /\ MaxRegisters \in Nat
    BY <1>1, ScanBounds
  <2>2. room = IF n < MaxRegisters - r THEN n ELSE MaxRegisters - r
    BY DEF Lower
  <2> HIDE DEF r, room
  <2>3. room \in Nat /\ room <= n /\ r + room <= MaxRegisters
    BY ONLY <2>1, <2>2, n \in Nat
  <2> QED
    BY <2>3 DEF r
<1> HIDE DEF room
<1>3. \A j \in 1..room : Register(a + j - 1) \in RegisterType
  BY <1>2, ScanBounds DEF Register, RegisterType
<1>4. /\ [j \in 1..room |-> Register(a + j - 1)] \in Seq(RegisterType)
      /\ Len([j \in 1..room |-> Register(a + j - 1)]) = room
  BY <1>2, <1>3
<1>5. Block(dev, a, n) = [j \in 1..room |-> Register(a + j - 1)]
  BY DEF Block, room
<1> QED
  BY <1>2, <1>4, <1>5

\* The scan goes on with the device, or with the next.
GoesOn(from, to) ==
  /\ to \in CursorType
  /\ \/ to.step \in Reading /\ to.i = from.i /\ to.addr > 0
     \/ to.step = "verify" /\ to.i = from.i + 1

\* The ways the scan goes on.
LEMMA CursorSteps ==
  ASSUME NEW c \in CursorType, c.step \in Reading, c.addr > 0,
         NEW d, NEW n \in Nat, NEW g \in Nat,
         \/ d = [c EXCEPT !.step = "profile", !.addr = 1]
         \/ d = [c EXCEPT !.step = "verify", !.i = @ + 1]
         \/ d = [c EXCEPT !.addr = @ + n, !.gap = g]
         \/ d = [c EXCEPT !.addr = @ + n]
  PROVE  GoesOn(c, d)
<1> USE DEF CursorType, Running, Walking, Reading
<1>1. CASE d = [c EXCEPT !.step = "profile", !.addr = 1]
  <2>1. d = [step |-> "profile", i |-> c.i, addr |-> 1, gap |-> c.gap]
    BY <1>1
  <2> QED
    BY <2>1 DEF GoesOn
<1>2. CASE d = [c EXCEPT !.step = "verify", !.i = @ + 1]
  <2>1. d = [step |-> "verify", i |-> c.i + 1, addr |-> c.addr,
             gap |-> c.gap]
    BY <1>2
  <2> QED
    BY <2>1 DEF GoesOn
<1>3. CASE d = [c EXCEPT !.addr = @ + n, !.gap = g]
  <2>1. d = [step |-> c.step, i |-> c.i, addr |-> c.addr + n, gap |-> g]
    BY <1>3
  <2> QED
    BY <2>1 DEF GoesOn
<1>4. CASE d = [c EXCEPT !.addr = @ + n]
  <2>1. d = [step |-> c.step, i |-> c.i, addr |-> c.addr + n,
             gap |-> c.gap]
    BY <1>4
  <2> QED
    BY <2>1 DEF GoesOn
<1> QED
  BY <1>1, <1>2, <1>3, <1>4

\* The ways it goes on with the registers of the profile.
LEMMA ProfileSteps ==
  ASSUME NEW c \in CursorType, c.step \in Reading, c.addr > 0, NEW d,
         \/ d = [c EXCEPT !.step = "verify", !.i = @ + 1]
         \/ d = [c EXCEPT !.addr = @ + 1]
         \/ d = [c EXCEPT !.step = "ask"]
         \/ d = [c EXCEPT !.step = "profile", !.addr = @ + 1]
  PROVE  GoesOn(c, d)
<1> USE DEF CursorType, Running, Walking, Reading
<1>1. CASE d = [c EXCEPT !.step = "verify", !.i = @ + 1]
  <2>1. d = [step |-> "verify", i |-> c.i + 1, addr |-> c.addr,
             gap |-> c.gap]
    BY <1>1
  <2> QED
    BY <2>1 DEF GoesOn
<1>2. CASE d = [c EXCEPT !.addr = @ + 1]
  <2>1. d = [step |-> c.step, i |-> c.i, addr |-> c.addr + 1,
             gap |-> c.gap]
    BY <1>2
  <2> QED
    BY <2>1 DEF GoesOn
<1>3. CASE d = [c EXCEPT !.step = "ask"]
  <2>1. d = [step |-> "ask", i |-> c.i, addr |-> c.addr, gap |-> c.gap]
    BY <1>3
  <2> QED
    BY <2>1 DEF GoesOn
<1>4. CASE d = [c EXCEPT !.step = "profile", !.addr = @ + 1]
  <2>1. d = [step |-> "profile", i |-> c.i, addr |-> c.addr + 1,
             gap |-> c.gap]
    BY <1>4
  <2> QED
    BY <2>1 DEF GoesOn
<1> QED
  BY <1>1, <1>2, <1>3, <1>4

\* The scan task goes on without a register more.
LEMMA CursorMoves ==
  ASSUME DiscoveryInv, at.step \in Reading, GoesOn(at, at'),
         UNCHANGED <<devices, progress, scanTask, lastScan, mapped>>
  PROVE  DiscoveryInv'
<1> USE DEF DiscoveryInv, ScanTyped, TaskInv, ListInv, CountInv, FoundFrom,
        Walking, Reading, Running
<1>1. /\ at.i \in Nat /\ at.i > 0 /\ at.i <= Len(devices)
      /\ scanTask = "full" /\ progress.busy
  BY DEF CursorType
<1>2. ScanTyped'
  BY DEF GoesOn
<1>3. TaskInv'
  BY <1>1 DEF GoesOn
<1>4. ListInv'
  BY <1>1 DEF GoesOn
<1>5. CountInv'
  BY <1>1 DEF GoesOn
<1> QED
  BY <1>2, <1>3, <1>4, <1>5

\* The scan task goes on with registers more, of which it keeps count.
LEMMA RegistersAdded ==
  ASSUME DiscoveryInv, at.step \in Reading, GoesOn(at, at'),
         at'.step # "verify", UNCHANGED <<scanTask, lastScan, mapped>>,
         NEW dev \in DeviceType, NEW block \in Seq(RegisterType),
         dev.slave = devices[at.i].slave, dev.regs = devices[at.i].regs,
         dev.active = devices[at.i].active,
         Len(dev.regs) + Len(block) <= MaxRegisters,
         ScanAppends(dev, block)
  PROVE  DiscoveryInv'
<1> USE DEF DiscoveryInv, ScanTyped, TaskInv, ListInv, CountInv, FoundFrom,
        Walking, Reading, Running
<1> DEFINE k == at.i
           e == [dev EXCEPT !.regs = @ \o block]
<1>1. /\ k \in Nat /\ k > 0 /\ k <= Len(devices) /\ k \in 1..Len(devices)
      /\ scanTask = "full" /\ lastScan = "full" /\ progress.busy
      /\ Sized(devices) /\ Ordered(devices) /\ devices \in Seq(DeviceType)
  <2>1. k \in Nat /\ k > 0 /\ k <= Len(devices)
    BY DEF CursorType
  <2> QED
    BY <2>1 DEF Sized
<1>2. /\ at'.step \in Reading /\ at'.i = k /\ at'.addr > 0
      /\ at' \in CursorType
  BY DEF GoesOn
<1>3. /\ e \in DeviceType /\ e.slave = dev.slave /\ e.active = dev.active
      /\ e.regs = dev.regs \o block
      /\ Len(e.regs) = Len(dev.regs) + Len(block)
      /\ Len(dev.regs) \in Nat /\ Len(block) \in Nat
  <2>1. dev.regs \in Seq(RegisterType)
    BY DEF DeviceType
  <2>2. /\ dev.regs \o block \in Seq(RegisterType)
        /\ Len(dev.regs \o block) = Len(dev.regs) + Len(block)
    BY <2>1, ConcatProperties
  <2>3. /\ e \in DeviceType /\ e.slave = dev.slave
        /\ e.regs = dev.regs \o block
    BY <2>2 DEF DeviceType
  <2>4. e.active = dev.active
    BY DEF DeviceType
  <2> HIDE DEF e
  <2> QED
    BY <2>1, <2>2, <2>3, <2>4
<1>4. devices' = [devices EXCEPT ![k] = e]
  BY DEF ScanAppends
<1> HIDE DEF e
<1>5. Replaced(devices', devices, k, e)
  BY <1>1, <1>3, <1>4, OneReplaced
<1>6. Sized(devices') /\ Ordered(devices')
  BY <1>1, <1>3, <1>5, ReplacedFits
<1>7. Listed(devices') = Listed(devices) + Len(block)
  BY <1>1, <1>3, <1>5, ListedIs DEF Replaced
<1>8. /\ progress' = [progress EXCEPT !.registers = @ + Len(block)]
      /\ progress' \in ProgressType /\ progress'.busy
      /\ progress'.found = progress.found
      /\ progress'.registers = progress.registers + Len(block)
  <2>1. progress' = [progress EXCEPT !.registers = @ + Len(block)]
    BY DEF ScanAppends
  <2>2. progress.registers + Len(block) \in Nat
    BY <1>3 DEF ProgressType
  <2> QED
    BY <1>1, <2>1, <2>2 DEF ProgressType
<1>9. /\ Len(devices') = Len(devices)
      /\ \A j \in 1..Len(devices) :
           devices'[j] = IF j = k THEN e ELSE devices[j]
  BY <1>5 DEF Replaced
<1>10. ScanTyped'
  BY <1>2, <1>6, <1>8
<1>11. TaskInv'
  BY <1>1, <1>2, <1>8, <1>9
<1>12. e.active
  BY <1>1, <1>3
<1>13. ListInv'
  <2>1. \A j \in 1..Len(devices) :
          /\ j >= k + 1 => devices[j].regs = <<>>
          /\ ~devices[j].active => devices[j].regs = <<>> /\ j < k
    BY <1>1
  <2>2. \A j \in 1..Len(devices') :
          /\ j >= k + 1 => devices'[j].regs = <<>>
          /\ ~devices'[j].active => devices'[j].regs = <<>> /\ j < k
    BY ONLY <1>1, <1>9, <1>12, <2>1
  <2> QED
    BY ONLY <1>2, <1>6, <2>2
    DEF ListInv, FoundFrom, Walking
<1>14. CountInv'
  BY <1>1, <1>2, <1>7, <1>8
<1> QED
  BY <1>10, <1>11, <1>13, <1>14

\* The device that the scan is at.
LEMMA DeviceAt ==
  ASSUME DiscoveryInv, at.step \in Reading
  PROVE  /\ at \in CursorType /\ at.addr > 0
         /\ devices[at.i] \in DeviceType
         /\ devices[at.i].regs \in Seq(RegisterType)
         /\ Len(devices[at.i].regs) \in Nat
         /\ Len(devices[at.i].regs) <= MaxRegisters
<1>1. at \in CursorType /\ at.addr > 0 /\ at.i \in 1..Len(devices)
  BY DEF DiscoveryInv, ScanTyped, TaskInv, Walking, CursorType
<1>2. Sized(devices)
  BY DEF DiscoveryInv, ScanTyped
<1> QED
  BY <1>1, <1>2, RegsCount DEF Sized

\* A block is read, or an address that does not answer is skipped.
LEMMA ReadBlockKeeps ==
  ASSUME DiscoveryInv, ReadBlock
  PROVE  DiscoveryInv'
<1> DEFINE dev   == devices[at.i]
           left  == LastRegister - at.addr + 1
           size  == Lower(dev.probed, left)
           sizes == IF dev.regs # <<>> /\ size > 0 THEN {size} ELSE {1, 2}
           Skip(gap) ==
             /\ at' = IF gap >= MaxEmptyGap /\ dev.regs # <<>>
                      THEN [at EXCEPT !.step = "profile", !.addr = 1]
                      ELSE [at EXCEPT !.addr = @ + 1, !.gap = gap]
             /\ UNCHANGED <<devices, progress>>
           Read(n) ==
             /\ ScanAppends([dev EXCEPT !.probed = n],
                            Block(dev, at.addr, Lower(n, left)))
             /\ at' = [at EXCEPT !.addr = @ + n, !.gap = 0]
<1>1. /\ at.step = "read" /\ at.step \in Reading
      /\ UNCHANGED <<scanTask, lastScan, mapped>>
      /\ ~ReadsDone(dev)
      /\ \/ \E n \in sizes : Read(n)
         \/ Skip(IF dev.regs = <<>> THEN at.gap ELSE at.gap + 1)
  BY ONLY ReadBlock DEF ReadBlock, Scan, Reading
<1>2. /\ at \in CursorType /\ at.addr > 0
      /\ dev \in DeviceType /\ dev.regs \in Seq(RegisterType)
      /\ Len(dev.regs) \in Nat /\ Len(dev.regs) <= MaxRegisters
  BY <1>1, DeviceAt
<1>3. at.addr \in Nat /\ at.gap \in Nat /\ at.addr <= LastRegister
  <2>1. at.addr \in Nat /\ at.gap \in Nat /\ LastRegister \in Nat
    BY <1>2, ScanBounds DEF CursorType
  <2>2. ~(at.addr > LastRegister)
    BY <1>1 DEF ReadsDone
  <2> QED
    BY ONLY <2>1, <2>2
<1>4. ASSUME NEW gap \in Nat, Skip(gap) PROVE DiscoveryInv'
  <2>1. GoesOn(at, at')
    <3>1. \/ at' = [at EXCEPT !.step = "profile", !.addr = 1]
          \/ at' = [at EXCEPT !.addr = @ + 1, !.gap = gap]
      BY <1>4
    <3> HIDE DEF Skip
    <3>2. \A n, g \in Nat : at' = [at EXCEPT !.addr = @ + n, !.gap = g]
                            => GoesOn(at, at')
      BY <1>1, <1>2, CursorSteps
    <3>3. CASE at' = [at EXCEPT !.step = "profile", !.addr = 1]
      BY <1>1, <1>2, <1>4, <3>3, CursorSteps
    <3> QED
      BY <3>1, <3>2, <3>3
  <2> QED
    BY <1>1, <1>4, <2>1, CursorMoves
<1>5. ASSUME NEW n \in sizes, Read(n) PROVE DiscoveryInv'
  <2>1. left \in Nat /\ left >= 1
    BY <1>3, ScanBounds
  <2>2. n \in 1..2
    <3>1. dev.probed \in 0..2
      BY <1>2 DEF DeviceType
    <3> HIDE DEF left
    <3>2. size \in 0..2
      BY <2>1, <3>1 DEF Lower
    <3> HIDE DEF size
    <3> QED
      BY <3>2
  <2> DEFINE lot   == Lower(n, left)
             block == Block(dev, at.addr, lot)
             read  == [dev EXCEPT !.probed = n]
  <2>3. lot \in Nat /\ at.addr + lot <= LastRegister + 2
    BY <1>3, <2>1, <2>2, ScanBounds DEF Lower
  <2> HIDE DEF lot
  <2>4. /\ block \in Seq(RegisterType)
        /\ Len(dev.regs) + Len(block) <= MaxRegisters
    <3>1. at.addr >= 1
      BY <1>2, <1>3
    <3> HIDE DEF dev
    <3> QED
      BY <1>2, <1>3, <2>3, <3>1, BlockFits
  <2>5. /\ read \in DeviceType /\ read.slave = dev.slave
        /\ read.regs = dev.regs /\ read.active = dev.active
    BY <1>2, <2>2 DEF DeviceType
  <2>6. ScanAppends(read, block)
    BY <1>5 DEF lot
  <2>7. at' = [at EXCEPT !.addr = @ + n, !.gap = 0]
    BY <1>5
  <2>8. GoesOn(at, at') /\ at'.step # "verify"
    <3>1. n \in Nat
      BY <2>2
    <3>2. at'.step = "read"
      BY <1>1, <1>2, <2>7 DEF CursorType
    <3> QED
      BY <1>1, <1>2, <2>7, <3>1, <3>2, CursorSteps
  <2> HIDE DEF block, read
  <2> QED
    BY <1>1, <2>4, <2>5, <2>6, <2>8, RegistersAdded
<1> QED
  <2>1. (IF dev.regs = <<>> THEN at.gap ELSE at.gap + 1) \in Nat
    BY <1>3
  <2> HIDE DEF Read, Skip, sizes
  <2> QED
    BY <1>1, <1>4, <1>5, <2>1

\* A register of the profile is in the list or is asked for.
LEMMA NextProfiledKeeps ==
  ASSUME DiscoveryInv, NextProfiled
  PROVE  DiscoveryInv'
<1>1. /\ at.step = "profile"
      /\ UNCHANGED <<devices, progress, scanTask, lastScan, mapped>>
  BY ONLY NextProfiled DEF NextProfiled, Scan
<1>2. at.step \in Reading
  BY <1>1 DEF Reading
<1>3. at \in CursorType /\ at.addr > 0
  BY <1>2, DeviceAt
<1>4. \/ at' = [at EXCEPT !.step = "verify", !.i = @ + 1]
      \/ at' = [at EXCEPT !.addr = @ + 1]
      \/ at' = [at EXCEPT !.step = "ask"]
  BY DEF NextProfiled
<1>5. GoesOn(at, at')
  BY <1>2, <1>3, <1>4, ProfileSteps
<1> QED
  BY <1>1, <1>2, <1>5, CursorMoves

\* A register of the profile is read, or it does not answer.
LEMMA ReadProfiledKeeps ==
  ASSUME DiscoveryInv, ReadProfiled
  PROVE  DiscoveryInv'
<1> DEFINE dev == devices[at.i]
           lot == Profile[dev.slave]
           a   == lot[at.addr][1]
           n   == lot[at.addr][2]
           Reads == at.addr <= Len(lot) /\ ScanAppends(dev, Block(dev, a, n))
<1>1. /\ at.step = "ask" /\ UNCHANGED <<scanTask, lastScan, mapped>>
      /\ at' = [at EXCEPT !.step = "profile", !.addr = @ + 1]
  BY ONLY ReadProfiled DEF ReadProfiled, Scan
<1>2. at.step \in Reading
  BY <1>1 DEF Reading
<1>3. /\ at \in CursorType /\ at.addr > 0
      /\ dev \in DeviceType /\ dev.regs \in Seq(RegisterType)
      /\ Len(dev.regs) \in Nat /\ Len(dev.regs) <= MaxRegisters
  BY <1>2, DeviceAt
<1>4. at.addr \in Nat /\ dev.slave \in 1..LastSlave
  BY <1>3 DEF CursorType, DeviceType
<1>5. lot \in Seq((1..LastRegister) \X Nat)
  BY <1>4, ProfileAssumption
<1>6. Reads \/ UNCHANGED <<devices, progress>>
  BY DEF ReadProfiled
<1>7. GoesOn(at, at') /\ at'.step = "profile"
  <2>1. GoesOn(at, at')
    BY <1>1, <1>2, <1>3, ProfileSteps
  <2> QED
    BY <1>1, <1>3, <2>1 DEF CursorType
<1>8. CASE UNCHANGED <<devices, progress>>
  BY <1>1, <1>2, <1>7, <1>8, CursorMoves
<1>9. CASE Reads
  <2>1. at.addr \in DOMAIN lot
    BY <1>3, <1>4, <1>5, <1>9
  <2>2. a \in 1..LastRegister /\ n \in Nat
    <3>1. lot[at.addr] \in (1..LastRegister) \X Nat
      <4> HIDE DEF lot
      <4> QED
        BY ONLY <1>5, <2>1
    <3> QED
      BY ONLY <3>1
  <2>3. a + n <= LastRegister + 2
    BY <1>4, <2>1, ProfileAssumption
  <2> DEFINE block == Block(dev, a, n)
  <2>4. ScanAppends(dev, block)
    BY <1>9
  <2> HIDE DEF a, n
  <2>5. /\ block \in Seq(RegisterType)
        /\ Len(dev.regs) + Len(block) <= MaxRegisters
    <3>1. a \in Nat /\ a >= 1
      BY <2>2, ScanBounds
    <3> QED
      BY <1>3, <2>2, <2>3, <3>1, BlockFits
  <2> HIDE DEF block
  <2> QED
    BY <1>1, <1>2, <1>3, <1>7, <2>4, <2>5, RegistersAdded
<1> QED
  BY <1>6, <1>8, <1>9

\* The devices that went away leave the list.
LEMMA CompactKeeps ==
  ASSUME DiscoveryInv, Compact
  PROVE  DiscoveryInv'
<1> USE DEF DiscoveryInv, ScanTyped, TaskInv, ListInv, CountInv, FoundFrom,
        Walking, Reading, Running
<1>1. /\ UNCHANGED <<mapped, scanTask, lastScan>>
      /\ at.step = "verify" /\ scanTask = "full" /\ lastScan = "full"
      /\ at.i \in Nat /\ Len(devices) < at.i /\ progress.busy
      /\ Sized(devices) /\ Ordered(devices) /\ devices \in Seq(DeviceType)
      /\ devices' = Compacted(devices, Active)
      /\ progress' = [progress EXCEPT !.found = Len(devices')]
      /\ at' = [step |-> "end", i |-> 0, addr |-> 0, gap |-> 0]
  <2>1. at.i \in Nat /\ Len(devices) < at.i
    BY DEF Compact, CursorType, Sized
  <2> QED
    BY <2>1 DEF Compact, Scan, Off, Sized
<1>2. Active \subseteq 1..Len(devices)
  BY <1>1 DEF Active
<1>3. /\ devices' \in Seq(DeviceType) /\ Len(devices') <= Len(devices)
      /\ \E p \in [1..Len(devices') -> Active \cap (1..Len(devices))] :
           /\ \A i \in 1..Len(devices') : devices'[i] = devices[p[i]]
           /\ \A i, j \in 1..Len(devices') : i < j => p[i] < p[j]
  BY <1>1, CompactedKeeps
<1>4. PICK p \in [1..Len(devices') -> Active \cap (1..Len(devices))] :
        /\ \A i \in 1..Len(devices') : devices'[i] = devices[p[i]]
        /\ \A i, j \in 1..Len(devices') : i < j => p[i] < p[j]
  BY <1>3
<1>5. \A i \in 1..Len(devices') :
        /\ p[i] \in 1..Len(devices) /\ devices'[i] = devices[p[i]]
        /\ devices'[i].active
  BY <1>4 DEF Active
<1>6. Sized(devices') /\ Ordered(devices')
  <2>1. Len(devices) \in Nat /\ Len(devices') \in Nat
    BY <1>1, <1>3
  <2>2. Ordered(devices')
    BY <1>1, <1>4, <1>5 DEF Ordered
  <2>3. Len(devices') <= ListCapacity
    BY <1>1, <1>3, <2>1, ScanBounds DEF Sized
  <2>4. \A i \in 1..Len(devices') : Len(devices'[i].regs) <= MaxRegisters
    <3>1. \A j \in 1..Len(devices) : Len(devices[j].regs) <= MaxRegisters
      BY <1>1 DEF Sized
    <3> QED
      BY ONLY <1>5, <3>1
  <2> QED
    BY <1>3, <2>2, <2>3, <2>4 DEF Sized
<1>7. Listed(devices') = Listed(devices)
  <2>1. \A i \in 1..Len(devices) : i \notin Active => devices[i].regs = <<>>
    BY <1>1 DEF Active
  <2> QED
    BY <1>1, <2>1, ListedCompacted
<1>8. /\ progress' \in ProgressType /\ progress'.busy
      /\ progress'.found = Len(devices')
      /\ progress'.registers = progress.registers
  <2>1. Len(devices') \in 0..ListCapacity
    BY <1>3, <1>6, ScanBounds DEF Sized
  <2> QED
    BY <1>1, <2>1 DEF ProgressType
<1>9. ScanTyped'
  BY <1>1, <1>6, <1>8 DEF CursorType
<1>10. TaskInv'
  BY <1>1, <1>8
<1>11. ListInv'
  BY <1>1, <1>5, <1>6
<1>12. CountInv'
  BY <1>1, <1>7, <1>8
<1> QED
  BY <1>9, <1>10, <1>11, <1>12

\* The registers of an active device that has some are edited, and the count
\* of the status page goes with them.
LEMMA RegistersEdited ==
  ASSUME DiscoveryInv, NEW k \in Active, NEW e \in DeviceType,
         e.slave = devices[k].slave, e.active, devices[k].regs # <<>>,
         Len(e.regs) <= Len(devices[k].regs),
         devices' = [devices EXCEPT ![k] = e],
         progress' \in ProgressType, progress'.busy <=> progress.busy,
         progress'.found = progress.found,
         lastScan = "full" /\ at.step # "begin"
           => progress'.registers = progress.registers
                                    + (Len(e.regs) - Len(devices[k].regs)),
         lastScan = "refused" => progress'.registers = progress.registers,
         DOMAIN mapped' = DOMAIN mapped,
         UNCHANGED <<scanTask, lastScan, at>>
  PROVE  DiscoveryInv'
<1> USE DEF DiscoveryInv, ScanTyped, TaskInv, ListInv, CountInv, FoundFrom,
        Walking, Reading, Running
<1>1. /\ Sized(devices) /\ Ordered(devices) /\ devices \in Seq(DeviceType)
      /\ k \in 1..Len(devices) /\ at.i \in Nat
  BY DEF Sized, Active, CursorType
<1>2. /\ Len(e.regs) \in Nat /\ Len(devices[k].regs) \in Nat
      /\ Len(devices[k].regs) <= MaxRegisters
  BY <1>1, RegsCount DEF Sized, DeviceType
<1>3. Replaced(devices', devices, k, e)
  BY <1>1, OneReplaced
<1>4. Sized(devices') /\ Ordered(devices')
  <2>1. Len(e.regs) <= MaxRegisters
    BY <1>2, ScanBounds
  <2> QED
    BY <1>1, <1>3, <2>1, ReplacedFits
<1>5. /\ Len(devices') = Len(devices)
      /\ \A j \in 1..Len(devices) :
           devices'[j] = IF j = k THEN e ELSE devices[j]
      /\ Listed(devices')
           = Listed(devices) + (Len(e.regs) - Len(devices[k].regs))
  BY <1>3 DEF Replaced
<1>6. ScanTyped'
  BY <1>4
<1>7. TaskInv'
  BY <1>5
<1>8. ListInv'
  BY <1>1, <1>4, <1>5
<1>9. CountInv'
  BY <1>5
<1> QED
  BY <1>6, <1>7, <1>8, <1>9

\* The editor finds a register of an active device.
LEMMA FoundIsThere ==
  ASSUME DiscoveryInv, NEW s, NEW a, NEW p \in FoundAt(s, a)
  PROVE  /\ p[1] \in Active /\ p[1] \in 1..Len(devices)
         /\ devices \in Seq(DeviceType) /\ devices[p[1]] \in DeviceType
         /\ devices[p[1]].active
         /\ devices[p[1]].regs \in Seq(RegisterType)
         /\ p[2] \in 1..Len(devices[p[1]].regs)
         /\ devices[p[1]].regs # <<>>
<1>1. devices \in Seq(DeviceType)
  BY DEF DiscoveryInv, ScanTyped, Sized
<1>2. p[1] \in Active /\ p[2] \in DOMAIN devices[p[1]].regs
  BY DEF FoundAt
<1>3. p[1] \in 1..Len(devices) /\ devices[p[1]].active
  BY <1>1, <1>2 DEF Active
<1>4. devices[p[1]] \in DeviceType /\ devices[p[1]].regs \in Seq(RegisterType)
  BY <1>1, <1>3, RegsCount
<1> QED
  BY <1>1, <1>2, <1>3, <1>4

\* An edit, a toggle or the removal of a register.
LEMMA EditsKeep ==
  ASSUME DiscoveryInv, EditRegister \/ ToggleRegister \/ DeleteRegister
  PROVE  DiscoveryInv'
<1>1. UNCHANGED <<scanTask, lastScan, at>> /\ progress \in ProgressType
  BY DEF DiscoveryInv, ScanTyped, EditRegister, ToggleRegister,
         DeleteRegister, Web
\* an entry of the registers that is written stays a register
<1>2. ASSUME NEW s, NEW a, NEW p \in FoundAt(s, a), NEW r \in RegisterType,
             devices' = [devices EXCEPT ![p[1]].regs[p[2]] = r],
             DOMAIN mapped' = DOMAIN mapped, progress' = progress
      PROVE  DiscoveryInv'
  <2> DEFINE k == p[1]
             j == p[2]
             regs == devices[k].regs
             e == [devices[k] EXCEPT !.regs = [regs EXCEPT ![j] = r]]
  <2>1. /\ k \in Active /\ k \in 1..Len(devices)
        /\ devices \in Seq(DeviceType) /\ devices[k] \in DeviceType
        /\ devices[k].active /\ regs \in Seq(RegisterType)
        /\ j \in 1..Len(regs) /\ regs # <<>>
    BY FoundIsThere
  <2>2. devices' = [devices EXCEPT ![k] = e]
    BY <1>2, <2>1
  <2> HIDE DEF k, j
  <2>3. /\ [regs EXCEPT ![j] = r] \in Seq(RegisterType)
        /\ Len([regs EXCEPT ![j] = r]) = Len(regs)
    BY <2>1, ChangedAt
  <2>4. /\ e \in DeviceType /\ e.slave = devices[k].slave
        /\ Len(e.regs) = Len(regs)
    BY <2>1, <2>3 DEF DeviceType
  <2>5. e.active
    BY <2>1 DEF DeviceType
  <2>6. Len(regs) \in Nat /\ progress.registers \in Nat
    BY <1>1, <2>1 DEF ProgressType
  <2>7. Len(e.regs) <= Len(regs)
    BY <2>4, <2>6
  <2>8. /\ progress' \in ProgressType /\ progress'.found = progress.found
        /\ progress'.registers = progress.registers
                                 + (Len(e.regs) - Len(regs))
        /\ progress'.registers = progress.registers
        /\ progress'.busy <=> progress.busy
    BY <1>1, <1>2, <2>4, <2>6
  <2> HIDE DEF e
  <2> QED
    BY <1>1, <1>2, <2>1, <2>2, <2>4, <2>5, <2>7, <2>8, RegistersEdited
<1>3. CASE EditRegister
  <2>1. PICK s \in 1..LastSlave, a \in 1..LastRegister :
          \E p \in FoundAt(s, a) :
            /\ devices' = [devices EXCEPT ![p[1]].regs[p[2]].edited = TRUE]
            /\ mapped' = IF <<s, a>> \in DOMAIN mapped
                         THEN [mapped EXCEPT ![<<s, a>>] = "user"]
                         ELSE mapped
    BY <1>3 DEF EditRegister
  <2>2. PICK p \in FoundAt(s, a) :
          devices' = [devices EXCEPT ![p[1]].regs[p[2]].edited = TRUE]
    BY <2>1
  <2>3. DOMAIN mapped' = DOMAIN mapped /\ progress' = progress
    BY <1>3, <2>1 DEF EditRegister
  <2> DEFINE k == p[1]
             j == p[2]
             r == [devices[k].regs[j] EXCEPT !.edited = TRUE]
  <2>4. /\ k \in 1..Len(devices) /\ devices \in Seq(DeviceType)
        /\ devices[k] \in DeviceType
        /\ devices[k].regs \in Seq(RegisterType)
        /\ j \in 1..Len(devices[k].regs)
    BY FoundIsThere
  <2>5. r \in RegisterType
    <3>1. devices[k].regs[j] \in RegisterType
      BY <2>4
    <3> QED
      BY <3>1 DEF RegisterType
  <2>6. devices' = [devices EXCEPT ![k].regs[j] = r]
    BY <2>2, <2>4
  <2> QED
    BY <1>2, <2>3, <2>5, <2>6
<1>4. CASE ToggleRegister
  <2>1. PICK s \in 1..LastSlave, a \in 1..LastRegister :
          \E p \in FoundAt(s, a) :
            devices' = [devices EXCEPT ![p[1]].regs[p[2]].valid = ~@]
    BY <1>4 DEF ToggleRegister
  <2>2. PICK p \in FoundAt(s, a) :
          devices' = [devices EXCEPT ![p[1]].regs[p[2]].valid = ~@]
    BY <2>1
  <2>3. DOMAIN mapped' = DOMAIN mapped /\ progress' = progress
    BY <1>4 DEF ToggleRegister
  <2> DEFINE k == p[1]
             j == p[2]
             r == [devices[k].regs[j] EXCEPT !.valid = ~@]
  <2>4. /\ k \in 1..Len(devices) /\ devices \in Seq(DeviceType)
        /\ devices[k] \in DeviceType
        /\ devices[k].regs \in Seq(RegisterType)
        /\ j \in 1..Len(devices[k].regs)
    BY FoundIsThere
  <2>5. r \in RegisterType
    <3>1. devices[k].regs[j] \in RegisterType
      BY <2>4
    <3> QED
      BY <3>1 DEF RegisterType
  <2>6. devices' = [devices EXCEPT ![k].regs[j] = r]
    BY <2>2, <2>4
  <2> QED
    BY <1>2, <2>3, <2>5, <2>6
<1>5. CASE DeleteRegister
  <2>1. PICK s \in 1..LastSlave, a \in 1..LastRegister :
          \E p \in FoundAt(s, a) :
            devices' = [devices EXCEPT ![p[1]].regs = Without(@, p[2])]
    BY <1>5 DEF DeleteRegister
  <2>2. PICK p \in FoundAt(s, a) :
          devices' = [devices EXCEPT ![p[1]].regs = Without(@, p[2])]
    BY <2>1
  <2> DEFINE k == p[1]
             j == p[2]
             regs == devices[k].regs
             fewer == Without(regs, j)
             e == [devices[k] EXCEPT !.regs = fewer]
  <2>3. /\ k \in Active /\ k \in 1..Len(devices)
        /\ devices \in Seq(DeviceType) /\ devices[k] \in DeviceType
        /\ devices[k].active /\ regs \in Seq(RegisterType)
        /\ j \in 1..Len(regs) /\ regs # <<>> /\ Len(regs) \in Nat
    BY FoundIsThere
  <2>4. devices' = [devices EXCEPT ![k] = e]
    BY <2>2, <2>3
  <2> HIDE DEF k, j
  <2>5. fewer \in Seq(RegisterType) /\ Len(fewer) = Len(regs) - 1
    BY <2>3, WithoutOne
  <2> HIDE DEF fewer
  <2>6. /\ e \in DeviceType /\ e.slave = devices[k].slave
        /\ e.regs = fewer
    BY <2>3, <2>5 DEF DeviceType
  <2>7. e.active
    BY <2>3 DEF DeviceType
  <2> HIDE DEF e
  <2>8. /\ devices' \in Seq(DeviceType)
        /\ Listed(devices') = Listed(devices) - 1
    <3>1. Replaced(devices', devices, k, e)
      BY <2>3, <2>4, <2>6, OneReplaced
    <3> QED
      BY <2>3, <2>5, <2>6, <3>1, ListedIs DEF Replaced
  <2>9. Listed(devices) > 0
    BY <2>3, <2>8, ListedIs
  <2> DEFINE n == IF progress.registers > 0 THEN progress.registers - 1
                  ELSE 0
  <2>10. progress' = [progress EXCEPT !.registers = n]
    BY <1>5 DEF DeleteRegister
  <2>11. /\ n \in Nat
         /\ lastScan = "full" /\ at.step # "begin"
              => n = progress.registers - 1
         /\ lastScan = "refused" => n = progress.registers
    BY <1>1, <2>9 DEF DiscoveryInv, CountInv, ProgressType
  <2> HIDE DEF n
  <2>12. /\ progress' \in ProgressType /\ progress'.found = progress.found
         /\ progress'.registers = n
    BY <1>1, <2>10, <2>11 DEF ProgressType
  <2>13. progress'.busy <=> progress.busy
    BY <1>1, <2>10 DEF ProgressType
  <2>14. /\ DOMAIN mapped' = DOMAIN mapped
         /\ Len(e.regs) <= Len(regs) /\ Len(e.regs) - Len(regs) = -1
    BY <1>5, <2>3, <2>5, <2>6 DEF DeleteRegister
  <2>15. lastScan = "full" /\ at.step # "begin"
           => progress'.registers
                = progress.registers + (Len(e.regs) - Len(regs))
    BY <1>1, <2>11, <2>12, <2>14 DEF ProgressType
  <2>16. lastScan = "refused" => progress'.registers = progress.registers
    BY <2>11, <2>12
  <2> QED
    BY <1>1, <2>3, <2>4, <2>6, <2>7, <2>12, <2>13, <2>14, <2>15, <2>16,
       RegistersEdited
<1> QED
  BY <1>3, <1>4, <1>5

\* The list is reset with no scan under way.
LEMMA ResetKeeps ==
  ASSUME DiscoveryInv, ResetDiscovery
  PROVE  DiscoveryInv'
<1> USE DEF DiscoveryInv, ScanTyped, TaskInv, ListInv, CountInv, FoundFrom,
        Sized, Ordered, Walking, Reading, Running
<1>1. /\ UNCHANGED <<scanTask, lastScan, at, mapped>> /\ scanTask = "none"
      /\ at.step = "off" /\ devices' = <<>> /\ ~progress'.busy
      /\ progress' = [busy |-> FALSE, found |-> 0, registers |-> 0]
  BY DEF ResetDiscovery, Web, Empty
<1>2. ScanTyped'
  BY <1>1, ScanBounds DEF ProgressType
<1>3. TaskInv'
  BY <1>1
<1>4. ListInv'
  BY <1>1
<1>5. CountInv'
  BY <1>1, ListedIs
<1> QED
  BY <1>2, <1>3, <1>4, <1>5

\* The table of the AMM takes a batch for which there is room.
LEMMA ApplyKeeps ==
  ASSUME DiscoveryInv, ApplyMappings
  PROVE  DiscoveryInv'
<1>1. ASSUME NEW amm, NEW batch, Cardinality(DOMAIN amm) <= AmmCapacity
      PROVE  Cardinality(DOMAIN Imported(amm, batch)) <= AmmCapacity
  BY <1>1 DEF Imported, Fits
<1>2. ASSUME NEW amm, NEW batch, NEW void,
             Cardinality(DOMAIN amm) <= AmmCapacity
      PROVE  Cardinality(DOMAIN Import(amm, batch, void)) <= AmmCapacity
  BY <1>1, <1>2 DEF Import
<1>3. Cardinality(DOMAIN mapped') <= AmmCapacity
  <2>1. PICK void1, void2 \in BOOLEAN :
          LET amm == Import(mapped, ProfileBatch, void1)
          IN mapped' = Import(amm, RawBatch(amm, Resolved(void1)), void2)
    BY DEF ApplyMappings
  <2> DEFINE amm == Import(mapped, ProfileBatch, void1)
  <2>2. Cardinality(DOMAIN amm) <= AmmCapacity
    BY <1>2 DEF DiscoveryInv, ScanTyped
  <2> HIDE DEF amm
  <2>3. mapped' = Import(amm, RawBatch(amm, Resolved(void1)), void2)
    BY <2>1 DEF amm
  <2> QED
    BY <1>2, <2>2, <2>3
<1>4. UNCHANGED <<devices, progress, scanTask, lastScan, at>>
  BY DEF ApplyMappings, Web
<1> QED
  BY <1>3, <1>4 DEF DiscoveryInv, ScanTyped, TaskInv, ListInv, CountInv,
                    FoundFrom

\* The invariant holds at the start.
LEMMA DiscoveryStarts == DiscoveryInit => DiscoveryInv
<1> SUFFICES ASSUME DiscoveryInit PROVE DiscoveryInv
  OBVIOUS
<1> USE DEF DiscoveryInit, ScanTyped, TaskInv, ListInv, CountInv, FoundFrom,
        Sized, Ordered, Walking, Reading, Running, CursorType, ProgressType,
        Empty, Off
<1>1. ScanTyped
  <2>1. Cardinality(DOMAIN mapped) <= AmmCapacity
    BY TablesAssumption
  <2> QED
    BY <2>1, ScanBounds
<1>2. TaskInv /\ ListInv /\ CountInv
  OBVIOUS
<1> QED
  BY <1>1, <1>2 DEF DiscoveryInv

\* Every step keeps the invariant.
LEMMA DiscoveryKeeps ==
  DiscoveryInv /\ [DiscoveryNext]_scanVars => DiscoveryInv'
<1> SUFFICES ASSUME DiscoveryInv, [DiscoveryNext]_scanVars
             PROVE  DiscoveryInv'
  OBVIOUS
<1>1. CASE UNCHANGED scanVars
  BY <1>1 DEF scanVars, DiscoveryInv, ScanTyped, TaskInv, ListInv, CountInv,
              FoundFrom
<1>2. CASE DiscoveryNext
  BY <1>2, ListStays, ScanBeginsKeeps, ProbeKeeps, VerifyKeeps,
     ReadBlockKeeps, NextProfiledKeeps, ReadProfiledKeeps, CompactKeeps,
     EditsKeep, ResetKeeps, ApplyKeeps
  DEF DiscoveryNext, ScanStep
<1> QED
  BY <1>1, <1>2

\* The list of devices, the scan task and the counters of the status page
\* (s_devices, s_scan_task and s_result of modbus_discover.c) hold together.
THEOREM DiscoveryInvariant == DiscoverySteps => []DiscoveryInv
<1>1. DiscoverySteps => DiscoveryInit /\ [][DiscoveryNext]_scanVars
  BY PTL DEF DiscoverySteps
<1> QED
  BY <1>1, DiscoveryStarts, DiscoveryKeeps, PTL

\* The invariant has the shape that the module promises.
LEMMA DiscoveryTyped == ASSUME DiscoveryInv PROVE DiscoveryTypeOK
<1>1. /\ devices \in Seq(DeviceType) /\ Len(devices) <= ListCapacity
      /\ \A i \in 1..Len(devices) : Len(devices[i].regs) <= MaxRegisters
      /\ progress \in ProgressType
      /\ Cardinality(DOMAIN mapped) <= AmmCapacity
  BY DEF DiscoveryInv, ScanTyped, Sized
<1>2. ASSUME NEW i \in DOMAIN devices
      PROVE  /\ devices[i].slave \in 1..LastSlave
             /\ devices[i].probed \in 0..2
             /\ Len(devices[i].regs) <= MaxRegisters
             /\ \A j \in DOMAIN devices[i].regs :
                  devices[i].regs[j] \in RegisterType
  <2>1. i \in 1..Len(devices) /\ devices[i] \in DeviceType
    BY <1>1
  <2>2. devices[i].regs \in Seq(RegisterType)
    BY <2>1 DEF DeviceType
  <2> QED
    BY <1>1, <2>1, <2>2 DEF DeviceType
<1> QED
  BY <1>1, <1>2 DEF DiscoveryTypeOK, ProgressType

\* Types, and the bounds of the list, of the registers of a device and of
\* the table of the AMM (modbus_discover.c, amm_mapping.c).
THEOREM DiscoveryTypeCorrect == DiscoverySteps => []DiscoveryTypeOK
BY DiscoveryTyped, DiscoveryInvariant, PTL

\* With no scan under way the list names each slave once, without those that
\* went away, and what the status page says is what the list holds, whatever
\* the web server edited meanwhile (full_scan_sync(),
\* modbus_discover_delete_register()); unless there was no memory for the
\* task of a full scan: modbus_discover_full_scan() has zeroed the counters
\* then and the list is the one before.
THEOREM ListSettles == DiscoverySteps => []ListSettled
<1>1. DiscoveryInv => ListSettled
  <2> SUFFICES ASSUME DiscoveryInv, ~progress.busy
               PROVE  /\ \A i, j \in DOMAIN devices :
                           devices[i].slave = devices[j].slave => i = j
                      /\ \A i \in DOMAIN devices : devices[i].active
                      /\ lastScan = "refused" => progress = Empty
                      /\ lastScan # "refused" =>
                           progress.found = Len(devices)
                      /\ lastScan = "full"
                           => progress.registers = RegistersListed
    BY DEF ListSettled
  <2>1. /\ devices \in Seq(DeviceType) /\ Ordered(devices)
        /\ at.step \notin Running /\ progress \in ProgressType
    BY DEF DiscoveryInv, ScanTyped, Sized, ListInv, TaskInv
  <2>2. \A i \in 1..Len(devices) : devices[i].active
    BY <2>1 DEF DiscoveryInv, ListInv, Running
  <2>3. ASSUME NEW i \in 1..Len(devices), NEW j \in 1..Len(devices),
               devices[i].slave = devices[j].slave
        PROVE  i = j
    <3>1. devices[i].slave \in Nat /\ devices[j].slave \in Nat
      <4>1. devices[i] \in DeviceType /\ devices[j] \in DeviceType
        BY <2>1
      <4> QED
        BY <4>1 DEF DeviceType
    <3> QED
      BY <2>1, <2>3, <3>1 DEF Ordered
  <2>4. /\ lastScan # "refused" => progress.found = Len(devices)
        /\ lastScan = "full" => progress.registers = RegistersListed
    BY <2>1 DEF DiscoveryInv, CountInv, Running, RegistersListed
  <2>5. lastScan = "refused" => progress = Empty
    <3>1. lastScan = "refused"
            => progress.found = 0 /\ progress.registers = 0
      BY DEF DiscoveryInv, CountInv
    <3>2. progress.busy = FALSE
      BY <2>1 DEF ProgressType
    <3> QED
      BY <2>1, <3>1, <3>2 DEF ProgressType, Empty
  <2> QED
    BY <2>1, <2>2, <2>3, <2>4, <2>5
<1> QED
  BY <1>1, DiscoveryInvariant, PTL
-----------------------------------------------------------------------------
(* What applying the scan does to the user's mappings. *)
Keys == (1..LastSlave) \X (1..(LastRegister + 1))
Profiled ==
  {x \in [key : Keys, by : {"profile"}] :
     \E i \in Active : /\ Matches(devices[i])
                       /\ x.key[1] = devices[i].slave}
\* what the registers of the devices at the places `open' are mapped to
RawOf(open) ==
  {x \in [key : Keys, by : {"raw", "user"}] :
     \E i \in open : \E j \in Enabled(devices[i]) :
       x = RawPoint(devices[i], devices[i].regs[j])}

\* Of the entries of a batch with the same key there is a last one.
LEMMA LastOfKey ==
  ASSUME NEW Q, NEW batch \in Seq(Q), NEW k,
         NEW i0 \in DOMAIN batch, batch[i0].key = k
  PROVE  \E i \in DOMAIN batch :
           /\ batch[i].key = k
           /\ \A j \in DOMAIN batch : batch[j].key = k => j <= i
<1> DEFINE N == Len(batch)
           D == {N - i : i \in {j \in 1..N : batch[j].key = k}}
<1>1. N \in Nat /\ DOMAIN batch = 1..N
  OBVIOUS
<1> HIDE DEF N
<1>2. D \subseteq Nat /\ D # {}
  BY <1>1
<1>3. PICK d \in D : \A x \in D : d <= x
  BY <1>2, LeastExists
<1>4. PICK i \in 1..N : batch[i].key = k /\ d = N - i
  BY <1>3
<1>5. ASSUME NEW j \in 1..N, batch[j].key = k PROVE j <= i
  <2>1. N - j \in D
    BY <1>5
  <2>2. d <= N - j
    BY <1>3, <2>1
  <2> QED
    BY <1>1, <1>4, <2>2
<1> QED
  BY <1>1, <1>4, <1>5

\* What an import leaves and what it takes from the batch.
ImportedFrom(amm, batch, new) ==
  \A k \in DOMAIN new :
    \/ k \in DOMAIN amm /\ new[k] = amm[k]
    \/ /\ ~(k \in DOMAIN amm /\ amm[k] = "user")
       /\ \E i \in DOMAIN batch : batch[i].key = k /\ new[k] = batch[i].by
\* What of the user's it drops.
DroppedBy(amm, batch, new) ==
  \A k \in DOMAIN amm :
    amm[k] = "user" =>
      \/ k \in DOMAIN new /\ new[k] = "user"
      \/ k[1] \in Named(batch) /\ k \notin Regenerated(batch)

\* A point of the table is as it was or as the batch has it, and the
\* user's is never as the batch has it; it is dropped if the batch names the
\* device without the point.
LEMMA ImportTakes ==
  ASSUME NEW amm, NEW Q, NEW batch \in Seq(Q), NEW void
  PROVE  /\ ImportedFrom(amm, batch, Import(amm, batch, void))
         /\ DroppedBy(amm, batch, Import(amm, batch, void))
<1> DEFINE last(k) == CHOOSE i \in DOMAIN batch :
                        /\ batch[i].key = k
                        /\ \A j \in DOMAIN batch : batch[j].key = k => j <= i
           users(k) == k \in DOMAIN amm /\ amm[k] = "user"
           new == [k \in Staying(amm, batch) \cup Regenerated(batch) |->
                     IF k \in Staying(amm, batch) \/ users(k) THEN amm[k]
                     ELSE batch[last(k)].by]
<1>1. Imported(amm, batch) = IF ~Fits(amm, batch) THEN amm ELSE new
  BY DEF Imported
<1>2. ASSUME NEW k \in Regenerated(batch)
      PROVE  last(k) \in DOMAIN batch /\ batch[last(k)].key = k
  <2>1. PICK i \in DOMAIN batch : batch[i].key = k
    BY DEF Regenerated
  <2>2. \E l \in DOMAIN batch :
          /\ batch[l].key = k
          /\ \A j \in DOMAIN batch : batch[j].key = k => j <= l
    BY <2>1, LastOfKey
  <2> QED
    BY <2>2
<1>3. ImportedFrom(amm, batch, amm) /\ DroppedBy(amm, batch, amm)
  BY DEF ImportedFrom, DroppedBy
<1>4. ImportedFrom(amm, batch, new)
  <2> SUFFICES ASSUME NEW k \in Staying(amm, batch) \cup Regenerated(batch)
               PROVE  \/ k \in DOMAIN amm /\ new[k] = amm[k]
                      \/ /\ ~users(k)
                         /\ \E i \in DOMAIN batch : /\ batch[i].key = k
                                                    /\ new[k] = batch[i].by
    <3>1. DOMAIN new = Staying(amm, batch) \cup Regenerated(batch)
      OBVIOUS
    <3> HIDE DEF new
    <3> QED
      BY <3>1 DEF ImportedFrom
  <2> HIDE DEF last
  <2>1. CASE k \in Staying(amm, batch) \/ users(k)
    BY <2>1 DEF Staying
  <2>2. CASE ~(k \in Staying(amm, batch) \/ users(k))
    BY <1>2, <2>2
  <2> QED
    BY <2>1, <2>2
<1>5. DroppedBy(amm, batch, new)
  <2> SUFFICES ASSUME NEW k \in DOMAIN amm, amm[k] = "user"
               PROVE  \/ k \in DOMAIN new /\ new[k] = "user"
                      \/ k[1] \in Named(batch) /\ k \notin Regenerated(batch)
    BY DEF DroppedBy
  <2>1. CASE k \in Staying(amm, batch) \cup Regenerated(batch)
    <3> HIDE DEF last
    <3> QED
      BY <2>1
  <2>2. CASE k \notin Staying(amm, batch) \cup Regenerated(batch)
    BY <2>2 DEF Staying
  <2> QED
    BY <2>1, <2>2
<1> HIDE DEF new
<1> QED
  BY <1>1, <1>3, <1>4, <1>5 DEF Import

\* Something is built step by step.
Follows(g, n, R, step) ==
  \A i \in 1..n : g[i - 1] \in R => g[i] = step[<<i, g[i - 1]>>]

\* What is built is of the type that the steps keep.
LEMMA StepsTyped ==
  ASSUME NEW n \in Nat, NEW R, NEW step \in [(1..n) \X R -> R],
         NEW g, g[0] \in R, Follows(g, n, R, step)
  PROVE  g[n] \in R
<1> DEFINE A == {i \in 0..n : g[i] \in R}
<1>1. 0 \in A
  OBVIOUS
<1>2. \A i \in 1..n : i - 1 \in A => i \in A
  <2> SUFFICES ASSUME NEW i \in 1..n, i - 1 \in A
               PROVE  g[i] \in R /\ i \in 0..n
    OBVIOUS
  <2>1. g[i] = step[<<i, g[i - 1]>>] /\ <<i, g[i - 1]>> \in (1..n) \X R
    BY DEF Follows
  <2> QED
    BY <2>1
<1> HIDE DEF A
<1>3. n \in A
  <2>1. \A i \in 0..n : i \in A
    BY ONLY <1>1, <1>2, n \in Nat, UpTo
  <2> QED
    BY <2>1
<1> QED
  BY <1>3 DEF A

\* A device of the list has a slave and addresses that are keys.
LEMMA KeysOf ==
  ASSUME DiscoveryInv, NEW i \in 1..Len(devices)
  PROVE  /\ devices[i].slave \in 1..LastSlave
         /\ devices[i].regs \in Seq(RegisterType)
         /\ \A a \in 1..(LastRegister + 1) : <<devices[i].slave, a>> \in Keys
<1>1. devices[i] \in DeviceType
  BY DEF DiscoveryInv, ScanTyped, Sized
<1> QED
  BY <1>1 DEF DeviceType, Keys

\* The semantic profile names its points after the profile.
LEMMA ProfileBatchIs ==
  ASSUME DiscoveryInv
  PROVE  ProfileBatch \in Seq(Profiled)
<1> DEFINE N == Len(devices)
           R == Seq(Profiled)
           Body(f) == [n \in 0..N |->
                         IF n = 0 THEN <<>>
                         ELSE IF Matches(devices[n])
                         THEN Truncated(f[n - 1] \o ProfilePoints(devices[n]))
                         ELSE f[n - 1]]
           upTo == CHOOSE f : f = Body(f)
           step == [x \in (1..N) \X R |->
                      IF Matches(devices[x[1]])
                      THEN Truncated(x[2] \o ProfilePoints(devices[x[1]]))
                      ELSE x[2]]
<1>1. N \in Nat
  BY DEF DiscoveryInv, ScanTyped, Sized
<1>2. ProfileBatch = upTo[N]
  BY DEF ProfileBatch
<1>3. ASSUME NEW n \in 1..N, Matches(devices[n])
      PROVE  ProfilePoints(devices[n]) \in R
  <2> DEFINE lot == Profile[devices[n].slave]
  <2>1. /\ devices[n].slave \in 1..LastSlave
        /\ \A a \in 1..(LastRegister + 1) : <<devices[n].slave, a>> \in Keys
    BY KeysOf
  <2>2. lot \in Seq((1..LastRegister) \X Nat)
    BY <2>1, ProfileAssumption
  <2>3. n \in DOMAIN devices
    BY DEF DiscoveryInv, ScanTyped, Sized
  <2>4. ASSUME NEW i \in 1..Len(lot)
        PROVE  Point(devices[n], lot[i][1], "profile") \in Profiled
    <3>1. lot[i][1] \in 1..(LastRegister + 1)
      <4>1. lot[i] \in (1..LastRegister) \X Nat
        BY <2>2
      <4> QED
        BY <4>1, ScanBounds
    <3> DEFINE x == Point(devices[n], lot[i][1], "profile")
    <3>2. x \in [key : Keys, by : {"profile"}]
      BY <2>1, <3>1 DEF Point
    <3>3. x.key[1] = devices[n].slave
      BY DEF Point
    <3>4. n \in Active
      BY <1>3, <2>3 DEF Active, Matches
    <3> HIDE DEF x
    <3>5. x \in Profiled
      BY <1>3, <3>2, <3>3, <3>4 DEF Profiled
    <3> QED
      BY <3>5 DEF x
  <2>5. ProfilePoints(devices[n])
          = [i \in 1..Len(lot) |-> Point(devices[n], lot[i][1], "profile")]
    BY <2>2 DEF ProfilePoints
  <2>6. Len(lot) \in Nat
    BY <2>2
  <2> HIDE DEF lot
  <2> QED
    BY <2>4, <2>5, <2>6
<1>4. ASSUME NEW x \in R, NEW y \in R PROVE Truncated(x \o y) \in R
  <2> DEFINE z == x \o y
             l == Lower(Len(z), AmmCapacity)
  <2>1. z \in R /\ Len(z) \in Nat
    BY ConcatProperties
  <2> HIDE DEF z
  <2>2. l \in Nat /\ l <= Len(z)
    BY <2>1, ScanBounds DEF Lower
  <2> HIDE DEF l
  <2>3. \A i \in 1..l : z[i] \in Profiled
    BY <2>1, <2>2
  <2>4. SubSeq(z, 1, l) \in R
    BY <2>1, <2>2, <2>3, SubSeqProperties
  <2> QED
    BY <2>4 DEF Truncated, z, l
<1>5. step \in [(1..N) \X R -> R]
  BY <1>3, <1>4
<1>6. \A n \in 1..N : \A x \in R :
        step[<<n, x>>] = IF Matches(devices[n])
                         THEN Truncated(x \o ProfilePoints(devices[n]))
                         ELSE x
  OBVIOUS
<1>7. <<>> \in R
  OBVIOUS
<1> HIDE DEF N, R, step
<1>8. \E f : f = Body(f)
  <2>1. PICK f \in [0..N -> R] : Defines(f, N, <<>>, step)
    <3>1. \A b \in R : \A s \in [(1..N) \X R -> R] :
            \E f \in [0..N -> R] : Defines(f, N, b, s)
      BY ONLY <1>1, Recursion
    <3> QED
      BY ONLY <1>5, <1>7, <3>1
  <2>2. ASSUME NEW n \in 0..N PROVE f[n] = Body(f)[n]
    <3>1. CASE n = 0
      BY <2>1, <3>1 DEF Defines
    <3>2. CASE n # 0
      <4>1. n \in 1..N /\ f[n - 1] \in R
        BY <1>1, <3>2
      <4>2. f[n] = step[<<n, f[n - 1]>>]
        BY <2>1, <3>2 DEF Defines
      <4> QED
        BY <1>6, <3>2, <4>1, <4>2
    <3> QED
      BY <3>1, <3>2
  <2>3. f = Body(f)
    BY <2>2
  <2> QED
    BY <2>3
<1>9. upTo = Body(upTo)
  BY <1>8
<1> HIDE DEF upTo
<1>10. upTo[0] = <<>>
  <2>1. 0 \in 0..N
    BY <1>1
  <2> QED
    BY <1>9, <2>1
<1>11. ASSUME NEW n \in 1..N, upTo[n - 1] \in R
       PROVE  upTo[n] = step[<<n, upTo[n - 1]>>]
  <2>1. n \in 0..N /\ n # 0
    BY <1>1
  <2>2. upTo[n] = Body(upTo)[n]
    BY <1>9
  <2>3. upTo[n] = IF Matches(devices[n])
                  THEN Truncated(upTo[n - 1] \o ProfilePoints(devices[n]))
                  ELSE upTo[n - 1]
    BY <2>1, <2>2
  <2> QED
    BY <1>6, <1>11, <2>3
<1> HIDE DEF Body
<1>12. upTo[N] \in R
  <2>1. upTo[0] \in R
    BY <1>7, <1>10
  <2>2. Follows(upTo, N, R, step)
    BY <1>11 DEF Follows
  <2> QED
    BY ONLY <1>1, <1>5, <2>1, <2>2, StepsTyped
<1> QED
  BY <1>2, <1>12 DEF R

\* A batch has every enabled register of a device that it names.
Covers(batch, open) ==
  \A d \in open :
    (\E i \in DOMAIN batch : batch[i].key[1] = devices[d].slave)
      => \A j \in Enabled(devices[d]) :
           \E i \in DOMAIN batch : batch[i].key = Key(devices[d], j)

\* What the enabled registers of a device give.
LEMMA RawPointsAre ==
  ASSUME DiscoveryInv, NEW open, NEW n \in open, n \in 1..Len(devices)
  PROVE  LET y == RawPoints(devices[n])
         IN /\ y \in Seq(RawOf(open))
            /\ \A i \in DOMAIN y : y[i].key[1] = devices[n].slave
            /\ \A j \in Enabled(devices[n]) :
                 \E i \in DOMAIN y : y[i].key = Key(devices[n], j)
<1> DEFINE dev  == devices[n]
           regs == Compacted(dev.regs, Enabled(dev))
           y == RawPoints(dev)
<1>1. /\ dev.slave \in 1..LastSlave /\ dev.regs \in Seq(RegisterType)
      /\ \A a \in 1..(LastRegister + 1) : <<dev.slave, a>> \in Keys
  BY KeysOf
<1>2. /\ regs \in Seq(RegisterType)
      /\ \E p \in [1..Len(regs) -> Enabled(dev) \cap (1..Len(dev.regs))] :
           /\ \A i \in 1..Len(regs) : regs[i] = dev.regs[p[i]]
           /\ \A i, j \in 1..Len(regs) : i < j => p[i] < p[j]
  BY <1>1, CompactedKeeps
<1>3. ASSUME NEW i \in 1..Len(regs)
      PROVE  RawPoint(dev, regs[i]) \in RawOf(open)
  <2>1. PICK j \in Enabled(dev) : regs[i] = dev.regs[j]
    BY <1>2
  <2>2. regs[i] \in RegisterType
    BY <1>2
  <2> HIDE DEF regs
  <2>3. regs[i].addr \in 1..(LastRegister + 1)
    BY <2>2 DEF RegisterType
  <2>4. RawPoint(dev, regs[i]) \in [key : Keys, by : {"raw", "user"}]
    BY <1>1, <2>3 DEF RawPoint, Point
  <2>5. RawPoint(dev, regs[i]) = RawPoint(devices[n], devices[n].regs[j])
    BY <2>1
  <2> QED
    BY <2>1, <2>4, <2>5 DEF RawOf
<1>4. y = [i \in 1..Len(regs) |-> RawPoint(dev, regs[i])]
  BY <1>2 DEF RawPoints
<1>5. Len(regs) \in Nat
  BY <1>2
<1>6. ASSUME NEW j \in Enabled(dev)
      PROVE  \E i \in 1..Len(regs) : regs[i] = dev.regs[j]
  <2>1. j \in Enabled(dev) \cap (1..Len(dev.regs))
    BY <1>1 DEF Enabled
  <2> QED
    BY <1>1, <2>1, CompactedTakes
<1> HIDE DEF regs, y
<1>7. y \in Seq(RawOf(open))
  BY <1>3, <1>4, <1>5
<1>8. DOMAIN y = 1..Len(regs)
  BY <1>4
<1>9. ASSUME NEW i \in DOMAIN y
      PROVE  y[i].key = <<dev.slave, regs[i].addr>>
  BY <1>4, <1>8 DEF RawPoint, Point
<1>10. \A i \in DOMAIN y : y[i].key[1] = dev.slave
  BY <1>9
<1>11. ASSUME NEW j \in Enabled(dev)
       PROVE  \E i \in DOMAIN y : y[i].key = Key(dev, j)
  <2>1. PICK i \in 1..Len(regs) : regs[i] = dev.regs[j]
    BY <1>6
  <2> QED
    BY <1>8, <1>9, <2>1 DEF Key
<1> QED
  BY <1>7, <1>10, <1>11 DEF y

\* It stays so when a device is added.
LEMMA CoversMore ==
  ASSUME DiscoveryInv, NEW open, open \subseteq 1..Len(devices),
         NEW n \in open, NEW x \in Seq(RawOf(open)), Covers(x, open)
  PROVE  /\ x \o RawPoints(devices[n]) \in Seq(RawOf(open))
         /\ Covers(x \o RawPoints(devices[n]), open)
<1> DEFINE y == RawPoints(devices[n])
           z == x \o y
<1>1. /\ y \in Seq(RawOf(open))
      /\ \A i \in DOMAIN y : y[i].key[1] = devices[n].slave
      /\ \A j \in Enabled(devices[n]) :
           \E i \in DOMAIN y : y[i].key = Key(devices[n], j)
  BY RawPointsAre
<1> HIDE DEF y
<1>2. /\ z \in Seq(RawOf(open)) /\ Len(z) = Len(x) + Len(y)
      /\ Len(x) \in Nat /\ Len(y) \in Nat
      /\ \A i \in 1..Len(x) : z[i] = x[i]
      /\ \A i \in 1..Len(y) : z[Len(x) + i] = y[i]
  BY <1>1, ConcatProperties
<1> HIDE DEF z
<1>3. /\ DOMAIN x = 1..Len(x) /\ DOMAIN y = 1..Len(y)
      /\ DOMAIN z = 1..Len(z)
  BY <1>1, <1>2
<1>4. ASSUME NEW d \in open, NEW i \in DOMAIN z,
             z[i].key[1] = devices[d].slave, NEW j \in Enabled(devices[d])
      PROVE  \E l \in DOMAIN z : z[l].key = Key(devices[d], j)
  <2>1. CASE i \in 1..Len(x)
    <3>1. i \in DOMAIN x /\ x[i].key[1] = devices[d].slave
      BY <1>2, <1>3, <1>4, <2>1
    <3>2. PICK l \in DOMAIN x : x[l].key = Key(devices[d], j)
      BY <1>4, <3>1 DEF Covers
    <3>3. l \in DOMAIN z /\ z[l] = x[l]
      BY <1>2, <1>3, <3>2
    <3> QED
      BY <3>2, <3>3
  <2>2. CASE i \notin 1..Len(x)
    <3>1. i - Len(x) \in 1..Len(y) /\ z[i] = y[i - Len(x)]
      <4>1. i - Len(x) \in 1..Len(y) /\ i = Len(x) + (i - Len(x))
        BY <1>2, <1>3, <2>2
      <4> QED
        BY <1>2, <4>1
    <3>2. devices[d].slave = devices[n].slave
      BY <1>1, <1>3, <1>4, <3>1
    <3>3. d = n
      <4>1. /\ d \in 1..Len(devices) /\ n \in 1..Len(devices)
            /\ Ordered(devices) /\ Len(devices) \in Nat
        BY DEF DiscoveryInv, ListInv, ScanTyped, Sized
      <4>2. devices[d].slave \in 1..LastSlave
        BY <4>1, KeysOf
      <4>3. devices[n].slave \in 1..LastSlave
        BY <4>1, KeysOf
      <4> QED
        BY <3>2, <4>1, <4>2, <4>3 DEF Ordered
    <3>4. PICK l \in DOMAIN y : y[l].key = Key(devices[d], j)
      BY <1>1, <1>4, <3>3
    <3>5. Len(x) + l \in DOMAIN z /\ z[Len(x) + l] = y[l]
      BY <1>2, <1>3, <3>4
    <3> QED
      BY <3>4, <3>5
  <2> QED
    BY <2>1, <2>2
<1>5. Covers(z, open)
  BY <1>4 DEF Covers
<1> QED
  BY <1>2, <1>5 DEF z, y

\* The raw batch has what the enabled registers of the open devices give, and
\* all of them for a device that it names.
LEMMA RawBatchIs ==
  ASSUME DiscoveryInv, NEW amm, NEW resolved
  PROVE  /\ RawBatch(amm, resolved) \in Seq(RawOf(Unresolved(resolved)))
         /\ Covers(RawBatch(amm, resolved), Unresolved(resolved))
<1> DEFINE open == Unresolved(resolved)
           room == Room(amm, open)
           N == Len(devices)
           R == {x \in Seq(RawOf(open)) : Covers(x, open)}
           fits(n, x) == /\ n \in open
                         /\ Len(x) + Len(RawPoints(devices[n])) <= room
           Body(f) == [n \in 0..N |->
                         IF n = 0 THEN <<>>
                         ELSE IF fits(n, f[n - 1])
                         THEN f[n - 1] \o RawPoints(devices[n])
                         ELSE f[n - 1]]
           upTo == CHOOSE f : f = Body(f)
           step == [x \in (1..N) \X R |->
                      IF fits(x[1], x[2])
                      THEN x[2] \o RawPoints(devices[x[1]]) ELSE x[2]]
<1>1. N \in Nat
  BY DEF DiscoveryInv, ScanTyped, Sized
<1>2. RawBatch(amm, resolved) = upTo[N]
  BY DEF RawBatch
<1>3. open \subseteq 1..Len(devices)
  BY <1>1 DEF Unresolved, Active, DiscoveryInv, ScanTyped, Sized
<1>4. ASSUME NEW n \in 1..N, NEW x \in R, fits(n, x)
      PROVE  x \o RawPoints(devices[n]) \in R
  <2>1. x \in Seq(RawOf(open)) /\ Covers(x, open) /\ n \in open
    BY <1>4
  <2> HIDE DEF open
  <2> QED
    BY <1>3, <2>1, CoversMore
<1> HIDE DEF fits
<1>5. step \in [(1..N) \X R -> R]
  BY <1>4
<1>6. \A n \in 1..N : \A x \in R :
        step[<<n, x>>] = IF fits(n, x) THEN x \o RawPoints(devices[n]) ELSE x
  OBVIOUS
<1>7. <<>> \in R
  BY DEF Covers
<1> HIDE DEF N, R, step, open, room
<1>8. \E f : f = Body(f)
  <2>1. PICK f \in [0..N -> R] : Defines(f, N, <<>>, step)
    <3>1. \A b \in R : \A s \in [(1..N) \X R -> R] :
            \E f \in [0..N -> R] : Defines(f, N, b, s)
      BY ONLY <1>1, Recursion
    <3> QED
      BY ONLY <1>5, <1>7, <3>1
  <2>2. ASSUME NEW n \in 0..N PROVE f[n] = Body(f)[n]
    <3>1. CASE n = 0
      BY <2>1, <3>1 DEF Defines
    <3>2. CASE n # 0
      <4>1. n \in 1..N /\ f[n - 1] \in R
        BY <1>1, <3>2
      <4>2. f[n] = step[<<n, f[n - 1]>>]
        BY <2>1, <3>2 DEF Defines
      <4> QED
        BY <1>6, <3>2, <4>1, <4>2
    <3> QED
      BY <3>1, <3>2
  <2>3. f = Body(f)
    BY <2>2
  <2> QED
    BY <2>3
<1>9. upTo = Body(upTo)
  BY <1>8
<1> HIDE DEF upTo
<1>10. ASSUME NEW n \in 0..N
       PROVE  upTo[n] = IF n = 0 THEN <<>>
                        ELSE IF fits(n, upTo[n - 1])
                        THEN upTo[n - 1] \o RawPoints(devices[n])
                        ELSE upTo[n - 1]
  <2>1. upTo[n] = Body(upTo)[n]
    BY <1>9
  <2> QED
    BY <2>1
<1> HIDE DEF Body
<1>11. upTo[0] = <<>>
  BY <1>1, <1>10
<1>12. ASSUME NEW n \in 1..N, upTo[n - 1] \in R
       PROVE  upTo[n] = step[<<n, upTo[n - 1]>>]
  <2>1. n \in 0..N /\ n # 0
    BY <1>1
  <2> QED
    BY <1>6, <1>10, <1>12, <2>1
<1>13. upTo[N] \in R
  <2>1. upTo[0] \in R
    BY <1>7, <1>11
  <2>2. Follows(upTo, N, R, step)
    BY <1>12 DEF Follows
  <2> QED
    BY ONLY <1>1, <1>5, <2>1, <2>2, StepsTyped
<1> QED
  BY <1>2, <1>13 DEF R, open

\* How a point of the user's is lost.
LEMMA DroppedIs ==
  ASSUME NEW k, k \notin DOMAIN mapped',
         NEW d \in Active, devices[d].slave = k[1],
         \/ Matches(devices[d]) /\ k \notin Regenerated(ProfileBatch)
         \/ ~Offers(devices[d], k)
  PROVE  Dropped(k)
BY DEF Dropped

\* Applying the scan leaves the user's what is the user's, except for points
\* that the device is not mapped with any more, and no point becomes raw of
\* whose register the user edited every copy
\* (modbus_discover_apply_mappings(), amm_import_mappings(),
\* semantic_inference_build_raw_mapping()).
THEOREM EditsSurvive == DiscoverySteps => EditsSurviveApply
<1> DEFINE Survives(k) ==
             /\ By(mapped, k) = "user" => By(mapped', k) = "user" \/ Dropped(k)
             /\ By(mapped, k) # "raw" /\ Confirmed(k)
                  => By(mapped', k) # "raw"
           Kept == ApplyMappings =>
                     \A k \in (DOMAIN mapped) \cup (DOMAIN mapped') :
                       Survives(k)
<1>1. ASSUME DiscoveryInv, ApplyMappings PROVE Kept
  <2> DEFINE first == ProfileBatch
  <2>1. PICK void1, void2 \in BOOLEAN :
          LET amm == Import(mapped, first, void1)
          IN mapped' = Import(amm, RawBatch(amm, Resolved(void1)), void2)
    BY <1>1 DEF ApplyMappings
  <2> DEFINE amm    == Import(mapped, first, void1)
             second == RawBatch(amm, Resolved(void1))
             open   == Unresolved(Resolved(void1))
  <2>2. first \in Seq(Profiled)
    BY <1>1, ProfileBatchIs
  <2>3. second \in Seq(RawOf(open)) /\ Covers(second, open)
    BY <1>1, RawBatchIs
  <2>4. /\ ImportedFrom(mapped, first, amm) /\ DroppedBy(mapped, first, amm)
        /\ ImportedFrom(amm, second, mapped')
        /\ DroppedBy(amm, second, mapped')
    <3>1. mapped' = Import(amm, second, void2)
      BY <2>1
    <3>2. /\ ImportedFrom(mapped, first, amm)
          /\ DroppedBy(mapped, first, amm)
      <4> HIDE DEF first
      <4> QED
        BY <2>2, ImportTakes
    <3> HIDE DEF first, amm, second, open
    <3>3. /\ ImportedFrom(amm, second, Import(amm, second, void2))
          /\ DroppedBy(amm, second, Import(amm, second, void2))
      BY <2>3, ImportTakes
    <3> QED
      BY <3>1, <3>2, <3>3
  <2>5. ASSUME NEW i \in DOMAIN second
        PROVE  \E d \in open : \E j \in Enabled(devices[d]) :
                 second[i] = RawPoint(devices[d], devices[d].regs[j])
    <3> HIDE DEF second, open
    <3>1. second[i] \in RawOf(open)
      BY <2>3
    <3> QED
      BY <3>1 DEF RawOf
  <2>6. ASSUME NEW i \in DOMAIN first
        PROVE  /\ first[i].by = "profile"
               /\ \E d \in Active : /\ Matches(devices[d])
                                    /\ first[i].key[1] = devices[d].slave
    <3> HIDE DEF first
    <3>1. first[i] \in Profiled
      BY <2>2
    <3> QED
      BY <3>1 DEF Profiled
  <2>7. /\ open \subseteq Active
        /\ \A d \in open : devices[d].slave \notin Resolved(void1)
    <3>1. \A done : /\ Unresolved(done) \subseteq Active
                    /\ \A d \in Unresolved(done) :
                         devices[d].slave \notin done
      BY DEF Unresolved
    <3> QED
      BY <3>1
  \* what the profile drops
  <2>8. ASSUME NEW k \in DOMAIN mapped, mapped[k] = "user",
               ~(k \in DOMAIN amm /\ amm[k] = "user")
        PROVE  Dropped(k)
    <3>1. k[1] \in Named(first) /\ k \notin Regenerated(first)
      BY <2>4, <2>8 DEF DroppedBy
    <3>2. PICK d \in Active : Matches(devices[d]) /\ devices[d].slave = k[1]
      BY <2>6, <3>1 DEF Named
    <3>3. k[1] \in Resolved(void1)
      <4>1. ~void1 /\ Fits(mapped, first)
        BY <2>8 DEF Import, Imported
      <4> QED
        BY <3>1, <4>1 DEF Resolved
    <3>4. k \notin DOMAIN amm
      BY <2>4, <2>8, <3>1 DEF ImportedFrom, Regenerated
    <3>5. k \notin DOMAIN mapped'
      <4>1. SUFFICES ASSUME k \in DOMAIN mapped' PROVE FALSE
        OBVIOUS
      <4>2. PICK i \in DOMAIN second : second[i].key = k
        BY <2>4, <3>4, <4>1 DEF ImportedFrom
      <4>3. PICK e \in open : \E j \in Enabled(devices[e]) :
              second[i] = RawPoint(devices[e], devices[e].regs[j])
        BY <2>5, <4>2
      <4>4. k[1] = devices[e].slave
        BY <4>2, <4>3 DEF RawPoint, Point
      <4> QED
        BY <2>7, <3>3, <4>4
    <3> QED
      BY <3>1, <3>2, <3>5, DroppedIs
  \* what the raw import drops
  <2>9. ASSUME NEW k \in DOMAIN amm, amm[k] = "user",
               ~(k \in DOMAIN mapped' /\ mapped'[k] = "user")
        PROVE  Dropped(k)
    <3>1. k[1] \in Named(second) /\ k \notin Regenerated(second)
      BY <2>4, <2>9 DEF DroppedBy
    <3>2. PICK i \in DOMAIN second : second[i].key[1] = k[1]
      BY <3>1 DEF Named
    <3>3. PICK d \in open : \E j \in Enabled(devices[d]) :
            second[i] = RawPoint(devices[d], devices[d].regs[j])
      BY <2>5
    <3>4. second[i].key[1] = devices[d].slave
      BY <3>3 DEF RawPoint, Point
    <3>5. ~Offers(devices[d], k)
      BY <2>3, <3>1, <3>4 DEF Covers, Offers, Regenerated
    <3>6. k \notin DOMAIN mapped'
      BY <2>4, <2>9, <3>1 DEF ImportedFrom, Regenerated
    <3> QED
      <4>1. d \in Active /\ devices[d].slave = k[1]
        BY <2>7, <3>2, <3>4
      <4> HIDE DEF open, second, amm
      <4> QED
        BY ONLY <3>5, <3>6, <4>1, DroppedIs
  \* what becomes raw
  <2>10. ASSUME NEW k \in DOMAIN mapped', mapped'[k] = "raw",
                By(mapped, k) # "raw"
         PROVE  ~Confirmed(k)
    <3>1. ~(k \in DOMAIN amm /\ amm[k] = "raw")
      <4>1. SUFFICES ASSUME k \in DOMAIN amm, amm[k] = "raw" PROVE FALSE
        OBVIOUS
      <4>2. \/ k \in DOMAIN mapped /\ amm[k] = mapped[k]
            \/ amm[k] = "profile"
        BY <2>4, <2>6, <4>1 DEF ImportedFrom
      <4> QED
        BY <2>10, <4>1, <4>2 DEF By
    <3>2. PICK i \in DOMAIN second : second[i].key = k /\ second[i].by = "raw"
      BY <2>4, <2>10, <3>1 DEF ImportedFrom
    <3>3. PICK d \in open : \E j \in Enabled(devices[d]) :
            second[i] = RawPoint(devices[d], devices[d].regs[j])
      BY <2>5
    <3>4. PICK j \in Enabled(devices[d]) :
            second[i] = RawPoint(devices[d], devices[d].regs[j])
      BY <3>3
    <3>5. Key(devices[d], j) = k /\ ~devices[d].regs[j].edited
      <4> HIDE DEF second
      <4> QED
        BY <3>2, <3>4 DEF RawPoint, Point, Key
    <3> QED
      BY <2>7, <3>4, <3>5 DEF Confirmed
  <2> HIDE DEF amm
  <2>11. ASSUME NEW k \in (DOMAIN mapped) \cup (DOMAIN mapped')
         PROVE  Survives(k)
    <3>1. By(mapped, k) = "user" => By(mapped', k) = "user" \/ Dropped(k)
      <4>1. SUFFICES ASSUME k \in DOMAIN mapped, mapped[k] = "user",
                            ~(k \in DOMAIN mapped' /\ mapped'[k] = "user")
                     PROVE  Dropped(k)
        BY DEF By
      <4> QED
        BY <2>8, <2>9, <4>1
    <3>2. By(mapped, k) # "raw" /\ Confirmed(k) => By(mapped', k) # "raw"
      BY <2>10 DEF By
    <3> QED
      BY <3>1, <3>2
  <2> QED
    BY <2>11
<1>2. DiscoveryInv /\ [DiscoveryNext]_scanVars => [Kept]_scanVars
  <2> HIDE DEF Kept
  <2> QED
    BY <1>1 DEF Kept
<1> QED
  <2>1. DiscoverySteps => [][DiscoveryNext]_scanVars
    BY PTL DEF DiscoverySteps
  <2> QED
    BY <1>2, <2>1, DiscoveryInvariant, PTL DEF EditsSurviveApply
-----------------------------------------------------------------------------
(***************************************************************************)
(* The shape of the pipeline: no queue and no slot table exceeds its size, *)
(* and publish_task has an item exactly while it has something to decide.  *)
(***************************************************************************)
RouteInv ==
  /\ route \in Routes /\ linked \in BOOLEAN /\ platform \in Platforms
  /\ hand["publish"] # Nobody => route # "none"
QueuesFit == \A q \in Queues : Len(queue[q]) <= CapOf[q]
PoolFits ==
  /\ pool \in [Points -> Items] /\ \A p \in Points : pool[p].n <= polled
  /\ IsFiniteSet(Pooled) /\ Cardinality(Pooled) <= PoolCap
PipeBounds ==
  /\ polled <= MaxReadings /\ upsets \in 0..MaxUpsets
  /\ RouteInv /\ QueuesFit /\ PoolFits

\* The lengths of the queues are numbers.
LEMMA CapsAre == \A q \in Queues : CapOf[q] \in Nat
BY PipelineAssumption DEF Queues, CapOf

\* A task takes the head of a queue, or adds to one that is not full.
QueueMove ==
  \/ queue' = queue
  \/ \E q \in Queues : queue[q] # <<>> /\ queue' = Shortened(queue, q)
  \/ \E q \in Queues, t \in Hands :
       ~Full(q) /\ queue' = Appended(queue, q, hand[t])

\* So no queue exceeds its length.
LEMMA MovesFit ==
  ASSUME FlowInv, QueuesFit, QueueMove
  PROVE  QueuesFit'
<1>1. queue \in [Queues -> Seq(Items)] /\ hand \in [Hands -> Items]
  BY DEF FlowInv, Flow
<1>2. CASE queue' = queue
  BY <1>2 DEF QueuesFit
<1>3. CASE \E q \in Queues : queue[q] # <<>> /\ queue' = Shortened(queue, q)
  <2>1. PICK q \in Queues : queue[q] # <<>> /\ queue' = Shortened(queue, q)
    BY <1>3
  <2>2. /\ \A k \in Queues : k # q => queue'[k] = queue[k]
        /\ Len(queue[q]) \in Nat \ {0} /\ Len(queue'[q]) = Len(queue[q]) - 1
    <3>1. /\ Len(queue[q]) \in Nat \ {0}
          /\ Len(Tail(queue[q])) = Len(queue[q]) - 1
      BY <1>1, <2>1, OldestTaken
    <3>2. /\ \A k \in Queues : k # q => queue'[k] = queue[k]
          /\ queue'[q] = Tail(queue[q])
      BY <1>1, <2>1 DEF Shortened
    <3> QED
      BY <3>1, <3>2
  <2>3. Len(queue'[q]) <= CapOf[q]
    BY <2>2, CapsAre DEF QueuesFit
  <2> QED
    BY <2>2, <2>3 DEF QueuesFit
<1>4. CASE \E q \in Queues, t \in Hands :
             ~Full(q) /\ queue' = Appended(queue, q, hand[t])
  <2>1. PICK q \in Queues, t \in Hands :
          ~Full(q) /\ queue' = Appended(queue, q, hand[t])
    BY <1>4
  <2>2. /\ \A k \in Queues : k # q => queue'[k] = queue[k]
        /\ queue'[q] = Append(queue[q], hand[t])
    BY <1>1, <2>1 DEF Appended
  <2>3. Len(queue[q]) \in Nat /\ Len(queue'[q]) = Len(queue[q]) + 1
    BY <1>1, <2>2, AppendProperties, LenProperties
  <2>4. Len(queue'[q]) <= CapOf[q]
    BY <2>1, <2>3, CapsAre DEF Full
  <2> QED
    BY <2>2, <2>4 DEF QueuesFit
<1> QED
  BY <1>2, <1>3, <1>4 DEF QueueMove

\* Every step moves the queues so.
LEMMA StepMoves ==
  ASSUME [PipelineNext]_pipelineVars PROVE QueueMove
<1>1. Hands = {"poll", "build", "publish", "out", "cache"}
      /\ Queues = {"raw", "context", "out", "cache"}
  BY DEF Hands, Queues
<1>2. ASSUME NEW t \in Hands, NEW q \in Queues, ~Full(q), Pass(t, q)
      PROVE  QueueMove
  BY <1>2 DEF Pass, QueueMove, Appended
<1>3. ASSUME NEW t \in Hands, NEW q \in Queues, Take(q, t)
      PROVE  QueueMove
  BY <1>3 DEF Take, QueueMove, Shortened
<1>4. ASSUME queue' = queue PROVE QueueMove
  BY <1>4 DEF QueueMove
<1>5. CASE PollStep \/ \E p \in Points, good \in BOOLEAN : Poll(p, good)
  BY <1>1, <1>2, <1>4, <1>5 DEF PollStep, PollEnqueue, Poll
<1>6. CASE BuildStep
  <2>1. CASE BuildReject
    BY <1>1, <2>1 DEF BuildReject, QueueMove, Shortened
  <2>2. CASE BuildContext
    BY <1>1, <1>3, <2>2 DEF BuildContext
  <2>3. CASE BuildEnqueue
    BY <1>1, <1>2, <1>4, <2>3 DEF BuildEnqueue
  <2> QED
    BY <1>6, <2>1, <2>2, <2>3 DEF BuildStep
<1>7. CASE PublishTaskStep
  <2>1. CASE PublishTake
    BY <1>1, <1>3, <2>1 DEF PublishTake
  <2>2. CASE PublishLocal \/ PublishRoute \/ PublishCloud
               \/ PublishUnserialised
    BY <1>4, <2>2
    DEF PublishLocal, PublishRoute, PublishCloud, PublishUnserialised
  <2>3. CASE PublishCache \/ PublishCloudRefused \/ PublishMqtt
    BY <1>1, <1>2, <1>4, <2>3
    DEF PublishCache, PublishCloudRefused, PublishMqtt
  <2> QED
    BY <1>7, <2>1, <2>2, <2>3 DEF PublishTaskStep
<1>8. CASE CacheStep \/ OutStep
  <2>1. CASE CacheTake \/ OutTake
    BY <1>1, <1>3, <2>1 DEF CacheTake, OutTake
  <2>2. CASE CacheWrite \/ OutPublish \/ OutStore
    BY <1>4, <2>2 DEF CacheWrite, OutPublish, OutStore
  <2> QED
    BY <1>8, <2>1, <2>2 DEF CacheStep, OutStep
<1>9. CASE PoolClear \/ LinkChanges \/ Reconfigured \/ UNCHANGED pipelineVars
  BY <1>4, <1>9 DEF PoolClear, LinkChanges, Reconfigured, pipelineVars
<1> QED
  BY <1>5, <1>6, <1>7, <1>8, <1>9 DEF PipelineNext

\* A full pool has an entry with the oldest time stamp.
LEMMA OldestIsPooled ==
  ASSUME pool \in [Points -> Items], Pooled # {}
  PROVE  OldestSlot \in Pooled
<1> DEFINE stamps == {Stamp(pool[p]) : p \in Pooled}
<1>1. \A p \in Pooled : Stamp(pool[p]) \in Nat
  BY PipelineAssumption DEF Stamp, Pooled, Items
<1>2. \E s \in stamps : \A u \in stamps : s <= u
  <2>1. stamps \subseteq Nat /\ stamps # {}
    BY <1>1
  <2> HIDE DEF stamps
  <2> QED
    BY <2>1, LeastExists
<1>3. \E p \in Pooled : \A o \in Pooled : Stamp(pool[p]) <= Stamp(pool[o])
  BY <1>2
<1> QED
  BY <1>3 DEF OldestSlot

\* A reading enters the pool: on its own slot, on a free one, or instead of
\* the oldest.
LEMMA UpdateFits ==
  ASSUME PoolFits, polled \in Nat, polled' \in {polled, polled + 1},
         NEW r \in Items, r.p \in Points, r.n <= polled', PoolUpdate(r)
  PROVE  PoolFits'
<1> DEFINE gone == IF r.p \in Pooled \/ Cardinality(Pooled) < PoolCap
                   THEN {} ELSE {OldestSlot}
           rest == Pooled \ gone
<1>1. pool' = [p \in Points |-> IF p = r.p THEN r
                                ELSE IF p \in gone THEN Nobody ELSE pool[p]]
  BY DEF PoolUpdate
<1> HIDE DEF gone
<1>2. pool' \in [Points -> Items] /\ \A p \in Points : pool'[p].n <= polled'
  <2>1. \A p \in Points : pool[p].n \in Nat /\ pool[p].n <= polled
    BY DEF PoolFits, Items
  <2>2. \A p \in Points : pool'[p] \in {r, Nobody, pool[p]}
    BY <1>1
  <2>3. pool' \in [Points -> Items]
    BY <1>1, <2>2, NobodyItem DEF PoolFits
  <2> QED
    BY <2>1, <2>2, <2>3, NobodyItem
<1>3. Pooled' \subseteq rest \cup {r.p}
  BY <1>1 DEF Pooled, PoolFits
<1>4. /\ IsFiniteSet(Pooled) /\ Cardinality(Pooled) \in Nat
      /\ Cardinality(Pooled) <= PoolCap /\ PoolCap \in Nat \ {0}
  BY PipelineAssumption, FS_CardinalityType DEF PoolFits
<1>5. IsFiniteSet(rest \cup {r.p}) /\ Cardinality(rest \cup {r.p}) <= PoolCap
  <2>1. CASE r.p \in Pooled
    <3>1. rest \cup {r.p} = Pooled
      BY <2>1 DEF gone
    <3> QED
      BY <1>4, <3>1
  <2>2. CASE r.p \notin Pooled /\ Cardinality(Pooled) < PoolCap
    <3>1. rest = Pooled
      BY <2>2 DEF gone
    <3>2. /\ IsFiniteSet(Pooled \cup {r.p})
          /\ Cardinality(Pooled \cup {r.p}) = Cardinality(Pooled) + 1
      BY <1>4, <2>2, FS_AddElement
    <3> QED
      BY <1>4, <2>2, <3>1, <3>2
  <2>3. CASE r.p \notin Pooled /\ ~(Cardinality(Pooled) < PoolCap)
    <3>1. gone = {OldestSlot}
      BY <2>3 DEF gone
    <3>2. Pooled # {}
      BY <1>4, <2>3, FS_EmptySet
    <3>3. OldestSlot \in Pooled
      BY <3>2, OldestIsPooled DEF PoolFits
    <3>4. /\ IsFiniteSet(rest) /\ Cardinality(rest) = Cardinality(Pooled) - 1
      BY <1>4, <3>1, <3>3, FS_RemoveElement
    <3>5. r.p \notin rest
      BY <2>3
    <3> HIDE DEF rest
    <3>6. /\ IsFiniteSet(rest \cup {r.p})
          /\ Cardinality(rest \cup {r.p}) = Cardinality(rest) + 1
      BY <3>4, <3>5, FS_AddElement
    <3> QED
      BY <1>4, <3>4, <3>6
  <2> QED
    BY <2>1, <2>2, <2>3
<1>6. /\ IsFiniteSet(Pooled') /\ Cardinality(Pooled') \in Nat
      /\ Cardinality(Pooled') <= Cardinality(rest \cup {r.p})
      /\ Cardinality(rest \cup {r.p}) \in Nat
  BY <1>3, <1>5, FS_Subset, FS_CardinalityType
<1> QED
  BY <1>2, <1>4, <1>5, <1>6 DEF PoolFits

\* Every step of every task keeps the pool within its slots.
LEMMA PoolFitsNext ==
  ASSUME FlowInv, PoolFits, [PipelineNext]_pipelineVars
  PROVE  PoolFits'
<1>1. polled \in Nat /\ queue \in [Queues -> Seq(Items)]
  BY DEF FlowInv, Flow
<1>2. ASSUME UNCHANGED <<pool, polled>> PROVE PoolFits'
  BY <1>2 DEF PoolFits, Pooled
<1>3. ASSUME NEW p \in Points, NEW good \in BOOLEAN, Poll(p, good)
      PROVE  PoolFits'
  <2> DEFINE r == [n |-> polled + 1, p |-> p, good |-> good]
  <2>1. /\ polled' = polled + 1
        /\ pool' = pool \/ PoolUpdate(r)
    BY <1>3 DEF Poll
  <2>2. CASE pool' = pool
    <3>1. \A q \in Points : pool[q].n \in Nat /\ pool[q].n <= polled
      BY DEF PoolFits, Items
    <3> QED
      BY <1>1, <2>1, <2>2, <3>1 DEF PoolFits, Pooled
  <2>3. CASE PoolUpdate(r)
    <3>1. r \in Items /\ r.p \in Points /\ r.n <= polled'
      BY <1>1, <2>1 DEF Items
    <3> QED
      BY <1>1, <2>1, <2>3, <3>1, UpdateFits
  <2> QED
    BY <2>1, <2>2, <2>3
<1>4. CASE BuildContext
  <2> DEFINE r == Head(queue["raw"])
  <2>1. /\ queue["raw"] # <<>> /\ hand' = [hand EXCEPT !["build"] = r]
        /\ polled' = polled /\ PoolUpdate(hand'["build"])
    BY <1>4 DEF BuildContext, Take
  <2>2. hand'["build"] = r
    BY <2>1 DEF FlowInv, Flow, Hands
  <2>3. "raw" \in Queues /\ queue["raw"] \in Seq(Items)
    BY <1>1 DEF Queues
  <2>4. r \in Items /\ r.n \in 1..polled
    <3>1. r = queue["raw"][1] /\ 1 \in 1..Len(queue["raw"])
      BY <2>1, <2>3, OldestTaken DEF FlowInv, Flow
    <3> QED
      BY <2>3, <3>1 DEF FlowInv, Flow
  <2>5. r.p \in Points
    BY <2>4, PipelineAssumption DEF Items, Nobody
  <2> HIDE DEF r
  <2>6. PoolUpdate(r) /\ r.n <= polled'
    BY <2>1, <2>2, <2>4
  <2> QED
    BY <1>1, <2>1, <2>4, <2>5, <2>6, UpdateFits
<1>5. CASE PoolClear
  <2>1. pool' = [p \in Points |-> Nobody] /\ polled' = polled
    BY <1>5 DEF PoolClear
  <2>2. Pooled' = {} /\ pool' \in [Points -> Items]
        /\ \A p \in Points : pool'[p].n <= polled'
    BY <1>1, <2>1, NobodyItem DEF Pooled
  <2> QED
    BY <2>2, FS_EmptySet, PipelineAssumption DEF PoolFits
<1>6. CASE \/ PollStep \/ BuildReject \/ BuildEnqueue \/ PublishTaskStep
           \/ CacheStep \/ OutStep \/ LinkChanges \/ Reconfigured
           \/ UNCHANGED pipelineVars
  <2>1. UNCHANGED <<pool, polled>>
    BY <1>6
    DEF PollStep, PollEnqueue, BuildReject, BuildEnqueue, PublishTaskStep,
        PublishTake, PublishLocal, PublishRoute, PublishCache, PublishCloud,
        PublishCloudRefused, PublishMqtt, PublishUnserialised, CacheStep,
        CacheTake, CacheWrite, OutStep, OutTake, OutPublish, OutStore,
        LinkChanges, Reconfigured, pipelineVars
  <2> QED
    BY <1>2, <2>1
<1> QED
  BY <1>3, <1>4, <1>5, <1>6 DEF PipelineNext, BuildStep

\* publish_task has no item while it has decided nothing.
LEMMA RouteInvNext ==
  ASSUME FlowInv, RouteInv, [PipelineNext]_pipelineVars
  PROVE  RouteInv'
<1>1. hand \in [Hands -> Items] /\ "publish" \in Hands
  BY DEF FlowInv, Flow, Hands
<1>2. ASSUME UNCHANGED <<route, linked, platform>>,
             hand'["publish"] = hand["publish"]
      PROVE  RouteInv'
  BY <1>2 DEF RouteInv
<1>3. CASE PublishTaskStep
  <2>1. UNCHANGED <<linked, platform>> /\ route' \in Routes
        /\ (route' = "none" => hand'["publish"] = Nobody)
    BY <1>1, <1>3
    DEF PublishTaskStep, PublishTake, PublishLocal, PublishRoute,
        PublishCache, PublishCloud, PublishCloudRefused, PublishMqtt,
        PublishUnserialised, Routes, GiveUp, Pass
  <2> QED
    BY <2>1 DEF RouteInv
<1>4. CASE PollStep \/ \E p \in Points, good \in BOOLEAN : Poll(p, good)
  BY <1>1, <1>2, <1>4 DEF PollStep, PollEnqueue, Poll, Pass, GiveUp
<1>5. CASE BuildStep
  BY <1>1, <1>2, <1>5
  DEF BuildStep, BuildReject, BuildContext, BuildEnqueue, Take, Pass, GiveUp
<1>6. CASE CacheStep \/ OutStep
  BY <1>1, <1>2, <1>6
  DEF CacheStep, OutStep, CacheTake, CacheWrite, OutTake, OutPublish, OutStore,
      Take, GiveUp
<1>7. CASE LinkChanges
  <2>1. UNCHANGED <<route, platform, hand>> /\ linked' \in BOOLEAN
    BY <1>7 DEF LinkChanges
  <2> QED
    BY <2>1 DEF RouteInv
<1>8. CASE Reconfigured
  <2>1. UNCHANGED <<route, linked, hand>> /\ platform' \in Platforms
    BY <1>8 DEF Reconfigured
  <2> QED
    BY <2>1 DEF RouteInv
<1>9. CASE PoolClear \/ UNCHANGED pipelineVars
  BY <1>2, <1>9 DEF PoolClear, pipelineVars
<1> QED
  BY <1>3, <1>4, <1>5, <1>6, <1>7, <1>8, <1>9 DEF PipelineNext

\* The bounds of the model are kept.
LEMMA PipeCounts ==
  ASSUME FlowInv, PipeBounds, [PipelineNext]_pipelineVars
  PROVE  polled' <= MaxReadings /\ upsets' \in 0..MaxUpsets
<1>1. \/ polled' = polled
      \/ polled' = polled + 1 /\ polled < MaxReadings
  BY DEF PipelineNext, Poll, PollStep, PollEnqueue, BuildStep, BuildReject,
         BuildContext, BuildEnqueue, PublishTaskStep, PublishTake,
         PublishLocal, PublishRoute, PublishCache, PublishCloud,
         PublishCloudRefused, PublishMqtt, PublishUnserialised, CacheStep,
         CacheTake, CacheWrite, OutStep, OutTake, OutPublish, OutStore,
         PoolClear, LinkChanges, Reconfigured, pipelineVars
<1>2. upsets' = upsets \/ Upset
  BY DEF PipelineNext, Poll, PollStep, PollEnqueue, BuildStep, BuildReject,
         BuildContext, BuildEnqueue, PublishTaskStep, PublishTake,
         PublishLocal, PublishRoute, PublishCache, PublishCloud,
         PublishCloudRefused, PublishMqtt, PublishUnserialised, CacheStep,
         CacheTake, CacheWrite, OutStep, OutTake, OutPublish, OutStore,
         PoolClear, LinkChanges, Reconfigured, pipelineVars
<1> QED
  BY <1>1, <1>2, PipelineAssumption DEF FlowInv, PipeBounds, Upset

\* Together: at the start, after every step, and what they give.
LEMMA PipeBoundsInit == PipelineInit => PipeBounds
<1> SUFFICES ASSUME PipelineInit PROVE PipeBounds
  OBVIOUS
<1>1. /\ polled = 0 /\ upsets = 0 /\ route = "none" /\ linked = FALSE
      /\ platform = "custom" /\ hand["publish"] = Nobody
      /\ \A q \in Queues : queue[q] = <<>>
      /\ pool = [p \in Points |-> Nobody]
  BY DEF PipelineInit, Hands
<1>2. Pooled = {} /\ pool \in [Points -> Items]
      /\ \A p \in Points : pool[p].n <= polled
  BY <1>1, NobodyItem DEF Pooled
<1>3. PoolFits
  BY <1>2, FS_EmptySet, PipelineAssumption DEF PoolFits
<1>4. QueuesFit
  <2>1. Len(<<>>) = 0
    OBVIOUS
  <2> QED
    BY <1>1, <2>1, CapsAre DEF QueuesFit
<1>5. RouteInv
  BY <1>1 DEF RouteInv, Routes, Platforms
<1> QED
  BY <1>1, <1>3, <1>4, <1>5, PipelineAssumption DEF PipeBounds

\* Every step keeps them.
LEMMA PipeBoundsNext ==
  ASSUME FlowInv, PipeBounds, [PipelineNext]_pipelineVars
  PROVE  PipeBounds'
BY PipeCounts, RouteInvNext, StepMoves, MovesFit, PoolFitsNext
DEF PipeBounds

\* They are the shape that the module promises.
LEMMA PipelineTyped ==
  ASSUME FlowInv, Ledger, PipeBounds
  PROVE  PipelineTypeOK
<1>1. polled \in Nat /\ MaxReadings \in Nat /\ polled <= MaxReadings
  BY PipelineAssumption DEF FlowInv, PipeBounds
<1>2. Nobody.p \in Points
  BY PipelineAssumption DEF Nobody
<1>3. \A r \in Items : r.n <= polled => r \in Item
  <2> SUFFICES ASSUME NEW r \in Items, r.n <= polled PROVE r \in Item
    OBVIOUS
  <2>1. r.n \in 0..MaxReadings /\ r.p \in Points /\ r.good \in BOOLEAN
        /\ r = [n |-> r.n, p |-> r.p, good |-> r.good]
    BY <1>1, <1>2 DEF Items
  <2> QED
    BY <2>1 DEF Item
<1>4. hand \in [Hands -> Item]
  <2>1. ASSUME NEW t \in Hands PROVE hand[t] \in Item
    <3>1. hand[t] \in Items /\ (hand[t] # Nobody => hand[t].n \in 1..polled)
      BY DEF FlowInv, Flow
    <3>2. hand[t].n <= polled
      BY <1>1, <3>1, NobodyItem
    <3> QED
      BY <1>3, <3>1, <3>2
  <2> QED
    BY <2>1 DEF FlowInv, Flow
<1>5. \A q \in Queues : Len(queue[q]) <= CapOf[q]
                        /\ \A i \in 1..Len(queue[q]) : queue[q][i] \in Item
  <2>1. ASSUME NEW q \in Queues, NEW i \in 1..Len(queue[q])
        PROVE  queue[q][i] \in Item
    <3>1. queue[q] \in Seq(Items) /\ queue[q][i].n \in 1..polled
      BY DEF FlowInv, Flow
    <3>2. queue[q][i] \in Items /\ queue[q][i].n <= polled
      BY <3>1, ElementOfSeq
    <3> QED
      BY <1>3, <3>2
  <2> QED
    BY <2>1 DEF PipeBounds, QueuesFit
<1>6. route \in Routes /\ (route # "none" <=> Busy("publish"))
  BY DEF PipeBounds, RouteInv, FlowInv, Deciding, Busy
<1>7. pool \in [Points -> Item] /\ Cardinality(Pooled) <= PoolCap
  BY <1>3 DEF PipeBounds, PoolFits
<1>8. /\ cached \subseteq 1..MaxReadings /\ kept \subseteq 1..MaxReadings
      /\ clouded \subseteq 1..MaxReadings
  <2>1. 1..polled \subseteq 1..MaxReadings
    BY <1>1
  <2> QED
    BY <2>1 DEF Ledger, Sent
<1> QED
  BY <1>1, <1>4, <1>5, <1>6, <1>7, <1>8
  DEF PipelineTypeOK, PipeBounds, RouteInv, FlowInv
-----------------------------------------------------------------------------
(***************************************************************************)
(* The shape of the life cycle.                                            *)
(***************************************************************************)
\* Settings are saved ones or the default; a login is refused once a dial.
SavedSettings == [v : 0..MaxSaves, on : BOOLEAN]
Stations == [at : Places, set : SavedSettings]

TasksTyped ==
  saves \in 0..MaxSaves /\ saved \in SavedSettings /\ web \in Stations
ClientTyped ==
  /\ restart \in Stations /\ applied \in 0..MaxSaves
  /\ mutex \in {"free", "restart"}
  /\ conn \in {"disconnected", "connected", "error"}
LoginsBounded ==
  /\ dials \in 0..MaxDials /\ refused \in Nat /\ refused <= dials
  /\ event = "refused" => refused < dials
MqttTyped == TasksTyped /\ ClientTyped /\ LoginsBounded

\* They hold when the client has been created.
LEMMA MqttTypedInit == MqttInit => MqttTyped
<1> SUFFICES ASSUME MqttInit PROVE MqttTyped
  OBVIOUS
<1>1. PICK on \in BOOLEAN : saved = [v |-> 0, on |-> on]
  BY DEF MqttInit
<1>2. 0 \in 0..MaxSaves /\ 0 \in 0..MaxDials
  BY CallsAssumption
<1>3. [v |-> 0, on |-> on] \in SavedSettings /\ Idle \in Stations
  BY <1>2 DEF SavedSettings, Stations, Idle, Places
<1>4. /\ saves = 0 /\ web = Idle /\ restart = Idle /\ applied = 0
      /\ mutex = "free" /\ conn = "disconnected" /\ dials = 0
      /\ refused = 0 /\ event = "none"
  BY DEF MqttInit
<1> QED
  BY <1>1, <1>2, <1>3, <1>4
  DEF MqttTyped, TasksTyped, ClientTyped, LoginsBounded

\* What a station is made of, and that one can be made of it.
LEMMA StationIs ==
  /\ Idle \in Stations
  /\ \A s \in Stations : s.at \in Places /\ s.set \in SavedSettings
  /\ \A s \in SavedSettings : \A p \in Places : At(p, s) \in Stations
BY CallsAssumption DEF Idle, Stations, SavedSettings, At, Places

\* A stop takes the version that is saved.
LEMMA StopTyped ==
  ASSUME MqttTyped, StopClient \/ StopFails
  PROVE  /\ applied' \in 0..MaxSaves /\ mutex' = mutex
         /\ conn' \in {"disconnected", "connected", "error"}
<1>1. saved.v \in 0..MaxSaves
  BY DEF MqttTyped, TasksTyped, SavedSettings
<1> QED
  BY <1>1 DEF StopClient, StopFails, Configure, mqttClient, MqttTyped,
              ClientTyped

\* The web server's task.
LEMMA WebTyped ==
  ASSUME MqttTyped, SaveSettings \/ UserStops \/ TestConnection \/ WebStep
  PROVE  MqttTyped'
<1>1. LoginsBounded'
  <2>1. UNCHANGED <<dials, refused, event>>
    BY DEF SaveSettings, UserStops, TestConnection, WebStep, WebStop,
           WebStore, WebSignal, Reconnect, TestWaits, WebUnchanged, mqttLink
  <2> QED
    BY <2>1 DEF MqttTyped, LoginsBounded
<1>2. ClientTyped'
  <2>1. CASE WebStop
    <3>1. restart' = restart
      BY <2>1 DEF WebStop, WebUnchanged
    <3>2. StopClient \/ StopFails
      BY <2>1 DEF WebStop
    <3> QED
      BY <3>1, <3>2, StopTyped DEF MqttTyped, ClientTyped
  <2>2. CASE WebSignal
    <3>1. UNCHANGED <<applied, mutex, conn>>
      BY <2>2 DEF WebSignal, mqttClient, mqttLink
    <3>2. restart' = restart \/ restart' = At("begin", Idle.set)
      BY <2>2 DEF WebSignal
    <3>3. At("begin", Idle.set) \in Stations
      BY StationIs DEF Places
    <3> QED
      BY <3>1, <3>2, <3>3 DEF MqttTyped, ClientTyped
  <2>3. CASE SaveSettings \/ UserStops \/ TestConnection \/ WebStore
               \/ Reconnect \/ TestWaits
    <3>1. UNCHANGED <<applied, mutex, conn, restart>>
      BY <2>3 DEF SaveSettings, UserStops, TestConnection, WebStore,
                  Reconnect, TestWaits, WebUnchanged, mqttClient
    <3> QED
      BY <3>1 DEF MqttTyped, ClientTyped
  <2> QED
    BY <2>1, <2>2, <2>3 DEF WebStep
<1>3. TasksTyped'
  <2>1. web.set \in SavedSettings /\ saved \in SavedSettings
    BY StationIs DEF MqttTyped, TasksTyped
  <2>2. CASE SaveSettings
    <3>1. /\ saves' \in 0..MaxSaves /\ saves' = saves + 1 /\ saved' = saved
      BY <2>2, CallsAssumption DEF SaveSettings, MqttTyped, TasksTyped
    <3>2. PICK p \in {"halt", "store"}, on \in BOOLEAN :
            web' = At(p, [v |-> saves + 1, on |-> on])
      BY <2>2 DEF SaveSettings
    <3>3. [v |-> saves + 1, on |-> on] \in SavedSettings
      BY <3>1 DEF SavedSettings
    <3>4. web' \in Stations
      BY <3>2, <3>3, StationIs DEF Places
    <3> QED
      BY <2>1, <3>1, <3>4 DEF TasksTyped
  <2>3. CASE UserStops
    <3>1. saves' \in 0..MaxSaves
      BY <2>3, CallsAssumption DEF UserStops, MqttTyped, TasksTyped
    <3>2. saved' \in SavedSettings /\ web' = At("stop", saved')
      BY <2>1, <2>3 DEF UserStops, SavedSettings
    <3> QED
      BY <3>1, <3>2, StationIs DEF TasksTyped, Places
  <2>4. CASE WebStore
    <3>1. /\ saves' = saves /\ (saved' = saved \/ saved' = web.set)
          /\ web' = At("signal", web.set) \/ web' = Idle
      BY <2>4 DEF WebStore
    <3>2. web' \in Stations
      BY <2>1, <3>1, StationIs DEF Places
    <3> QED
      BY <2>1, <3>1, <3>2 DEF TasksTyped, MqttTyped
  <2>5. CASE WebStop \/ WebSignal \/ TestConnection \/ Reconnect \/ TestWaits
    <3>1. /\ UNCHANGED <<saves, saved>>
          /\ \/ web' = At("store", web.set) \/ web' = Idle
             \/ web' = At("test", Idle.set) \/ web' = At("wait", Idle.set)
      BY <2>5 DEF WebStop, WebSignal, TestConnection, Reconnect, TestWaits,
                  WebUnchanged
    <3>2. web' \in Stations
      BY <2>1, <3>1, StationIs DEF Places
    <3> QED
      BY <3>1, <3>2 DEF TasksTyped, MqttTyped
  <2> QED
    BY <2>2, <2>3, <2>4, <2>5 DEF WebStep
<1> QED
  BY <1>1, <1>2, <1>3 DEF MqttTyped

\* The restart task and the supervisor.
LEMMA RestartTyped ==
  ASSUME MqttTyped, RestartStep \/ SupervisorStep
  PROVE  MqttTyped'
<1>1. TasksTyped'
  <2>1. UNCHANGED <<saved, web, saves>>
    BY DEF RestartStep, RestartBegins, RestartCloses, RestartConfigures,
           AddTopic, SendTopic, RestartDials, RestartStops, RestartEnds,
           RestartUnchanged, SupervisorStep, SupervisorWakes, SupervisorStops
  <2> QED
    BY <2>1 DEF MqttTyped, TasksTyped
<1>2. LoginsBounded'
  <2>1. /\ UNCHANGED <<dials, event>>
        /\ refused' = refused \/ refused' = 0
    BY DEF RestartStep, RestartBegins, RestartCloses, RestartConfigures,
           AddTopic, SendTopic, RestartDials, RestartStops, RestartEnds,
           RestartUnchanged, SupervisorStep, SupervisorWakes,
           SupervisorStops, mqttLink
  <2>2. event = "refused" => 0 < dials
    BY DEF MqttTyped, LoginsBounded
  <2> QED
    BY <2>1, <2>2 DEF MqttTyped, LoginsBounded
<1>3. /\ restart.set \in SavedSettings /\ saved \in SavedSettings
      /\ restart.set.v \in 0..MaxSaves
  BY StationIs DEF MqttTyped, TasksTyped, ClientTyped, SavedSettings
<1>4. \A p \in Places : RestartTo(p) => restart' \in Stations
  BY <1>3, StationIs DEF RestartTo
<1>5. CASE RestartBegins
  <2>1. /\ UNCHANGED <<applied, conn>>
        /\ mutex' = "restart" \/ mutex' = mutex
        /\ \/ restart' = At("close", saved) \/ restart' = At("config", saved)
           \/ restart' = At("stop", saved)
    BY <1>5 DEF RestartBegins, mqttClient
  <2>2. restart' \in Stations
    BY <1>3, <2>1, StationIs DEF Places
  <2> QED
    BY <1>1, <1>2, <2>1, <2>2 DEF MqttTyped, ClientTyped
<1>6. CASE RestartStops
  <2>1. /\ StopClient \/ StopFails
        /\ RestartTo("end")
    BY <1>6 DEF RestartStops
  <2>2. restart' \in Stations
    BY <1>4, <2>1 DEF Places
  <2> QED
    BY <1>1, <1>2, <2>1, <2>2, StopTyped DEF MqttTyped, ClientTyped
<1>7. CASE SupervisorStep
  <2>1. restart' = restart
    BY <1>7 DEF SupervisorStep, SupervisorWakes, SupervisorStops
  <2>2. \/ UNCHANGED <<applied, mutex, conn>>
        \/ StopClient \/ StopFails
    BY <1>7 DEF SupervisorStep, SupervisorWakes, SupervisorStops, mqttClient,
                mqttLink
  <2> QED
    BY <1>1, <1>2, <2>1, <2>2, StopTyped DEF MqttTyped, ClientTyped
<1>8. CASE \/ RestartCloses \/ RestartConfigures \/ AddTopic \/ SendTopic
           \/ RestartDials \/ RestartEnds
  <2>1. restart' \in Stations
    <3>1. \/ \E p \in Places : RestartTo(p)
          \/ restart' = Idle
      BY <1>8 DEF RestartCloses, RestartConfigures, AddTopic, SendTopic,
                  RestartDials, RestartEnds, GiveMutex, Places
    <3> QED
      BY <1>4, <3>1, StationIs
  <2>2. /\ applied' = applied \/ applied' = restart.set.v
        /\ mutex' = mutex \/ mutex' = "free"
        /\ conn' = conn \/ conn' = "error" \/ conn' = "disconnected"
    BY <1>8 DEF RestartCloses, RestartConfigures, AddTopic, SendTopic,
                RestartDials, RestartEnds, GiveMutex, mqttClient, Configure
  <2> QED
    BY <1>1, <1>2, <1>3, <2>1, <2>2 DEF MqttTyped, ClientTyped
<1> QED
  BY <1>5, <1>6, <1>7, <1>8 DEF RestartStep

\* The client's own task: one login at most is refused for each dial.
LEMMA ClientTypedNext ==
  ASSUME MqttTyped,
         Dial \/ Accepted \/ Resubscribe \/ Refused \/ SuspendAsync \/ Closed
           \/ LinkCloses
  PROVE  MqttTyped'
<1>1. UNCHANGED <<saved, web, saves, restart, applied, mutex>>
  BY DEF Dial, Accepted, Resubscribe, Refused, SuspendAsync, Closed,
         LinkCloses, ClientUnchanged
<1>2. conn' \in {conn, "disconnected", "connected", "error"}
  BY DEF Dial, Accepted, Resubscribe, Refused, SuspendAsync, Closed,
         LinkCloses
<1>3. LoginsBounded'
  <2>1. CASE Dial
    <3>1. dials' = dials + 1 /\ dials' <= MaxDials /\ refused' = refused
      BY <2>1, CallsAssumption DEF Dial, MqttTyped, LoginsBounded
    <3> QED
      BY <3>1, CallsAssumption DEF MqttTyped, LoginsBounded
  <2>2. CASE Refused
    <3>1. /\ refused' = refused + 1 /\ dials' = dials
          /\ event = "refused" /\ event' # "refused"
      BY <2>2 DEF Refused
    <3> QED
      BY <3>1 DEF MqttTyped, LoginsBounded
  <2>3. CASE Accepted \/ Resubscribe \/ SuspendAsync \/ Closed \/ LinkCloses
    <3>1. /\ dials' = dials /\ (refused' = refused \/ refused' = 0)
          /\ event' # "refused"
      BY <2>3 DEF Accepted, Resubscribe, SuspendAsync, Closed, LinkCloses
    <3> QED
      BY <3>1 DEF MqttTyped, LoginsBounded
  <2> QED
    BY <2>1, <2>2, <2>3
<1> QED
  BY <1>1, <1>2, <1>3 DEF MqttTyped, TasksTyped, ClientTyped

\* The types are kept by every step.
LEMMA MqttTypedNext == ASSUME MqttTyped, [MqttNext]_mqttVars PROVE MqttTyped'
<1>1. CASE UNCHANGED mqttVars
  BY <1>1 DEF mqttVars, mqttTasks, mqttClient, mqttLink, MqttTyped,
              TasksTyped, ClientTyped, LoginsBounded
<1> QED
  BY <1>1, WebTyped, RestartTyped, ClientTypedNext DEF MqttNext

\* They are the shape that the module promises.
LEMMA MqttTypedIsType == ASSUME MqttTyped PROVE MqttTypeOK
<1>1. /\ saved.v \in 0..MaxSaves /\ applied \in 0..MaxSaves
      /\ web.at \in Places /\ restart.at \in Places
  BY StationIs DEF MqttTyped, TasksTyped, ClientTyped, SavedSettings
<1>2. refused \in 0..MaxDials
  BY CallsAssumption DEF MqttTyped, LoginsBounded
<1> QED
  BY <1>1, <1>2 DEF MqttTyped, ClientTyped, MqttTypeOK
-----------------------------------------------------------------------------
(***************************************************************************)
(* The three components side by side: each step of the model is a step of  *)
(* each of them or leaves it alone, so their invariants hold together.     *)
(***************************************************************************)
GatewayInv ==
  FlowInv /\ Ledger /\ PipeBounds /\ DiscoveryInv /\ MqttTyped

\* A step of the model is one of each part, or leaves the part alone.
LEMMA GatewayParts ==
  ASSUME [GatewayNext]_gatewayVars
  PROVE  /\ [PipelineNext]_pipelineVars /\ [DiscoveryNext]_scanVars
         /\ [MqttNext]_mqttVars
BY DEF GatewayNext, InPipeline, InDiscovery, InMqtt, gatewayVars

\* So it keeps the invariants of all of them.
LEMMA GatewayKeeps ==
  ASSUME GatewayInv, [GatewayNext]_gatewayVars PROVE GatewayInv'
<1>1. /\ [PipelineNext]_pipelineVars /\ [DiscoveryNext]_scanVars
      /\ [MqttNext]_mqttVars
  BY GatewayParts
<1>2. FlowInv' /\ Ledger' /\ PipeBounds'
  BY <1>1, FlowInvNext, PipeBoundsNext DEF GatewayInv
<1>3. DiscoveryInv' /\ MqttTyped'
  BY <1>1, DiscoveryKeeps, MqttTypedNext DEF GatewayInv
<1> QED
  BY <1>2, <1>3 DEF GatewayInv

\* The queues, the state pool, the device list and the client's counters
\* keep the lengths and ranges of the code, for all their sizes.
THEOREM GatewayTypeCorrect == GatewaySpec => []GatewayTypeOK
<1>1. GatewaySpec => GatewayInit /\ [][GatewayNext]_gatewayVars
  BY PTL DEF GatewaySpec
<1>2. GatewayInit => GatewayInv
  BY FlowInvInit, PipeBoundsInit, DiscoveryStarts, MqttTypedInit
  DEF GatewayInit, GatewayInv
<1>3. GatewayInv => GatewayTypeOK
  BY PipelineTyped, DiscoveryTyped, MqttTypedIsType
  DEF GatewayInv, GatewayTypeOK
<1> QED
  BY <1>1, <1>2, <1>3, GatewayKeeps, PTL

\* Every behaviour of the model is one of each part, which may stand still.
LEMMA GatewayPartsImplemented ==
  GatewaySpec => PipelineSteps /\ MqttSteps /\ DiscoverySteps
<1>1. GatewaySpec => GatewayInit /\ [][GatewayNext]_gatewayVars
  BY PTL DEF GatewaySpec
<1>2. GatewayInit => PipelineInit /\ MqttInit /\ DiscoveryInit
  BY DEF GatewayInit
<1>3. [GatewayNext]_gatewayVars => /\ [PipelineNext]_pipelineVars
                                   /\ [DiscoveryNext]_scanVars
                                   /\ [MqttNext]_mqttVars
  BY GatewayParts
<1> QED
  BY <1>1, <1>2, <1>3, PTL DEF PipelineSteps, MqttSteps, DiscoverySteps

(***************************************************************************)
(* What the three groups of tasks never do, in their common model: no      *)
(* reading vanishes uncounted and the pool does not go back; the broker    *)
(* knows the topics and a stop is a stop; the list of devices is in order  *)
(* after a scan and keeps the user's edits.                                *)
(***************************************************************************)
THEOREM GatewaySafe ==
  GatewaySpec => /\ []LossAccounted  /\ PoolForward
                 /\ []TopicsAtBroker /\ StopHolds
                 /\ []ListSettled    /\ EditsSurviveApply
BY GatewayPartsImplemented, ReadingsAccounted, PoolMovesForward,
   TopicsReachTheBroker, StopIsKept, ListSettles, EditsSurvive, PTL
=============================================================================
