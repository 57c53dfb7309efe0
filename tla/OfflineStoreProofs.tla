------------------------ MODULE OfflineStoreProofs ------------------------
(***************************************************************************)
(* No record is lost silently, and the offline store implements            *)
(* DurableQueue, for every set of sequence identifiers and every capacity. *)
(* Each helper of the store keeps every file except the one whose record   *)
(* its caller charges to s_data_loss or was asked to remove, and brings    *)
(* none but the one being put.  Every step is then one of the queue, and   *)
(* the queue loses nothing silently.                                       *)
(***************************************************************************)
EXTENDS OfflineStore, FiniteSetTheorems, WellFoundedInduction, TLAPS

\* Medium e has every complete record of medium d, but for those in gone.
Keeps(d, e, gone) == e \in Medium /\ d.files \ gone \subseteq e.files

\* readdir() returns record names.
LEMMA DirType ==
  ASSUME NEW d \in Medium
  PROVE  Dir(d) \subseteq Seqs
BY DEF Dir, Medium

\* A nonempty set of sequence identifiers has a least element.
LEMMA LeastExists ==
  ASSUME NEW S, S \subseteq Seqs, S # {}
  PROVE  \E s \in S : IsLeast(s, S)
<1>1. S \subseteq Nat
  BY SeqsAssumption
<1>2. PICK x \in S : \A y \in S : ~ (<<y, x>> \in OpToRel(<, Nat))
  BY <1>1, NatLessThanWellFounded, WFMin
<1>3. \A y \in S : ~ (y < x)
  BY <1>1, <1>2 DEF OpToRel
<1>4. QED
  BY <1>1, <1>3 DEF IsLeast

\* find_oldest_in() returns a record name, or finds none.
LEMMA FindOldestType ==
  ASSUME NEW S, S \subseteq Seqs
  PROVE  FindOldest(S) \in Seqs \cup {None}
BY LeastExists DEF FindOldest

\* Directories are finite.
LEMMA CountType ==
  ASSUME NEW d \in Medium
  PROVE  Cardinality(Dir(d)) \in Int
<1>1. IsFiniteSet(Dir(d))
  BY DirType, SeqsAssumption, FS_Subset
<1>2. QED
  BY <1>1, FS_CardinalityType

\* load_store_state() leaves the files alone.
LEMMA LoadKeeps ==
  ASSUME NEW d \in Medium
  PROVE  /\ Keeps(d, LoadStoreState(d), {})
         /\ LoadStoreState(d).files = d.files
         /\ LoadStoreState(d).unsynced = d.unsynced
BY DirType, CountType, FindOldestType DEF LoadStoreState, Keeps, Medium

\* advance_oldest() leaves the files alone.
LEMMA AdvanceKeeps ==
  ASSUME NEW d \in Medium, NEW s \in Seqs
  PROVE  Keeps(d, AdvanceOldest(d, s), {})
<1>1. FindOldest(Dir(d)) \in Seqs \cup {None}
  BY DirType, FindOldestType
<1>2. s + 1 \in Dir(d) => s + 1 \in Seqs
  BY DirType
<1>3. QED
  BY <1>1, <1>2 DEF AdvanceOldest, Keeps, Medium

\* unlink() removes one record, and the count goes down by one.
LEMMA UnlinkKeeps ==
  ASSUME NEW d \in Medium, NEW s
  PROVE  LET rest == [Unlink(d, s) EXCEPT !.count = @ - 1]
         IN /\ Unlink(d, s) \in Medium
            /\ Unlink(d, s).files = d.files \ {s}
            /\ Unlink(d, s).unsynced \subseteq d.unsynced
            /\ rest \in Medium
            /\ rest.files = d.files \ {s}
            /\ rest.unsynced \subseteq d.unsynced
<1> DEFINE e == Unlink(d, s)
<1>1. /\ e \in Medium /\ e.files = d.files \ {s}
      /\ e.unsynced \subseteq d.unsynced
  BY DEF Unlink, Medium
<1> HIDE DEF e
<1>2. [e EXCEPT !.count = @ - 1] \in Medium
  BY <1>1 DEF Medium
<1>3. /\ [e EXCEPT !.count = @ - 1].files = e.files
      /\ [e EXCEPT !.count = @ - 1].unsynced = e.unsynced
  BY <1>1 DEF Medium
<1>4. QED
  BY <1>1, <1>2, <1>3 DEF e

\* remove_oldest() keeps every record but the one it charges.
LEMMA RemoveOldestKeeps ==
  ASSUME NEW d \in Medium
  PROVE  Keeps(d, RemoveOldest(d), Evicted(d))
<1>1. CASE d.count <= 0 \/ d.oldest = None
  BY <1>1 DEF RemoveOldest, Keeps
<1>2. CASE ~(d.count <= 0 \/ d.oldest = None) /\ d.oldest \notin Dir(d)
  BY <1>2, LoadKeeps DEF RemoveOldest, Keeps
<1>3. CASE ~(d.count <= 0 \/ d.oldest = None) /\ d.oldest \in Dir(d)
  <2> DEFINE rest == [Unlink(d, d.oldest) EXCEPT !.count = @ - 1]
  <2>1. rest \in Medium /\ rest.files = d.files \ {d.oldest}
    BY UnlinkKeeps
  <2>2. d.oldest \in Seqs
    BY <1>3, DirType
  <2>3. Evicted(d) = {d.oldest}
    BY <1>3 DEF Evicted, CanRemoveOldest, Medium
  <2>4. Keeps(rest, AdvanceOldest(rest, d.oldest), {})
    BY <2>1, <2>2, AdvanceKeeps
  <2>5. RemoveOldest(d) = AdvanceOldest(rest, d.oldest)
    BY <1>3 DEF RemoveOldest
  <2>6. QED
    BY <2>1, <2>3, <2>4, <2>5 DEF Keeps
<1>4. QED
  BY <1>1, <1>2, <1>3

AnyOutcome == {"ok", "unsynced", "refused", "cut"}

\* write_record() touches no record but its own, and has it when it succeeds.
LEMMA WriteKeeps ==
  ASSUME NEW d \in Medium, NEW s \in Seqs, NEW w \in AnyOutcome
  PROVE  /\ Keeps(d, WriteRecord(d, s, w), {s})
         /\ Reported(w) => /\ s \in WriteRecord(d, s, w).files
                           /\ Keeps(d, WriteRecord(d, s, w), {})
BY DEF WriteRecord, Reported, AnyOutcome, Keeps, Medium

WithIndex(d, n, o) == [d EXCEPT !.count = n, !.oldest = o]

\* Count and oldest can be set without touching the files.
LEMMA WithIndexKeeps ==
  ASSUME NEW d \in Medium, NEW n \in Int, NEW o \in Seqs \cup {None}
  PROVE  /\ WithIndex(d, n, o) \in Medium
         /\ WithIndex(d, n, o).files = d.files
         /\ WithIndex(d, n, o).unsynced = d.unsynced
BY DEF WithIndex, Medium

\* Filling in the index leaves the files alone.
LEMMA IndexedKeeps ==
  ASSUME NEW d \in Medium, NEW s \in Seqs
  PROVE  /\ Indexed(d, s) \in Medium
         /\ Indexed(d, s).files = d.files
         /\ Indexed(d, s).unsynced = d.unsynced
         /\ IndexedIfFirst(d, s) \in Medium
         /\ IndexedIfFirst(d, s).files = d.files
         /\ IndexedIfFirst(d, s).unsynced = d.unsynced
<1> DEFINE low   == IF d.oldest = None \/ s < d.oldest THEN s ELSE d.oldest
           first == IF d.oldest = None THEN s ELSE d.oldest
<1>1. low \in Seqs \cup {None} /\ first \in Seqs \cup {None}
  BY DEF Medium
<1>2. /\ Indexed(d, s) = WithIndex(d, d.count + 1, low)
      /\ IndexedIfFirst(d, s) = WithIndex(d, d.count + 1, first)
  BY DEF Indexed, IndexedIfFirst, WithIndex
<1> HIDE DEF low, first
<1>3. d.count + 1 \in Int
  BY DEF Medium
<1>4. QED
  BY <1>1, <1>2, <1>3, WithIndexKeeps

\* offline_store_remove() removes no other record.
LEMMA UnlinkedKeeps ==
  ASSUME NEW d \in Medium, NEW s \in Seqs
  PROVE  Keeps(d, Unlinked(d, s), {s})
<1> DEFINE rest == [Unlink(d, s) EXCEPT !.count = @ - 1]
<1>1. rest \in Medium /\ rest.files = d.files \ {s}
  BY UnlinkKeeps
<1>2. Unlink(d, s) \in Medium /\ Unlink(d, s).files = d.files \ {s}
  BY UnlinkKeeps
<1>3. Keeps(rest, AdvanceOldest(rest, s), {})
  BY <1>1, AdvanceKeeps
<1>4. QED
  BY <1>1, <1>2, <1>3 DEF Unlinked, Keeps

\* A reset forgets the index, not the files.
LEMMA UnindexedType ==
  ASSUME NEW d \in Medium
  PROVE  Unindexed(d) \in Medium
<1> DEFINE e == WithIndex(d, 0, None)
<1>1. e \in Medium
  BY WithIndexKeeps
<1>2. Unindexed(d) = [e EXCEPT !.io = FALSE]
  BY DEF Unindexed, WithIndex
<1> HIDE DEF e
<1>3. QED
  BY <1>1, <1>2 DEF Medium

\* Mounting a medium.
LEMMA MountType ==
  ASSUME NEW d \in Medium, NEW b \in BOOLEAN
  PROVE  /\ [d EXCEPT !.io = b] \in Medium
         /\ [d EXCEPT !.io = b].files = d.files
         /\ [d EXCEPT !.io = b].unsynced = d.unsynced
BY DEF Medium

\* The pruning at boot yields a medium.
LEMMA PrunedType ==
  ASSUME NEW d \in Medium
  PROVE  Pruned(d) \in Medium
<1> DEFINE kept == Newest(Dir(d))
           e    == [d EXCEPT !.files = @ \cap kept,
                             !.unsynced = @ \cap kept,
                             !.torn = @ \cap kept]
<1> HIDE DEF kept
<1>1. e \in Medium
  BY DEF Medium
<1> HIDE DEF e
<1>2. LoadStoreState(e) \in Medium
  BY <1>1, LoadKeeps DEF Keeps
<1>3. QED
  BY <1>2 DEF Pruned, e, kept

\* What each medium keeps, the store keeps.
LEMMA HeldKeeps ==
  ASSUME NEW gone,
         \A m \in Media : Keeps(store[m], store'[m], gone),
         store' = [m \in Media |-> store'[m]]
  PROVE  store' \in [Media -> Medium] /\ Held \ gone \subseteq Held'
<1>1. \A m \in Media : store'[m] \in Medium
  BY DEF Keeps
<1>2. store' \in [Media -> Medium]
  BY <1>1
<1>3. Held \ gone \subseteq Held'
  BY DEF Held, Keeps
<1>4. QED
  BY <1>2, <1>3

\* Medium e has no record that medium d has not, and no incomplete one, but
\* for those in new.
Gains(d, e, new) ==
  /\ e \in Medium
  /\ e.files \subseteq d.files \cup new
  /\ e.unsynced \subseteq d.unsynced \cup new

\* advance_oldest() brings no record.
LEMMA AdvanceGains ==
  ASSUME NEW d \in Medium, NEW s \in Seqs
  PROVE  Gains(d, AdvanceOldest(d, s), {})
<1>1. AdvanceOldest(d, s) \in Medium
  BY AdvanceKeeps DEF Keeps
<1>2. /\ AdvanceOldest(d, s).files = d.files
      /\ AdvanceOldest(d, s).unsynced = d.unsynced
  BY DEF AdvanceOldest, Medium
<1> QED
  BY <1>1, <1>2 DEF Gains

\* remove_oldest() brings no record, whether it unlinks or reloads.
LEMMA RemoveOldestGains ==
  ASSUME NEW d \in Medium
  PROVE  Gains(d, RemoveOldest(d), {})
<1>1. CASE d.count <= 0 \/ d.oldest = None
  BY <1>1 DEF RemoveOldest, Gains
<1>2. CASE ~(d.count <= 0 \/ d.oldest = None) /\ d.oldest \notin Dir(d)
  BY <1>2, LoadKeeps DEF RemoveOldest, Keeps, Gains
<1>3. CASE ~(d.count <= 0 \/ d.oldest = None) /\ d.oldest \in Dir(d)
  <2> DEFINE rest == [Unlink(d, d.oldest) EXCEPT !.count = @ - 1]
  <2>1. /\ rest \in Medium /\ rest.files = d.files \ {d.oldest}
        /\ rest.unsynced \subseteq d.unsynced
    BY UnlinkKeeps
  <2>2. d.oldest \in Seqs
    BY <1>3, DirType
  <2>3. RemoveOldest(d) = AdvanceOldest(rest, d.oldest)
    BY <1>3 DEF RemoveOldest
  <2> HIDE DEF rest
  <2>4. Gains(rest, AdvanceOldest(rest, d.oldest), {})
    BY <2>1, <2>2, AdvanceGains
  <2> QED
    BY <2>1, <2>3, <2>4 DEF Gains
<1> QED
  BY <1>1, <1>2, <1>3

\* write_record() brings its own record, and only if it succeeds.
LEMMA WriteGains ==
  ASSUME NEW d \in Medium, NEW s \in Seqs, NEW w \in AnyOutcome
  PROVE  Gains(d, WriteRecord(d, s, w), IF Reported(w) THEN {s} ELSE {})
BY DEF WriteRecord, Reported, AnyOutcome, Gains, Medium

\* offline_store_remove() brings no record.
LEMMA UnlinkedGains ==
  ASSUME NEW d \in Medium, NEW s \in Seqs
  PROVE  Gains(d, Unlinked(d, s), {})
<1> DEFINE rest == [Unlink(d, s) EXCEPT !.count = @ - 1]
<1>1. /\ rest \in Medium /\ rest.files = d.files \ {s}
      /\ rest.unsynced \subseteq d.unsynced
      /\ Unlink(d, s) \in Medium /\ Unlink(d, s).files = d.files \ {s}
      /\ Unlink(d, s).unsynced \subseteq d.unsynced
  BY UnlinkKeeps
<1>2. Gains(rest, AdvanceOldest(rest, s), {})
  BY <1>1, AdvanceGains
<1>3. Unlinked(d, s) \in {d, Unlink(d, s), rest, AdvanceOldest(rest, s)}
  BY DEF Unlinked
<1> HIDE DEF rest
<1> QED
  BY <1>1, <1>2, <1>3 DEF Gains

\* The pruning at boot brings no record.
LEMMA PrunedGains ==
  ASSUME NEW d \in Medium
  PROVE  Gains(d, Pruned(d), {})
<1> DEFINE kept == Newest(Dir(d))
           e    == [d EXCEPT !.files = @ \cap kept,
                             !.unsynced = @ \cap kept,
                             !.torn = @ \cap kept]
<1> HIDE DEF kept
<1>1. /\ e \in Medium /\ e.files = d.files \cap kept
      /\ e.unsynced \subseteq d.unsynced
  BY DEF Medium
<1> HIDE DEF e
<1>2. /\ LoadStoreState(e).files = e.files
      /\ LoadStoreState(e).unsynced = e.unsynced
  BY <1>1, LoadKeeps
<1>3. Pruned(d) \in Medium
  BY PrunedType
<1>4. Pruned(d) = LoadStoreState(e)
  BY DEF Pruned, e, kept
<1> QED
  BY <1>1, <1>2, <1>3, <1>4 DEF Gains

\* What no medium gains, the store does not gain.
LEMMA HeldGains ==
  ASSUME NEW new, \A m \in Media : Gains(store[m], store'[m], new)
  PROVE  /\ Held' \subseteq Held \cup new
         /\ Unsynced' \subseteq Unsynced \cup new
BY DEF Held, Unsynced, Gains
-----------------------------------------------------------------------------
(***************************************************************************)
(* Whatever is owed is held; whatever is stored was handed to              *)
(* offline_store_put(), so that the file a put opens is no other record's. *)
(***************************************************************************)
StoreInv == TypeOK /\ owed \subseteq Held /\ Held \subseteq handed

\* What is owed is held, complete or not.
LEMMA OwedIsHeld == StoreInv => NoSilentLoss
BY DEF StoreInv, NoSilentLoss, Held, Whole, Unsynced

(***************************************************************************)
(* The steps of the queue.                                                 *)
(***************************************************************************)
AtMostOne(S) == \A x, y \in S : x = y

\* remove_oldest() charges one record at most.
LEMMA EvictedOne == \A d : AtMostOne(Evicted(d)) /\ AtMostOne({})
BY DEF Evicted, AtMostOne

\* None is no sequence identifier.
LEMMA NoneIsNoSeq == None \notin Seqs
BY SeqsAssumption DEF None

\* What a put of s did that charged lost1 and lost2.
PutDid(s, stored, lost1, lost2) ==
  /\ Held \ (lost1 \cup lost2 \cup {s}) \subseteq Held'
  /\ Held' \subseteq Held \cup (IF stored THEN {s} ELSE {})
  /\ Unsynced' \subseteq Unsynced \cup (IF stored THEN {s} ELSE {})
  /\ stored => s \in Held'
  /\ owed' = IF stored THEN (owed \ (lost1 \cup lost2)) \cup {s}
             ELSE owed \ (lost1 \cup lost2 \cup {s})

\* The charged record, as far as the queue knows it.
Charged(lost) == IF lost \cap Held = {} THEN None
                 ELSE CHOOSE x \in lost \cap Held : TRUE

\* What is owed is held, so a charge for another record changes nothing.
LEMMA ChargedIsLost ==
  ASSUME StoreInv, NEW lost, AtMostOne(lost)
  PROVE  /\ Charged(lost) \in Held \cup {None}
         /\ lost \cap Held \subseteq {Charged(lost)}
         /\ \A x \in owed : x \in lost <=> x = Charged(lost)
<1>1. owed \subseteq Held /\ owed \subseteq Seqs
  BY DEF StoreInv, TypeOK
<1>2. CASE lost \cap Held = {}
  BY <1>1, <1>2, NoneIsNoSeq DEF Charged
<1>3. CASE lost \cap Held # {}
  BY <1>1, <1>3 DEF Charged, AtMostOne
<1> QED
  BY <1>2, <1>3

\* A put is an Accept or a GiveUp of the queue.
LEMMA PutIsQueueStep ==
  ASSUME StoreInv, NEW s \in Seqs, NEW stored \in BOOLEAN,
         NEW lost1, NEW lost2, AtMostOne(lost1), AtMostOne(lost2),
         PutDid(s, stored, lost1, lost2)
  PROVE  Queue!Next
<1> DEFINE x == Charged(lost1)
           y == Charged(lost2)
           gone == Held \ Held'
<1>1. x \in Held \cup {None} /\ y \in Held \cup {None}
  BY ChargedIsLost
<1>2. gone \subseteq {x, y, s}
  BY ChargedIsLost DEF PutDid
<1>3. \A z \in owed : z \in lost1 \cup lost2 <=> z \in {x, y}
  BY ChargedIsLost
<1> HIDE DEF x, y
<1>4. CASE stored
  <2>1. gone \in SUBSET {x, y}
    BY <1>2, <1>4 DEF PutDid
  <2>2. Held' = (Held \ gone) \cup {s}
    BY <1>4 DEF PutDid
  <2>3. owed' = (owed \ {x, y}) \cup {s}
    BY <1>3, <1>4 DEF PutDid
  <2>4. Unsynced' \subseteq Unsynced \cup {s}
    BY <1>4 DEF PutDid
  <2>5. Queue!Accept(s)
    BY <1>1, <2>1, <2>2, <2>3, <2>4 DEF Queue!Accept
  <2> QED
    BY <2>5 DEF Queue!Next
<1>5. CASE ~stored
  <2>1. gone \in SUBSET {x, y, s}
    BY <1>2
  <2>2. Held' = Held \ gone
    BY <1>5 DEF PutDid
  <2>3. owed' = owed \ {x, y, s}
    BY <1>3, <1>5 DEF PutDid
  <2>4. Unsynced' \subseteq Unsynced
    BY <1>5 DEF PutDid
  <2>5. Queue!GiveUp(s)
    BY <1>1, <2>1, <2>2, <2>3, <2>4 DEF Queue!GiveUp
  <2> QED
    BY <2>5 DEF Queue!Next
<1> QED
  BY <1>4, <1>5
-----------------------------------------------------------------------------
\* A step of the store keeps the types, is one of the queue or none, and
\* brings no record that the store was never given.
QueueStep ==
  /\ TypeOK'
  /\ [Queue!Next]_<<Held, Unsynced, owed>>
  /\ Held' \subseteq handed'

\* Flash, after a put that it did not take.
LEMMA MissedKeeps ==
  ASSUME TypeOK, NEW s \in Seqs, NEW flash \in FlashMissed(s)
  PROVE  Keeps(store["flash"], flash, {s})
<1>1. store["flash"] \in Medium
  BY DEF TypeOK, Media
<1>2. Keeps(store["flash"], WriteRecord(store["flash"], s, "cut"), {s})
  BY <1>1, WriteKeeps DEF AnyOutcome
<1>3. Keeps(store["flash"], store["flash"], {s})
  BY <1>1 DEF Keeps
<1>4. flash \in {store["flash"], WriteRecord(store["flash"], s, "cut")}
  BY DEF FlashMissed
<1>5. QED
  BY <1>2, <1>3, <1>4

\* Flash, after a put that it did not take, has gained nothing.
LEMMA MissedGains ==
  ASSUME StoreInv, NEW s \in Seqs, NEW flash \in FlashMissed(s)
  PROVE  Gains(store["flash"], flash, {})
<1>1. store["flash"] \in Medium
  BY DEF StoreInv, TypeOK, Media
<1>2. Gains(store["flash"], WriteRecord(store["flash"], s, "cut"), {})
  BY <1>1, WriteGains DEF AnyOutcome, Reported
<1>3. flash \in {store["flash"], WriteRecord(store["flash"], s, "cut")}
  BY DEF FlashMissed
<1> QED
  BY <1>1, <1>2, <1>3 DEF Gains

\* The put that Flash takes.
LEMMA PutFlashStep ==
  ASSUME StoreInv, NEW s \in Seqs, PutFlash(s)
  PROVE  QueueStep
<1>0. PICK x \in {"ok", "unsynced"} :
        store' = [store EXCEPT !["flash"] = Indexed(WriteRecord(@, s, x), s)]
  BY DEF PutFlash
<1> DEFINE d == store["flash"]
           w == WriteRecord(d, s, x)
           e == Indexed(w, s)
<1>1. d \in Medium /\ store["tf"] \in Medium
  BY DEF StoreInv, TypeOK, Media
<1>2. Keeps(d, w, {}) /\ s \in w.files /\ Gains(d, w, {s})
  BY <1>1, WriteKeeps, WriteGains DEF AnyOutcome, Reported
<1>3. e \in Medium /\ e.files = w.files /\ e.unsynced = w.unsynced
  BY <1>2, IndexedKeeps DEF Keeps
<1>4. store' = [store EXCEPT !["flash"] = e]
  BY <1>0
<1> HIDE DEF w, e
<1>5. store' = [m \in Media |-> IF m = "flash" THEN e ELSE store[m]]
  BY <1>4 DEF StoreInv, TypeOK
<1>6. /\ \A m \in Media : Keeps(store[m], store'[m], {})
      /\ \A m \in Media : Gains(store[m], store'[m], {s})
      /\ store' = [m \in Media |-> store'[m]]
  BY <1>1, <1>2, <1>3, <1>5 DEF Keeps, Gains, Media
<1>7. /\ store' \in [Media -> Medium]
      /\ Held \subseteq Held' /\ Held' \subseteq Held \cup {s}
      /\ Unsynced' \subseteq Unsynced \cup {s}
  BY <1>6, HeldKeeps, HeldGains
<1>8. s \in Held'
  BY <1>2, <1>3, <1>5 DEF Held, Media
<1>9. PutDid(s, TRUE, {}, {})
  BY <1>7, <1>8 DEF PutFlash, PutDid
<1>10. Queue!Next
  BY <1>9, EvictedOne, PutIsQueueStep
<1>11. TypeOK'
  BY <1>7 DEF PutFlash, Offered, StoreInv, TypeOK
<1> QED
  BY <1>7, <1>10, <1>11 DEF QueueStep, PutFlash, Offered, StoreInv

\* The put that goes to the card.
LEMMA PutTfStep ==
  ASSUME StoreInv, NEW s \in Seqs, PutTf(s)
  PROVE  QueueStep
<1> DEFINE card  == store["tf"]
           full  == card.count >= MaxRecords
           room  == IF full THEN RemoveOldest(card) ELSE card
           lost1 == IF full THEN Evicted(card) ELSE {}
           first(w)     == WriteRecord(room, s, w)
           retry(w)     == ~Reported(w) /\ CanRemoveOldest(first(w))
           lost2(w)     == IF retry(w) THEN Evicted(first(w)) ELSE {}
           room2(w)     == IF Reported(w) THEN first(w)
                           ELSE RemoveOldest(first(w))
           second(w, v) == IF retry(w) THEN WriteRecord(room2(w), s, v)
                           ELSE room2(w)
           stored(w, v) == Reported(w) \/ (retry(w) /\ Reported(v))
           tf(w, v)     == IF stored(w, v) THEN Indexed(second(w, v), s)
                           ELSE second(w, v)
<1>1. PICK flash \in FlashMissed(s), w \in Outcomes(card),
           v \in Outcomes(card) :
        /\ store' = [m \in Media |-> IF m = "flash" THEN flash ELSE tf(w, v)]
        /\ owed' = IF stored(w, v) THEN (owed \ (lost1 \cup lost2(w))) \cup {s}
                   ELSE owed \ (lost1 \cup lost2(w) \cup {s})
        /\ ragged' = Ragged(s \in flash.torn \/ s \in tf(w, v).torn)
  BY DEF PutTf
<1> DEFINE new == IF stored(w, v) THEN {s} ELSE {}
<1>2. w \in AnyOutcome /\ v \in AnyOutcome
  BY DEF Outcomes, AnyOutcome
<1>3. store["flash"] \in Medium /\ card \in Medium
  BY DEF StoreInv, TypeOK, Media
<1>4. /\ Keeps(card, room, lost1) /\ Gains(card, room, {})
      /\ AtMostOne(lost1) /\ AtMostOne(lost2(w))
  BY <1>3, RemoveOldestKeeps, RemoveOldestGains, EvictedOne DEF Keeps, Gains
<1> HIDE DEF room, lost1
<1>5. /\ Keeps(room, first(w), {s})
      /\ Reported(w) => s \in first(w).files
      /\ Gains(room, first(w), IF Reported(w) THEN {s} ELSE {})
  BY <1>2, <1>4, WriteKeeps, WriteGains DEF Keeps
<1> HIDE DEF first
<1>6. /\ Keeps(first(w), room2(w), lost2(w))
      /\ Reported(w) => room2(w).files = first(w).files
      /\ Gains(first(w), room2(w), {})
  <2>1. /\ Keeps(first(w), RemoveOldest(first(w)), Evicted(first(w)))
        /\ Gains(first(w), RemoveOldest(first(w)), {})
    BY <1>5, RemoveOldestKeeps, RemoveOldestGains DEF Keeps
  <2>2. ~CanRemoveOldest(first(w)) => Evicted(first(w)) = {}
    BY DEF Evicted
  <2>3. Keeps(first(w), first(w), {}) /\ Gains(first(w), first(w), {})
    BY <1>5 DEF Keeps, Gains
  <2> QED
    BY <2>1, <2>2, <2>3
<1> HIDE DEF room2, lost2
<1>7. /\ Keeps(room2(w), second(w, v), {s})
      /\ stored(w, v) => s \in second(w, v).files
      /\ Gains(room2(w), second(w, v), new)
  <2>1. /\ Keeps(room2(w), WriteRecord(room2(w), s, v), {s})
        /\ Reported(v) => s \in WriteRecord(room2(w), s, v).files
        /\ Gains(room2(w), WriteRecord(room2(w), s, v),
                 IF Reported(v) THEN {s} ELSE {})
    BY <1>2, <1>6, WriteKeeps, WriteGains DEF Keeps
  <2>2. Keeps(room2(w), room2(w), {s}) /\ Gains(room2(w), room2(w), {})
    BY <1>6 DEF Keeps, Gains
  <2>3. /\ Keeps(room2(w), second(w, v), {s})
        /\ stored(w, v) => s \in second(w, v).files
    BY <1>5, <1>6, <2>1, <2>2
  <2>4. Gains(room2(w), second(w, v), new)
    BY <2>1, <2>2 DEF Gains
  <2> QED
    BY <2>3, <2>4
<1> HIDE DEF second
<1>8. /\ tf(w, v) \in Medium /\ tf(w, v).files = second(w, v).files
      /\ tf(w, v).unsynced = second(w, v).unsynced
  BY <1>7, IndexedKeeps DEF Keeps
<1>9. Reported(w) => stored(w, v)
  OBVIOUS
<1> DEFINE gone == lost1 \cup lost2(w) \cup {s}
<1> HIDE DEF retry, stored
<1>10. /\ Keeps(card, tf(w, v), gone)
       /\ stored(w, v) => s \in tf(w, v).files
       /\ Gains(card, tf(w, v), new)
  BY <1>4, <1>5, <1>6, <1>7, <1>8, <1>9 DEF Keeps, Gains
<1> HIDE DEF tf
<1>11. /\ Keeps(store["flash"], flash, gone)
       /\ Gains(store["flash"], flash, new)
  BY MissedKeeps, MissedGains DEF Keeps, Gains, StoreInv
<1> HIDE DEF gone, new
<1>12. /\ \A m \in Media : Keeps(store[m], store'[m], gone)
       /\ \A m \in Media : Gains(store[m], store'[m], new)
       /\ store' = [m \in Media |-> store'[m]]
  BY <1>1, <1>10, <1>11 DEF Media
<1>13. /\ store' \in [Media -> Medium]
       /\ Held \ gone \subseteq Held' /\ Held' \subseteq Held \cup new
       /\ Unsynced' \subseteq Unsynced \cup new
  BY <1>12, HeldKeeps, HeldGains
<1>14. stored(w, v) => s \in Held'
  BY <1>1, <1>10 DEF Held, Media
<1>15. PutDid(s, stored(w, v), lost1, lost2(w))
  BY <1>1, <1>13, <1>14 DEF PutDid, gone, new
<1>16. stored(w, v) \in BOOLEAN
  BY DEF stored
<1>17. Queue!Next
  BY <1>4, <1>15, <1>16, PutIsQueueStep
<1>18. Held' \subseteq handed'
  BY <1>13 DEF new, PutTf, Offered, StoreInv
<1>19. TypeOK'
  BY <1>1, <1>13 DEF PutTf, Offered, StoreInv, TypeOK, Ragged
<1> QED
  BY <1>17, <1>18, <1>19 DEF QueueStep

\* The put that evicts from Flash.
LEMMA PutEvictingStep ==
  ASSUME StoreInv, NEW s \in Seqs, PutEvicting(s)
  PROVE  QueueStep
<1> DEFINE room(flash, w) == WriteRecord(RemoveOldest(flash), s, w)
           new(flash, w)  == IF Reported(w)
                             THEN IndexedIfFirst(room(flash, w), s)
                             ELSE room(flash, w)
           Puts(flash, w) ==
             /\ store' = [store EXCEPT !["flash"] = new(flash, w)]
             /\ owed' = IF Reported(w) THEN (owed \ Evicted(flash)) \cup {s}
                        ELSE owed \ (Evicted(flash) \cup {s})
             /\ ragged' = Ragged(s \in room(flash, w).torn)
             /\ late' = (late \/ (Reported(w)
                                  /\ \E t \in Dir(room(flash, w)) : s < t))
<1>0. PICK flash \in FlashMissed(s) : \E w \in Outcomes(flash) : Puts(flash, w)
  BY DEF PutEvicting
<1>1. PICK w \in Outcomes(flash) : Puts(flash, w)
  BY <1>0
<1> DEFINE own == IF Reported(w) THEN {s} ELSE {}
<1>2. w \in AnyOutcome
  BY DEF Outcomes, AnyOutcome
<1>3. store["flash"] \in Medium /\ store["tf"] \in Medium
  BY DEF StoreInv, TypeOK, Media
<1>4. Keeps(store["flash"], flash, {s}) /\ Gains(store["flash"], flash, {})
  BY MissedKeeps, MissedGains DEF StoreInv
<1>5. /\ Keeps(flash, RemoveOldest(flash), Evicted(flash))
      /\ Gains(flash, RemoveOldest(flash), {})
  BY <1>4, RemoveOldestKeeps, RemoveOldestGains DEF Keeps
<1>6. /\ Keeps(RemoveOldest(flash), room(flash, w), {s})
      /\ Reported(w) => s \in room(flash, w).files
      /\ Gains(RemoveOldest(flash), room(flash, w), own)
  BY <1>2, <1>5, WriteKeeps, WriteGains DEF Keeps
<1> HIDE DEF room
<1>7. /\ new(flash, w) \in Medium
      /\ new(flash, w).files = room(flash, w).files
      /\ new(flash, w).unsynced = room(flash, w).unsynced
  BY <1>6, IndexedKeeps DEF Keeps
<1> DEFINE gone == Evicted(flash) \cup {s}
<1>8. /\ Keeps(store["flash"], new(flash, w), gone)
      /\ Reported(w) => s \in new(flash, w).files
      /\ Gains(store["flash"], new(flash, w), own)
  BY <1>4, <1>5, <1>6, <1>7 DEF Keeps, Gains
<1>9. /\ Keeps(store["tf"], store["tf"], gone)
      /\ Gains(store["tf"], store["tf"], own)
  BY <1>3 DEF Keeps, Gains
<1> HIDE DEF new, gone, own
<1>10. store' = [m \in Media |->
                   IF m = "flash" THEN new(flash, w) ELSE store[m]]
  BY <1>1 DEF StoreInv, TypeOK
<1>11. /\ \A m \in Media : Keeps(store[m], store'[m], gone)
       /\ \A m \in Media : Gains(store[m], store'[m], own)
       /\ store' = [m \in Media |-> store'[m]]
  BY <1>8, <1>9, <1>10 DEF Media
<1>12. /\ store' \in [Media -> Medium]
       /\ Held \ gone \subseteq Held' /\ Held' \subseteq Held \cup own
       /\ Unsynced' \subseteq Unsynced \cup own
  BY <1>11, HeldKeeps, HeldGains
<1>13. Reported(w) => s \in Held'
  BY <1>8, <1>10 DEF Held, Media
<1>14. PutDid(s, Reported(w), Evicted(flash), {})
  BY <1>1, <1>12, <1>13 DEF PutDid, gone, own
<1>15. Queue!Next
  <2>1. Reported(w) \in BOOLEAN
    BY DEF Reported
  <2> QED
    BY <1>14, <2>1, EvictedOne, PutIsQueueStep
<1>16. Held' \subseteq handed'
  BY <1>12 DEF own, PutEvicting, Offered, StoreInv
<1>17. late' \in BOOLEAN
  <2> DEFINE behind == \E t \in Dir(room(flash, w)) : s < t
  <2>1. late' = (late \/ (Reported(w) /\ behind))
    BY <1>1
  <2> QED
    BY <2>1 DEF StoreInv, TypeOK
<1>18. TypeOK'
  BY <1>1, <1>12, <1>17 DEF PutEvicting, Offered, StoreInv, TypeOK, Ragged
<1> QED
  BY <1>15, <1>16, <1>18 DEF QueueStep

\* The put that is refused.
LEMMA PutRefusedStep ==
  ASSUME StoreInv, NEW s \in Seqs, PutRefused(s)
  PROVE  QueueStep
<1>1. PICK flash \in FlashMissed(s) :
        /\ ~CanRemoveOldest(flash)
        /\ store' = [store EXCEPT !["flash"] = RemoveOldest(flash)]
        /\ ragged' = Ragged(s \in flash.torn)
  BY DEF PutRefused
<1>2. store["tf"] \in Medium
  BY DEF StoreInv, TypeOK, Media
<1>3. Keeps(store["flash"], flash, {s}) /\ Gains(store["flash"], flash, {})
  BY MissedKeeps, MissedGains DEF StoreInv
<1>4. /\ Keeps(flash, RemoveOldest(flash), {})
      /\ Gains(flash, RemoveOldest(flash), {})
  BY <1>1, <1>3, RemoveOldestKeeps, RemoveOldestGains DEF Keeps, Evicted
<1>5. /\ Keeps(store["flash"], RemoveOldest(flash), {s})
      /\ Gains(store["flash"], RemoveOldest(flash), {})
      /\ Keeps(store["tf"], store["tf"], {s})
      /\ Gains(store["tf"], store["tf"], {})
  BY <1>2, <1>3, <1>4 DEF Keeps, Gains
<1>6. store' = [m \in Media |->
                  IF m = "flash" THEN RemoveOldest(flash) ELSE store[m]]
  BY <1>1 DEF StoreInv, TypeOK
<1>7. /\ \A m \in Media : Keeps(store[m], store'[m], {s})
      /\ \A m \in Media : Gains(store[m], store'[m], {})
      /\ store' = [m \in Media |-> store'[m]]
  BY <1>5, <1>6 DEF Media
<1>8. /\ store' \in [Media -> Medium]
      /\ Held \ {s} \subseteq Held' /\ Held' \subseteq Held
      /\ Unsynced' \subseteq Unsynced
  BY <1>7, HeldKeeps, HeldGains
<1>9. PutDid(s, FALSE, {}, {})
  BY <1>8 DEF PutRefused, PutDid
<1>10. Queue!Next
  BY <1>9, EvictedOne, PutIsQueueStep
<1>11. TypeOK'
  BY <1>1, <1>8 DEF PutRefused, Offered, StoreInv, TypeOK, Ragged
<1> QED
  BY <1>8, <1>10, <1>11 DEF QueueStep, PutRefused, Offered, StoreInv

\* offline_store_remove() is a Discard.
LEMMA RemoveStep ==
  ASSUME StoreInv, NEW s \in Seqs, Remove(s)
  PROVE  QueueStep
<1>1. store' = [m \in Media |-> Unlinked(store[m], s)]
  BY DEF Remove
<1>2. /\ \A m \in Media : Keeps(store[m], store'[m], {s})
      /\ \A m \in Media : Gains(store[m], store'[m], {})
  BY <1>1, UnlinkedKeeps, UnlinkedGains DEF StoreInv, TypeOK
<1>3. store' = [m \in Media |-> store'[m]]
  BY <1>1
<1>4. /\ store' \in [Media -> Medium]
      /\ Held \ {s} \subseteq Held' /\ Held' \subseteq Held
      /\ Unsynced' \subseteq Unsynced
  BY <1>2, <1>3, HeldKeeps, HeldGains
<1>5. Queue!Discard(s)
  BY <1>4 DEF Remove, Queue!Discard
<1>6. TypeOK'
  BY <1>4 DEF Remove, StoreInv, TypeOK
<1> QED
  BY <1>4, <1>5, <1>6 DEF QueueStep, Queue!Next, Remove, StoreInv

\* The reload of a peek is no step of the queue.
LEMMA PeekReloadStep ==
  ASSUME StoreInv, PeekReload
  PROVE  QueueStep
<1>1. \A m \in Media : store[m] \in Medium
  BY DEF StoreInv, TypeOK
<1>2. \A m \in Media : /\ LoadStoreState(store[m]) \in Medium
                       /\ LoadStoreState(store[m]).files = store[m].files
                       /\ LoadStoreState(store[m]).unsynced
                            = store[m].unsynced
  BY <1>1, LoadKeeps DEF Keeps
<1>3. /\ \A m \in Media : /\ store'[m].files = store[m].files
                         /\ store'[m].unsynced = store[m].unsynced
      /\ store' \in [Media -> Medium]
  BY <1>1, <1>2 DEF PeekReload, Reloaded
<1>4. Held' = Held /\ Unsynced' = Unsynced
  BY <1>3 DEF Held, Unsynced
<1>5. TypeOK'
  BY <1>3 DEF PeekReload, StoreInv, TypeOK
<1> QED
  BY <1>4, <1>5 DEF QueueStep, PeekReload, StoreInv

\* Neither is pulling the card.
LEMMA PullCardStep ==
  ASSUME StoreInv, PullCard
  PROVE  QueueStep
<1> DEFINE d == [store["tf"] EXCEPT !.io = FALSE]
<1>1. \A m \in Media : store[m] \in Medium
  BY DEF StoreInv, TypeOK
<1>2. /\ d \in Medium /\ d.files = store["tf"].files
      /\ d.unsynced = store["tf"].unsynced
  BY <1>1, MountType DEF Media
<1>3. store' = [store EXCEPT !["tf"] = d]
  BY DEF PullCard
<1> HIDE DEF d
<1>4. /\ store' \in [Media -> Medium]
      /\ \A m \in Media : /\ store'[m].files = store[m].files
                         /\ store'[m].unsynced = store[m].unsynced
  BY <1>2, <1>3 DEF StoreInv, TypeOK, Media
<1>5. Held' = Held /\ Unsynced' = Unsynced
  BY <1>4 DEF Held, Unsynced
<1>6. TypeOK'
  BY <1>4 DEF PullCard, StoreInv, TypeOK
<1> QED
  BY <1>5, <1>6 DEF QueueStep, PullCard, StoreInv

\* offline_store_init() is a Restart.
LEMMA StoreInitStep ==
  ASSUME StoreInv, NEW card \in BOOLEAN, StoreInit(card)
  PROVE  QueueStep
<1> DEFINE on(m) == [store[m] EXCEPT !.io = TRUE]
<1>1. \A m \in Media : /\ store[m] \in Medium
                       /\ on(m) \in Medium /\ on(m).files = store[m].files
                       /\ on(m).unsynced = store[m].unsynced
  BY MountType DEF StoreInv, TypeOK
<1>2. store' = [m \in Media |-> IF m = "flash" THEN Pruned(on(m))
                                ELSE IF card THEN LoadStoreState(on(m))
                                ELSE store[m]]
  BY DEF StoreInit
<1> HIDE DEF on
<1>3. \A m \in Media : /\ Gains(on(m), Pruned(on(m)), {})
                       /\ LoadStoreState(on(m)) \in Medium
                       /\ LoadStoreState(on(m)).files = on(m).files
                       /\ LoadStoreState(on(m)).unsynced = on(m).unsynced
  BY <1>1, PrunedGains, LoadKeeps DEF Keeps
<1>4. \A m \in Media : Gains(store[m], store'[m], {})
  BY <1>1, <1>2, <1>3 DEF Gains
<1>5. Held' \subseteq Held /\ Unsynced' \subseteq Unsynced
  BY <1>4, HeldGains
<1>6. owed' = Held'
  BY DEF StoreInit, Held
<1>7. Queue!Restart
  BY <1>5, <1>6 DEF Queue!Restart
<1>8. store' \in [Media -> Medium]
  BY <1>1, <1>2, <1>3 DEF Gains
<1>9. owed' \subseteq Seqs
  BY <1>6, <1>8 DEF Held, Medium
<1>10. TypeOK'
  BY <1>8, <1>9 DEF StoreInit, StoreInv, TypeOK
<1> QED
  BY <1>5, <1>7, <1>10 DEF QueueStep, Queue!Next, StoreInit, StoreInv
-----------------------------------------------------------------------------
\* A power cut that takes two records of the store at most is one of the
\* queue.
LEMMA PowerCutIsQueueStep ==
  ASSUME StoreInv, NEW lost1, NEW lost2, AtMostOne(lost1), AtMostOne(lost2),
         Held \ (lost1 \cup lost2) \subseteq Held', Held' \subseteq Held,
         Unsynced' \subseteq Unsynced,
         owed' = {}
  PROVE  Queue!Next
<1> DEFINE gone == Held \ Held'
           x == IF lost1 \cap gone = {} THEN None
                ELSE CHOOSE z \in lost1 \cap gone : TRUE
           y == IF lost2 \cap gone = {} THEN None
                ELSE CHOOSE z \in lost2 \cap gone : TRUE
<1>1. None \notin Held
  BY NoneIsNoSeq DEF Held, StoreInv, TypeOK, Medium
<1>2. gone \subseteq lost1 \cup lost2
  OBVIOUS
<1> HIDE DEF gone
<1>3. x \in gone \cup {None} /\ lost1 \cap gone \subseteq {x}
  BY DEF AtMostOne
<1>4. y \in gone \cup {None} /\ lost2 \cap gone \subseteq {y}
  BY DEF AtMostOne
<1> HIDE DEF x, y
<1>5. Held' = Held \ {x, y} /\ x \in Held \cup {None} /\ y \in Held \cup {None}
  BY <1>1, <1>2, <1>3, <1>4 DEF gone
<1>6. Queue!PowerCut
  BY <1>5 DEF Queue!PowerCut
<1> QED
  BY <1>6 DEF Queue!Next

\* What is left of a store without its index.
LEMMA PoweredOffHeld ==
  ASSUME StoreInv, NEW st \in [Media -> Medium], PoweredOff(st),
         handed' \subseteq Seqs
  PROVE  /\ Held' = UNION {st[m].files : m \in Media}
         /\ Unsynced' = UNION {st[m].unsynced : m \in Media}
         /\ owed' = {} /\ TypeOK'
<1>1. \A m \in Media : /\ store'[m].files = st[m].files
                       /\ store'[m].unsynced = st[m].unsynced
  BY DEF PoweredOff, Unindexed, Medium
<1>2. /\ Held' = UNION {st[m].files : m \in Media}
      /\ Unsynced' = UNION {st[m].unsynced : m \in Media}
      /\ owed' = {}
  BY <1>1 DEF Held, Unsynced, PoweredOff
<1>3. store' \in [Media -> Medium]
  BY UnindexedType DEF PoweredOff
<1> QED
  BY <1>2, <1>3 DEF PoweredOff, StoreInv, TypeOK

\* A put that is cut off has evicted two records at most.
LEMMA OpenedHolds ==
  ASSUME StoreInv, NEW m \in Media, NEW d \in OpenedIn(m)
  PROVE  \E lost1, lost2 :
           /\ AtMostOne(lost1) /\ AtMostOne(lost2)
           /\ Keeps(store[m], d, lost1 \cup lost2)
           /\ Gains(store[m], d, {})
<1> DEFINE c    == store[m]
           full == c.count >= MaxRecords
           room == IF full THEN RemoveOldest(c) ELSE c
           lost == IF full THEN Evicted(c) ELSE {}
<1>1. c \in Medium
  BY DEF StoreInv, TypeOK
<1>2. /\ Keeps(c, RemoveOldest(c), Evicted(c)) /\ Keeps(c, c, {})
      /\ Gains(c, RemoveOldest(c), {}) /\ Gains(c, c, {})
  BY <1>1, RemoveOldestKeeps, RemoveOldestGains DEF Keeps, Gains
<1>3. d \in {c, RemoveOldest(c), RemoveOldest(room)}
  BY DEF OpenedIn
<1>4. CASE d \in {c, RemoveOldest(c)}
  BY <1>2, <1>4, EvictedOne
<1>5. CASE d = RemoveOldest(room)
  <2>1. Keeps(c, room, lost) /\ Gains(c, room, {}) /\ AtMostOne(lost)
    BY <1>2, EvictedOne
  <2> HIDE DEF room, lost
  <2>2. /\ Keeps(room, RemoveOldest(room), Evicted(room))
        /\ Gains(room, RemoveOldest(room), {})
    BY <2>1, RemoveOldestKeeps, RemoveOldestGains DEF Keeps
  <2>3. Keeps(c, d, lost \cup Evicted(room)) /\ Gains(c, d, {})
    BY <1>5, <2>1, <2>2 DEF Keeps, Gains
  <2> QED
    BY <2>1, <2>3, EvictedOne
<1> QED
  BY <1>3, <1>4, <1>5

\* A reset inside a put.
LEMMA PowerCutInPutStep ==
  ASSUME StoreInv, NEW s \in Seqs, PowerCutInPut(s)
  PROVE  QueueStep
<1> DEFINE Cut(m, d, w) ==
             PoweredOff([store EXCEPT ![m] = WriteRecord(d, s, w)])
<1>0. PICK m \in Media :
        \E d \in OpenedIn(m) : \E w \in {"refused", "cut"} : Cut(m, d, w)
  BY DEF PowerCutInPut
<1>1. PICK d \in OpenedIn(m), w \in {"refused", "cut"} : Cut(m, d, w)
  BY <1>0
<1> DEFINE e  == WriteRecord(d, s, w)
           st == [store EXCEPT ![m] = e]
<1>2. PICK lost1, lost2 : /\ AtMostOne(lost1) /\ AtMostOne(lost2)
                          /\ Keeps(store[m], d, lost1 \cup lost2)
                          /\ Gains(store[m], d, {})
  BY OpenedHolds
<1>3. Keeps(d, e, {s}) /\ Gains(d, e, {})
  <2>1. w \in AnyOutcome /\ ~Reported(w)
    BY DEF AnyOutcome, Reported
  <2> QED
    BY <1>2, <2>1, WriteKeeps, WriteGains DEF Keeps
<1> HIDE DEF e
<1>4. store \in [Media -> Medium] /\ st \in [Media -> Medium]
  BY <1>3 DEF StoreInv, TypeOK, Keeps
<1>5. \A n \in Media : st[n] = IF n = m THEN e ELSE store[n]
  BY <1>4
<1>6. s \notin Held /\ handed \subseteq handed' /\ handed' \subseteq Seqs
  BY DEF PowerCutInPut, Offered, StoreInv, TypeOK
<1>7. /\ Held' = UNION {st[n].files : n \in Media}
      /\ Unsynced' = UNION {st[n].unsynced : n \in Media}
      /\ owed' = {} /\ TypeOK'
  BY <1>1, <1>4, <1>6, PoweredOffHeld DEF e
<1> HIDE DEF st
<1>8. store[m].files \ (lost1 \cup lost2 \cup {s}) \subseteq e.files
      /\ e.files \subseteq store[m].files
      /\ e.unsynced \subseteq store[m].unsynced
  BY <1>2, <1>3 DEF Keeps, Gains
<1>9. Held' \subseteq Held /\ Unsynced' \subseteq Unsynced
  BY <1>5, <1>7, <1>8 DEF Held, Unsynced
<1>10. Held \ (lost1 \cup lost2) \subseteq Held'
  BY <1>5, <1>6, <1>7, <1>8 DEF Held
<1>11. Queue!Next
  BY <1>2, <1>7, <1>9, <1>10, PowerCutIsQueueStep
<1> QED
  BY <1>6, <1>7, <1>9, <1>11 DEF QueueStep, StoreInv

\* A reset between two calls.
LEMMA PowerCutStep ==
  ASSUME StoreInv, PowerCut
  PROVE  QueueStep
<1>1. Held' = Held /\ Unsynced' = Unsynced /\ owed' = {} /\ TypeOK'
  BY PoweredOffHeld DEF PowerCut, StoreInv, TypeOK, Held, Unsynced
<1>2. Queue!Next
  BY <1>1, EvictedOne, PowerCutIsQueueStep
<1> QED
  BY <1>1, <1>2 DEF QueueStep, PowerCut, StoreInv
-----------------------------------------------------------------------------
\* The queue never forgets what it owes.
LEMMA QueueKeepsOwed ==
  ASSUME owed \subseteq Held, [Queue!Next]_<<Held, Unsynced, owed>>
  PROVE  owed' \subseteq Held'
<1>1. ASSUME NEW s \in Seqs, Queue!Accept(s) PROVE owed' \subseteq Held'
  BY <1>1 DEF Queue!Accept
<1>2. ASSUME NEW s \in Seqs, Queue!GiveUp(s) PROVE owed' \subseteq Held'
  BY <1>2 DEF Queue!GiveUp
<1>3. ASSUME NEW s \in Seqs, Queue!Discard(s) PROVE owed' \subseteq Held'
  BY <1>3 DEF Queue!Discard
<1>4. ASSUME Queue!PowerCut \/ Queue!Restart PROVE owed' \subseteq Held'
  BY <1>4 DEF Queue!PowerCut, Queue!Restart
<1> QED
  BY <1>1, <1>2, <1>3, <1>4 DEF Queue!Next

\* The empty store is the empty queue.
LEMMA StoreInvInit == Init => StoreInv /\ Queue!Init
<1> SUFFICES ASSUME Init PROVE StoreInv /\ Queue!Init
  OBVIOUS
<1>1. EmptyMedium \in Medium
  BY DEF EmptyMedium, Medium
<1>2. Held = {} /\ Unsynced = {}
  BY DEF Init, EmptyMedium, Held, Unsynced
<1> QED
  BY <1>1, <1>2 DEF Init, StoreInv, TypeOK, Queue!Init

\* Every step of the store is one of the queue, or none.
LEMMA StoreStep == StoreInv /\ [Next]_vars => QueueStep
<1> SUFFICES ASSUME StoreInv, [Next]_vars PROVE QueueStep
  OBVIOUS
<1>1. ASSUME NEW s \in Seqs, Put(s) PROVE QueueStep
  BY <1>1, PutFlashStep, PutTfStep, PutEvictingStep, PutRefusedStep DEF Put
<1>2. ASSUME NEW s \in Seqs, Remove(s) PROVE QueueStep
  BY <1>2, RemoveStep
<1>3. ASSUME NEW s \in Seqs, PowerCutInPut(s) PROVE QueueStep
  BY <1>3, PowerCutInPutStep
<1>4. ASSUME PeekReload PROVE QueueStep
  BY <1>4, PeekReloadStep
<1>5. ASSUME PowerCut PROVE QueueStep
  BY <1>5, PowerCutStep
<1>6. ASSUME NEW card \in BOOLEAN, StoreInit(card) PROVE QueueStep
  BY <1>6, StoreInitStep
<1>7. ASSUME PullCard PROVE QueueStep
  BY <1>7, PullCardStep
<1>8. ASSUME UNCHANGED vars PROVE QueueStep
  BY <1>8 DEF vars, QueueStep, StoreInv, TypeOK, Held, Unsynced
<1> QED
  BY <1>1, <1>2, <1>3, <1>4, <1>5, <1>6, <1>7, <1>8 DEF Next

\* The invariant of the store is inductive.
LEMMA StoreInvNext == StoreInv /\ [Next]_vars => StoreInv'
BY StoreStep, QueueKeepsOwed DEF StoreInv, QueueStep

\* Every reachable state of the store is well typed and has lost no record
\* silently.
THEOREM StoreInvariant == Spec => []StoreInv
BY StoreInvInit, StoreInvNext, PTL DEF Spec

\* The store's variables keep their types: offline_store.c never indexes
\* anything but a record name.
THEOREM StoreTypeCorrect == Spec => []TypeOK
<1>1. StoreInv => TypeOK
  BY DEF StoreInv
<1> QED
  BY <1>1, StoreInvariant, PTL

\* A record that offline_store_put() took, or offline_store_init() found, is
\* on a medium until it is removed on request or counted in s_data_loss; it
\* is incomplete there only if fsync() or fclose() failed in its own put.
THEOREM StoreNoSilentLoss == Spec => []NoSilentLoss
BY OwedIsHeld, StoreInvariant, PTL

(***************************************************************************)
(* The offline store is a durable queue: whatever is full, failing, pulled *)
(* out or cut off, a put of offline_store.c keeps its record or charges    *)
(* it, and gives up two others at most, each of them charged.              *)
(***************************************************************************)
THEOREM StoreImplementsQueue == Spec => QueueSpec
<1>1. StoreInv /\ [Next]_vars => [Queue!Next]_<<Held, Unsynced, owed>>
  BY StoreStep DEF QueueStep
<1> QED
  BY <1>1, StoreInvInit, StoreInvariant, PTL DEF Spec, QueueSpec, Queue!Spec
=============================================================================
