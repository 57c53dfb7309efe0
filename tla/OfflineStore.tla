---------------------------- MODULE OfflineStore ----------------------------
(***************************************************************************)
(* The offline store of UIF (main/storage/offline_store.c): one file per   *)
(* TCM record, named by its sequence_id, on the SPI Flash FAT partition    *)
(* first and on the TF card when Flash cannot take it.                     *)
(*                                                                         *)
(* Beside the files the code keeps, per medium, a record count and the     *)
(* sequence_id of the oldest record, so that a replay need not scan the    *)
(* directory for every record.  What can go wrong is that index drifting   *)
(* from the files, records disappearing without being counted as lost, and *)
(* a power cut in the middle of a write.                                   *)
(*                                                                         *)
(* Every exported function runs under s_mutex, so each is one action; a    *)
(* power cut can fall inside a put.  Free space and the outcome of file    *)
(* operations are chosen by the environment.                               *)
(***************************************************************************)
EXTENDS Integers, FiniteSets

CONSTANTS Seqs,       \* sequence identifiers
          MaxRecords, \* UIF_CACHE_MAX_RECORDS, per medium
          Headed      \* whose incomplete file has its two header lines

ASSUME SeqsAssumption == Seqs \subseteq Nat \ {0} /\ IsFiniteSet(Seqs)
ASSUME MaxRecordsAssumption == MaxRecords \in Nat \ {0}
ASSUME HeadedAssumption == Headed \subseteq Seqs

Media == {"flash", "tf"}

\* `oldest' of a medium whose s_..._oldest_valid is false.
None == 0

VARIABLES store,      \* per medium: its files and the index of them in RAM
          tfMounted,  \* tf_storage_is_mounted(), decided once at boot
          up,         \* s_flash_ready: offline_store_init() has succeeded
          handed,     \* history: the records ever given to offline_store_put()
          owed,       \* history: accepted, not removed, not in s_data_loss
          ragged,     \* history: what files of failed writes did to the index
          late        \* history: the evicting put stored a late record

vars == <<store, tfMounted, up, handed, owed, ragged, late>>

(***************************************************************************)
(* One medium.  `files' are the records that write_record() reported good, *)
(* and `unsynced' those of them of which the medium did not take all; their *)
(* write was reported good because fsync() and fclose() are not looked at. *)
(* `torn' are the files of writes that were interrupted or reported bad.   *)
(* `io' is whether the medium answers: a TF card that was pulled out stays *)
(* mounted, and every call on it fails.                                    *)
(***************************************************************************)
Medium == [files    : SUBSET Seqs,
           unsynced : SUBSET Seqs,
           torn     : SUBSET Seqs,
           count    : Int,
           oldest   : Seqs \cup {None},
           io       : BOOLEAN]

\* The record names that readdir() returns.
Dir(d) == IF d.io THEN d.files \cup d.torn ELSE {}

IsLeast(s, S) == s \in S /\ \A t \in S : s <= t

\* find_oldest_in()
FindOldest(S) == IF S = {} THEN None ELSE CHOOSE s \in S : IsLeast(s, S)

\* load_store_state(), with count_in()
LoadStoreState(d) ==
  [d EXCEPT !.count = Cardinality(Dir(d)), !.oldest = FindOldest(Dir(d))]

\* Mutant: the successor of the removed record is taken without looking.
AdvanceToNextNumber(d, removed) ==
  [d EXCEPT !.oldest = IF d.count <= 0 THEN None ELSE removed + 1]

(***************************************************************************)
(* advance_oldest(): the next number if it has a file, else a scan.        *)
(***************************************************************************)
AdvanceOldest(d, removed) ==
  [d EXCEPT !.oldest = IF d.count <= 0 THEN None
                       ELSE IF removed + 1 \in Dir(d) THEN removed + 1
                       ELSE FindOldest(Dir(d))]

Unlink(d, s) ==
  [d EXCEPT !.files = @ \ {s}, !.unsynced = @ \ {s}, !.torn = @ \ {s}]

\* remove_oldest() returns true.
CanRemoveOldest(d) == d.count > 0 /\ d.oldest # None /\ d.oldest \in Dir(d)

\* remove_oldest(): a failed unlink() reloads the index instead.
RemoveOldest(d) ==
  IF d.count <= 0 \/ d.oldest = None THEN d
  ELSE IF d.oldest \notin Dir(d) THEN LoadStoreState(d)
  ELSE AdvanceOldest([Unlink(d, d.oldest) EXCEPT !.count = @ - 1], d.oldest)

\* The record that remove_oldest() charges to s_data_loss, if any.
Evicted(d) == IF CanRemoveOldest(d) THEN {d.oldest} ELSE {}

(***************************************************************************)
(* write_record(): the file is complete, was never created (fopen fails),  *)
(* was created and not completely written (fprintf or fflush fails), or    *)
(* was written but did not all reach the medium (fsync or fclose fails).   *)
(***************************************************************************)
WriteRecord(d, s, outcome) ==
  CASE outcome = "ok" ->
         [d EXCEPT !.files = @ \cup {s}, !.unsynced = @ \ {s},
                   !.torn = @ \ {s}]
    [] outcome = "unsynced" ->
         [d EXCEPT !.files = @ \cup {s}, !.unsynced = @ \cup {s},
                   !.torn = @ \ {s}]
    [] outcome = "refused" -> d
    [] outcome = "cut" ->
         [d EXCEPT !.files = @ \ {s}, !.unsynced = @ \ {s},
                   !.torn = @ \cup {s}]

\* write_record() returns ESP_OK.
Reported(outcome) == outcome \in {"ok", "unsynced"}

\* A file that a failed write left is one more than the index says, until a
\* scan puts that right.
Ragged(left) == IF left THEN "stale" ELSE ragged

Outcomes(d) ==
  IF d.io THEN {"ok", "unsynced", "refused", "cut"} ELSE {"refused"}

\* The index after a successful write: ++count, and a lower oldest.
Indexed(d, s) ==
  [d EXCEPT !.count = @ + 1,
            !.oldest = IF @ = None \/ s < @ THEN s ELSE @]

\* The same in the branch that evicts from Flash: oldest is only filled in.
IndexedIfFirst(d, s) ==
  [d EXCEPT !.count = @ + 1, !.oldest = IF @ = None THEN s ELSE @]
-----------------------------------------------------------------------------
(***************************************************************************)
(* offline_store_put().                                                    *)
(***************************************************************************)
Offered(s) == up /\ s \notin handed /\ handed' = handed \cup {s}

\* Flash takes the record: below capacity, enough free space, write succeeds.
PutFlash(s) ==
  /\ Offered(s)
  /\ store["flash"].count < MaxRecords
  /\ \E w \in {"ok", "unsynced"} :
       store' = [store EXCEPT !["flash"] = Indexed(WriteRecord(@, s, w), s)]
  /\ owed' = owed \cup {s}
  /\ UNCHANGED <<tfMounted, up, ragged, late>>

\* What is on Flash when it did not: full, short of space, or a failed write.
FlashMissed(s) ==
  {store["flash"]} \cup
    IF store["flash"].count < MaxRecords
    THEN {WriteRecord(store["flash"], s, "cut")} ELSE {}

(***************************************************************************)
(* The TF branch: a full card gives up its oldest record first, and a      *)
(* failed write gives up one more before the only retry.                   *)
(***************************************************************************)
PutTf(s) ==
  /\ Offered(s)
  /\ tfMounted
  /\ \E flash \in FlashMissed(s) :
       LET card  == store["tf"]
           full  == card.count >= MaxRecords
           room  == IF full THEN RemoveOldest(card) ELSE card
           lost1 == IF full THEN Evicted(card) ELSE {}
       IN \E w \in Outcomes(card), v \in Outcomes(card) :
            LET first  == WriteRecord(room, s, w)
                retry  == ~Reported(w) /\ CanRemoveOldest(first)
                lost2  == IF retry THEN Evicted(first) ELSE {}
                room2  == IF Reported(w) THEN first ELSE RemoveOldest(first)
                second == IF retry THEN WriteRecord(room2, s, v) ELSE room2
                stored == Reported(w) \/ (retry /\ Reported(v))
                tf     == IF stored THEN Indexed(second, s) ELSE second
            IN /\ store' = [m \in Media |-> IF m = "flash" THEN flash ELSE tf]
               /\ owed' = IF stored THEN (owed \ (lost1 \cup lost2)) \cup {s}
                          ELSE owed \ (lost1 \cup lost2 \cup {s})
               /\ ragged' = Ragged(s \in flash.torn \/ s \in tf.torn)
  /\ UNCHANGED <<tfMounted, up, late>>

\* Mutant: the eviction is not charged to s_data_loss.
PutEvictingUncharged(s) ==
  /\ Offered(s)
  /\ ~tfMounted
  /\ \E flash \in FlashMissed(s) :
       /\ CanRemoveOldest(flash)
       /\ \E w \in Outcomes(flash) :
            LET room   == WriteRecord(RemoveOldest(flash), s, w)
                stored == Reported(w)
            IN /\ store' = [store EXCEPT !["flash"] =
                              IF stored THEN IndexedIfFirst(room, s) ELSE room]
               /\ owed' = IF stored THEN owed \cup {s} ELSE owed \ {s}
               /\ ragged' = Ragged(s \in room.torn)
               /\ late' = (late \/ (stored /\ \E t \in Dir(room) : s < t))
  /\ UNCHANGED <<tfMounted, up>>

(***************************************************************************)
(* Without a card, Flash gives up its oldest record, charged to            *)
(* s_data_loss, and takes the new one.                                     *)
(***************************************************************************)
PutEvicting(s) ==
  /\ Offered(s)
  /\ ~tfMounted
  /\ \E flash \in FlashMissed(s) :
       /\ CanRemoveOldest(flash)
       /\ \E w \in Outcomes(flash) :
            LET room   == WriteRecord(RemoveOldest(flash), s, w)
                stored == Reported(w)
                lost   == Evicted(flash)
            IN /\ store' = [store EXCEPT !["flash"] =
                              IF stored THEN IndexedIfFirst(room, s) ELSE room]
               /\ owed' = IF stored THEN (owed \ lost) \cup {s}
                          ELSE owed \ (lost \cup {s})
               /\ ragged' = Ragged(s \in room.torn)
               /\ late' = (late \/ (stored /\ \E t \in Dir(room) : s < t))
  /\ UNCHANGED <<tfMounted, up>>

\* Without a card and with nothing to evict, the record itself is lost.
PutRefused(s) ==
  /\ Offered(s)
  /\ ~tfMounted
  /\ \E flash \in FlashMissed(s) :
       /\ ~CanRemoveOldest(flash)
       /\ store' = [store EXCEPT !["flash"] = RemoveOldest(flash)]
       /\ ragged' = Ragged(s \in flash.torn)
  /\ owed' = owed \ {s}
  /\ UNCHANGED <<tfMounted, up, late>>
-----------------------------------------------------------------------------
\* Mutant: Flash is served first, whatever is on the card.
FlashFirst(st) ==
  LET flash == st["flash"].oldest
      tf    == IF tfMounted THEN st["tf"].oldest ELSE None
  IN IF flash # None THEN [medium |-> "flash", seq |-> flash]
     ELSE [medium |-> "tf", seq |-> tf]

(***************************************************************************)
(* offline_store_peek_oldest(): the lower of the two indexed records,      *)
(* Flash first.  If it cannot be read, both indexes are reloaded once and  *)
(* the choice is made again.                                               *)
(***************************************************************************)
Candidate(st) ==
  LET flash == st["flash"].oldest
      tf    == IF tfMounted THEN st["tf"].oldest ELSE None
  IN IF flash # None /\ (tf = None \/ flash <= tf)
     THEN [medium |-> "flash", seq |-> flash]
     ELSE [medium |-> "tf", seq |-> tf]

(***************************************************************************)
(* read_record() succeeds: the file has its two header lines.  What is     *)
(* missing behind them goes unnoticed.                                     *)
(***************************************************************************)
Readable(d) ==
  {s \in Dir(d) : s \in Headed \/ (s \in d.files /\ s \notin d.unsynced)}

Reads(st, c) == c.seq \in Readable(st[c.medium])

Reloaded ==
  [m \in Media |-> IF m = "flash" \/ tfMounted THEN LoadStoreState(store[m])
                   ELSE store[m]]

NeedsReload ==
  Candidate(store).seq # None /\ ~Reads(store, Candidate(store))

\* What peek returns: the record, or None for ESP_ERR_NOT_FOUND and ESP_FAIL.
PeekResult ==
  LET st == IF NeedsReload THEN Reloaded ELSE store
      c  == Candidate(st)
  IN IF c.seq # None /\ Reads(st, c) THEN c.seq ELSE None

\* A peek changes the store only by reloading the index.
PeekReload ==
  /\ up
  /\ NeedsReload
  /\ store' = Reloaded
  /\ ragged' = IF ragged = "no" THEN "no" ELSE "mended"
  /\ late' = FALSE
  /\ UNCHANGED <<tfMounted, up, handed, owed>>

\* Mutant: the index is not advanced when its oldest record is removed.
UnlinkedKeepingOldest(d, s) ==
  IF s \notin Dir(d) THEN d
  ELSE IF d.count <= 0 THEN Unlink(d, s)
  ELSE [Unlink(d, s) EXCEPT !.count = @ - 1]

\* One medium's half of offline_store_remove().
Unlinked(d, s) ==
  IF s \notin Dir(d) THEN d
  ELSE IF d.count <= 0 THEN Unlink(d, s)
  ELSE LET rest == [Unlink(d, s) EXCEPT !.count = @ - 1]
       IN IF d.oldest = s THEN AdvanceOldest(rest, s) ELSE rest

\* offline_store_remove(): UIF removes records the store was given.
Remove(s) ==
  /\ up
  /\ s \in handed
  /\ \E m \in Media : s \in Dir(store[m])
  /\ store' = [m \in Media |-> Unlinked(store[m], s)]
  /\ owed' = owed \ {s}
  /\ UNCHANGED <<tfMounted, up, handed, ragged, late>>
-----------------------------------------------------------------------------
\* The index is RAM: after a reset it is gone and the files are what they are.
Unindexed(d) == [d EXCEPT !.count = 0, !.oldest = None, !.io = FALSE]

PoweredOff(st) ==
  /\ store' = [m \in Media |-> Unindexed(st[m])]
  /\ up' = FALSE
  /\ tfMounted' = FALSE
  /\ owed' = {}
  /\ ragged' = "no"
  /\ late' = FALSE

\* A power cut or watchdog reset between two calls.
PowerCut ==
  /\ up
  /\ PoweredOff(store)
  /\ UNCHANGED handed

(***************************************************************************)
(* The states of medium m in which a put opens its record file for         *)
(* writing: as it is, or after evicting the oldest record (twice on a full *)
(* card whose first write failed).                                         *)
(***************************************************************************)
OpenedIn(m) ==
  LET d    == store[m]
      room == IF d.count >= MaxRecords THEN RemoveOldest(d) ELSE d
  IN IF m = "flash"
     THEN {x \in {d} : d.count < MaxRecords} \cup
          {x \in {RemoveOldest(d)} : ~tfMounted /\ CanRemoveOldest(d)}
     ELSE {x \in {room} : tfMounted /\ d.io} \cup
          {x \in {RemoveOldest(room)} : tfMounted /\ CanRemoveOldest(room)}

\* A power cut inside the write of a put, which may have evicted already.
PowerCutInPut(s) ==
  /\ Offered(s)
  /\ \E m \in Media : \E d \in OpenedIn(m) : \E w \in {"refused", "cut"} :
       PoweredOff([store EXCEPT ![m] = WriteRecord(d, s, w)])

\* The records an init with more files than MaxRecords keeps: the newest.
Newest(S) == {s \in S : Cardinality({t \in S : s < t}) < MaxRecords}

\* offline_store_init()'s pruning loop: remove_oldest() down to capacity.
Pruned(d) ==
  LET kept == Newest(Dir(d))
  IN LoadStoreState([d EXCEPT !.files    = @ \cap kept,
                              !.unsynced = @ \cap kept,
                              !.torn     = @ \cap kept])

\* Mutant: the directory is not scanned at boot.
InitWithoutScan(card) ==
  /\ ~up
  /\ up' = TRUE
  /\ tfMounted' = card
  /\ store' = [store EXCEPT !["flash"].io = TRUE, !["tf"].io = card]
  /\ owed' = UNION {store'[m].files : m \in Media}
  /\ UNCHANGED <<handed, ragged, late>>

(***************************************************************************)
(* offline_store_init(), with a TF card in the slot or not.  Rebuilding a  *)
(* Flash partition that holds no record and has no space changes no        *)
(* record and is left out.                                                 *)
(***************************************************************************)
StoreInit(card) ==
  /\ ~up
  /\ up' = TRUE
  /\ tfMounted' = card
  /\ store' = [m \in Media |->
                 IF m = "flash" THEN Pruned([store[m] EXCEPT !.io = TRUE])
                 ELSE IF card
                 THEN LoadStoreState([store[m] EXCEPT !.io = TRUE])
                 ELSE store[m]]
  /\ owed' = UNION {store'[m].files : m \in Media}
  /\ UNCHANGED <<handed, ragged, late>>

\* External: the TF card is pulled out of a running gateway.
PullCard ==
  /\ up
  /\ store["tf"].io
  /\ store' = [store EXCEPT !["tf"].io = FALSE]
  /\ UNCHANGED <<tfMounted, up, handed, owed, ragged, late>>
-----------------------------------------------------------------------------
EmptyMedium ==
  [files |-> {}, unsynced |-> {}, torn |-> {},
   count |-> 0, oldest |-> None, io |-> FALSE]

Init ==
  /\ store = [m \in Media |-> EmptyMedium]
  /\ tfMounted = FALSE
  /\ up = FALSE
  /\ handed = {}
  /\ owed = {}
  /\ ragged = "no"
  /\ late = FALSE

Put(s) == PutFlash(s) \/ PutTf(s) \/ PutEvicting(s) \/ PutRefused(s)

Next ==
  \/ \E s \in Seqs : Put(s) \/ Remove(s) \/ PowerCutInPut(s)
  \/ PeekReload
  \/ PowerCut
  \/ \E card \in BOOLEAN : StoreInit(card)
  \/ PullCard

Spec == Init /\ [][Next]_vars
-----------------------------------------------------------------------------
\* The records whose write was reported good, on either medium and within
\* reach or not; the incomplete ones, and the others.
Held == UNION {store[m].files : m \in Media}
Unsynced == UNION {store[m].unsynced : m \in Media}
Whole == UNION {store[m].files \ store[m].unsynced : m \in Media}

\* Type invariant.
TypeOK ==
  /\ store \in [Media -> Medium]
  /\ tfMounted \in BOOLEAN
  /\ up \in BOOLEAN
  /\ handed \subseteq Seqs
  /\ owed \subseteq Seqs
  /\ ragged \in {"no", "stale", "mended"}
  /\ late \in BOOLEAN

(***************************************************************************)
(* No silent loss: a record that the store was given since boot, or found  *)
(* at boot, is on a medium, was removed on request, or is counted in       *)
(* s_data_loss, whatever was full, failing, pulled out or evicted.  The    *)
(* one exception is a record of which fsync() or fclose() failed: it was   *)
(* reported stored, is incomplete, and nothing counts it.                  *)
(***************************************************************************)
NoSilentLoss == owed \subseteq Whole \cup Unsynced

(***************************************************************************)
(* The index that put, remove and the evictions maintain incrementally is  *)
(* what a scan of the directory would give: s_flash_count and s_tf_count   *)
(* are the number of record files, and the oldest is the lowest of them    *)
(* (one of them, after an evicting put of a late record).                  *)
(***************************************************************************)
IndexExact ==
  up /\ ragged # "stale" =>
    \A m \in Media :
      LET d == store[m]
      IN d.io => /\ d.count = Cardinality(Dir(d))
                 /\ IF late THEN d.oldest = None <=> Dir(d) = {}
                    ELSE d.oldest = FindOldest(Dir(d))

(***************************************************************************)
(* The Flash cache never holds more than UIF_CACHE_MAX_RECORDS files,      *)
(* through any mix of overflow, eviction and power cuts, as long as no     *)
(* write has failed since boot: the file such a write leaves is extra.     *)
(***************************************************************************)
FlashBounded ==
  up /\ ragged = "no" => Cardinality(Dir(store["flash"])) <= MaxRecords

(***************************************************************************)
(* offline_store_peek_oldest() returns the lowest sequence_id over both    *)
(* media, also when the index still names records of a card that is gone,  *)
(* unless the lowest file is an incomplete one without its header lines.   *)
(***************************************************************************)
PeekIsOldest ==
  LET all == UNION {Dir(store[m]) : m \in Media}
      low == FindOldest(all)
  IN up /\ ragged # "stale" /\ ~late /\ all # {}
       /\ (\A m \in Media :
             low \in Dir(store[m]) => low \in Readable(store[m]))
     => PeekResult = low

(***************************************************************************)
(* The comment of offline_store_peek_oldest(): it recovers the index when  *)
(* a write was interrupted.  A peek then finds a record whenever a         *)
(* readable one is stored.  The code does not keep this: the file that the *)
(* interrupted write left behind stays the oldest for ever.                *)
(***************************************************************************)
InterruptedWriteRecovered ==
  up /\ (\E m \in Media : Readable(store[m]) # {}) => PeekResult # None

(***************************************************************************)
(* The store implements the durable queue.                                 *)
(***************************************************************************)
Queue == INSTANCE DurableQueue WITH held <- Held, flawed <- Unsynced
QueueSpec == Queue!Spec
=============================================================================
