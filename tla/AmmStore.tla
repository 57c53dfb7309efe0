------------------------------ MODULE AmmStore ------------------------------
(***************************************************************************)
(* The mapping table (AMM, main/amm/amm_mapping.c) and its copy in NVS.    *)
(*                                                                         *)
(* The running table is a sequence of slots in RAM; a removed mapping      *)
(* leaves an inactive slot.  NVS holds the number of slots, one blob per   *)
(* slot and one snapshot for the rollback.  An operation runs under        *)
(* s_amm_mutex and is a list of writes, `job`: each nvs_set_*() and        *)
(* nvs_erase_key() takes effect by itself (nvs_commit() adds nothing), and *)
(* the change of the RAM table is one of the steps, at its place in the    *)
(* order.  Any write can fail, which ends the operation there, and the     *)
(* power can be cut before any write.                                      *)
(*                                                                         *)
(* A slot is [key, by, on]: the physical point, who gave it its meaning    *)
(* ("user" edits are to survive imports) and the active flag.  A blob has  *)
(* the layout of its schema, "old" standing for versions 2 to 6 and "new"  *)
(* for the firmware's own.  Poll intervals and mapping versions are left   *)
(* out; the legacy partition "nvs" is taken to be empty.                   *)
(***************************************************************************)
EXTENDS Integers, Sequences, Arrays

CONSTANTS Keys,         \* physical points: [dev, reg, fc]
          Imports,      \* the batches that are imported: sequences of Keys
          OldImage,     \* the points that an older firmware has stored
          DemoKeys,     \* those of them that amm_is_legacy_demo_entry() names
          Capacity,     \* s_mapping_capacity
          RollbackMax,  \* AMM_ROLLBACK_MAX_ENTRIES
          MaxOps,       \* bound: operations
          MaxAmmFaults  \* bound: failing writes and power cuts

\* what clients import and older firmware stored are points, and the older
\* firmware mapped no point twice and had no larger table
ASSUME TableAssumption == Capacity \in Nat /\ Imports \subseteq Seq(Keys)
ASSUME ImageAssumption ==
  /\ OldImage \in Seq(Keys) /\ Len(OldImage) <= Capacity
  /\ \A i, j \in 1..Len(OldImage) : OldImage[i] = OldImage[j] => i = j

VARIABLES
  mappings,    \* s_mapping_table[0 .. s_mapping_count)
  ammNvs,      \* per NVS key its value as a sequence; <<>>: no such key
  job,         \* what the operation under way has still to write
  edit,        \* mappings_post_handler(): the old mapping to drop, as <<key>>
  deal,        \* the import under way or broken off: <<old, new>>, or <<>>
  faulted,     \* since the start an operation ended on a failed write
  torn,        \* an operation ended, ever, on a failed write or a power cut
  ops, ammFaults

ammVars == <<mappings, ammNvs, job, edit, deal, faulted, torn, ops,
             ammFaults>>

(* NVS keys; Ram and All stand for the change in RAM and nvs_erase_all(). *)
CountKey    == <<"count", 0>>
SchemaKey   == <<"schema", 0>>
EntryKey(i) == <<"entry", i>>
RbCountKey  == <<"rollback_count", 0>>
RbKey       == <<"rollback", 0>>
NvsKeys     == {CountKey, SchemaKey, RbCountKey, RbKey}
                 \cup {EntryKey(i) : i \in 1..Capacity}
Ram         == <<"ram", 0>>
All         == <<"all", 0>>
Put(k, v)   == <<[key |-> k, val |-> v]>>
Blob(e)     == <<e, "new">>

Slot(k, who)  == [key |-> k, by |-> who, on |-> TRUE]
BlankSlot     == [key |-> CHOOSE k \in Keys : TRUE, by |-> "profile",
                  on |-> FALSE]
Live(t)       == {i \in DOMAIN t : t[i].on}
LowestOf(S)   == CHOOSE i \in S : \A j \in S : i <= j

\* amm_load_from_nvs(): every counted slot has a blob of the schema's layout
Loadable(n)  == /\ n[CountKey] # <<>>
                /\ \A i \in 1..n[CountKey][1] :
                     /\ n[EntryKey(i)] # <<>>
                     /\ <<n[EntryKey(i)][2]>> = n[SchemaKey]
StoredTable(n) == [i \in 1..n[CountKey][1] |-> n[EntryKey(i)][1]]

\* amm_save_table_to_nvs_unlocked(); `old` is s_mapping_count meanwhile
Blobs(t)         == [i \in DOMAIN t |-> Put(EntryKey(i), Blob(t[i]))[1]]
Erased(from, to) == [i \in 1..(to - from) |->
                       Put(EntryKey(from + i), <<>>)[1]]
SaveTable(t, old) ==
  Put(CountKey, <<Len(t)>>) \o Put(SchemaKey, <<"new">>)
    \o Blobs(t) \o Erased(Len(t), old)

\* amm_init(): load, migrate an older table, or else start with no mapping
NoDemo(t) == {i \in DOMAIN t : t[i].key \notin DemoKeys}
StartTable(n) == IF ~Loadable(n) THEN <<>>
                 ELSE IF n[SchemaKey] = <<"new">> THEN StoredTable(n)
                 ELSE Compacted(StoredTable(n), NoDemo(StoredTable(n)))
StartJob(n)   == IF Loadable(n) /\ n[SchemaKey] = <<"new">> THEN <<>>
                 ELSE SaveTable(StartTable(n), Len(StartTable(n)))

\* the NVS that the firmware finds: of an older version, or of none
Found(keys) ==
  [k \in NvsKeys |->
     IF k = CountKey THEN <<Len(keys)>>
     ELSE IF k = SchemaKey THEN <<"old">>
     ELSE IF k[1] = "entry" /\ k[2] \in DOMAIN keys
     THEN <<Slot(keys[k[2]], "profile"), "old">> ELSE <<>>]

AmmInitWith(keys) ==
  /\ ammNvs = Found(keys)
  /\ mappings = StartTable(ammNvs) /\ job = StartJob(ammNvs)
  /\ edit = <<>> /\ deal = <<>>
  /\ faulted = FALSE /\ torn = FALSE
  /\ ops = 0 /\ ammFaults = 0

AmmInit == AmmInitWith(<<>>) \/ AmmInitWith(OldImage)
-----------------------------------------------------------------------------
(* The writes of the parts that the operations share. *)
\* amm_save_rollback_unlocked(): an empty table keeps the older snapshot
Snapshot ==
  IF mappings = <<>> THEN <<>>
  ELSE IF Len(mappings) > RollbackMax
  THEN Put(RbCountKey, <<>>) \o Put(RbKey, <<>>)
  ELSE Put(RbCountKey, <<Len(mappings)>>) \o Put(RbKey, mappings)

(* Mutants: a save that forgets the count, an edit that looks for no slot of
   its point (NewSlotFor), an import that keeps no edit (NoOverlay). *)
SaveEntryOnly(t, i) == Put(Ram, t) \o Put(EntryKey(i), Blob(t[i]))

\* amm_save_entry_to_nvs_unlocked() after the change in RAM
SaveEntry(t, i) ==
  Put(Ram, t) \o Put(CountKey, <<Len(t)>>) \o Put(SchemaKey, <<"new">>)
    \o Put(EntryKey(i), Blob(t[i]))

BeginOp(writes) == /\ job = <<>> /\ ops < MaxOps
                   /\ job' = writes
                   /\ ops' = ops + 1
                   /\ UNCHANGED <<mappings, ammNvs, faulted, torn, ammFaults>>
Change(writes) == BeginOp(Snapshot \o writes) /\ deal' = <<>>
-----------------------------------------------------------------------------
(* The operations of the web server and of the discovery. *)
\* amm_add_mapping(): the same point, else a free slot, else a new one
HoldingKey(t, k) == {i \in Live(t) : t[i].key = k}
NewSlotFor(k) ==
  IF DOMAIN mappings \ Live(mappings) # {}
  THEN LowestOf(DOMAIN mappings \ Live(mappings)) ELSE Len(mappings) + 1
SlotFor(k) ==
  IF HoldingKey(mappings, k) # {} THEN LowestOf(HoldingKey(mappings, k))
  ELSE NewSlotFor(k)

Adding(k) ==
  LET i == SlotFor(k)
      t == IF i \in DOMAIN mappings
           THEN [mappings EXCEPT ![i] = Slot(k, "user")]
           ELSE Append(mappings, Slot(k, "user"))
  IN IF i > Capacity THEN <<>> ELSE SaveEntry(t, i)

AddMapping(k) ==
  /\ edit = <<>>
  /\ Change(Adding(k))
  /\ UNCHANGED edit

\* mappings_post_handler() with the address of the mapping that was edited
EditMapping(k, o) ==
  /\ edit = <<>>
  /\ k.dev # o.dev \/ k.reg # o.reg
  /\ Change(Adding(k))
  /\ edit' = IF Adding(k) = <<>> THEN <<>> ELSE <<o>>

\* amm_remove_mapping_for_channel(): the function code is not compared
Matching(o) == {i \in Live(mappings) :
                  mappings[i].key.dev = o.dev /\ mappings[i].key.reg = o.reg}
Removing(o) ==
  LET i == LowestOf(Matching(o))
  IN SaveEntry([mappings EXCEPT ![i].on = FALSE], i)

RemoveMapping(o) ==
  /\ edit = <<>> \/ edit = <<o>>
  /\ Matching(o) # {}
  /\ Change(Removing(o))
  /\ edit' = <<>>

\* the second half of an edit finds nothing to remove any more
EditDone ==
  /\ job = <<>> /\ edit # <<>> /\ Matching(edit[1]) = {}
  /\ edit' = <<>>
  /\ UNCHANGED <<mappings, ammNvs, job, deal, faulted, torn, ops,
                 ammFaults>>

SetPollIntervalAll ==
  /\ edit = <<>>
  /\ Change(SaveTable(mappings, Len(mappings)))
  /\ UNCHANGED edit

ClearMappings ==
  /\ edit = <<>>
  /\ Change((IF Len(mappings) > RollbackMax THEN Put(All, <<>>) ELSE <<>>)
              \o Put(CountKey, <<0>>) \o Put(SchemaKey, <<"new">>)
              \o Put(Ram, <<>>))
  /\ UNCHANGED edit

(* amm_import_mappings(): a staging table is built, saved, and only then put
   in place of the running one. *)
NoOverlay(k) == Slot(k, "profile")
Overlay(k) ==
  IF \E i \in HoldingKey(mappings, k) : mappings[i].by = "user"
  THEN Slot(k, "user") ELSE Slot(k, "profile")

Stage(t, k) == IF HoldingKey(t, k) # {}
               THEN [t EXCEPT ![LowestOf(HoldingKey(t, k))] = Overlay(k)]
               ELSE Append(t, Overlay(k))
Staying(batch, replace) ==
  {i \in Live(mappings) :
     replace => \A j \in DOMAIN batch : batch[j].dev # mappings[i].key.dev}
Staged(batch, replace) ==
  LET upTo[n \in 0..Len(batch)] ==
        IF n = 0 THEN Compacted(mappings, Staying(batch, replace))
        ELSE Stage(upTo[n - 1], batch[n])
  IN upTo[Len(batch)]

Import(batch, replace) ==
  LET t    == Staged(batch, replace)
      fits == Len(t) <= Capacity
      save == IF fits THEN SaveTable(t, Len(mappings)) \o Put(Ram, t)
              ELSE <<>>
  IN /\ BeginOp(Snapshot \o save)
     /\ deal' = IF fits THEN <<mappings, t>> ELSE <<>>
     /\ UNCHANGED edit

\* amm_rollback(): a count above the stored blob leaves blank slots
Rollback ==
  /\ edit = <<>>
  /\ ammNvs[RbCountKey] # <<>> /\ ammNvs[RbKey] # <<>>
  /\ ammNvs[RbCountKey][1] >= Len(ammNvs[RbKey])
  /\ LET kept  == ammNvs[RbKey]
         blank == ammNvs[RbCountKey][1] - Len(kept)
         t     == kept \o [i \in 1..blank |-> BlankSlot]
     IN BeginOp(Put(Ram, t) \o SaveTable(t, Len(t)))
  /\ deal' = <<>>
  /\ UNCHANGED edit
-----------------------------------------------------------------------------
(* One write; or it fails, or the power goes, and the operation ends. *)
Write ==
  /\ job # <<>>
  /\ LET w == Head(job) IN
       /\ mappings' = IF w.key = Ram THEN w.val ELSE mappings
       /\ ammNvs' = CASE w.key = Ram -> ammNvs
                   [] w.key = All -> [k \in NvsKeys |-> <<>>]
                   [] OTHER -> [ammNvs EXCEPT ![w.key] = w.val]
  /\ job' = Tail(job)
  /\ deal' = IF Len(job) = 1 THEN <<>> ELSE deal
  /\ UNCHANGED <<edit, faulted, torn, ops, ammFaults>>

AmmFault == ammFaults < MaxAmmFaults /\ ammFaults' = ammFaults + 1

WriteFails ==
  /\ AmmFault
  /\ job # <<>> /\ Head(job).key # Ram
  /\ job' = <<>> /\ edit' = <<>>
  /\ faulted' = TRUE /\ torn' = TRUE
  /\ UNCHANGED <<mappings, ammNvs, deal, ops>>

\* a cut, and amm_init() at the next start
RestartAmm ==
  /\ AmmFault
  /\ mappings' = StartTable(ammNvs) /\ job' = StartJob(ammNvs)
  /\ torn' = (torn \/ job # <<>>)
  /\ edit' = <<>> /\ deal' = <<>>
  /\ faulted' = FALSE
  /\ UNCHANGED <<ammNvs, ops>>

AmmNext ==
  \/ \E k \in Keys : AddMapping(k) \/ RemoveMapping(k)
  \/ \E k, o \in Keys : EditMapping(k, o)
  \/ EditDone
  \/ SetPollIntervalAll \/ ClearMappings \/ Rollback
  \/ \E b \in Imports, replace \in BOOLEAN : Import(b, replace)
  \/ Write \/ WriteFails \/ RestartAmm

AmmSpec == AmmInit /\ [][AmmNext]_ammVars
-----------------------------------------------------------------------------
(* What may be in the table and in NVS. *)
SlotType == [key : Keys, by : {"user", "profile"}, on : BOOLEAN]

AmmTypeOK ==
  /\ Len(mappings) <= Capacity
  /\ \A i \in DOMAIN mappings : mappings[i] \in SlotType
  /\ DOMAIN ammNvs = NvsKeys
  /\ ammNvs[CountKey] # <<>> => ammNvs[CountKey][1] \in 0..Capacity

(* A reboot finds the table that was running: with no operation under way  *)
(* and no failed write since the start, what amm_load_from_nvs() would     *)
(* load is the table in RAM, slot by slot, whatever sequence of edits,     *)
(* clears, imports and rollbacks left stale blobs behind the count.        *)
StoredIsRunning ==
  job = <<>> /\ ~faulted => Loadable(ammNvs) /\ StoredTable(ammNvs) = mappings

(* A physical point has at most one active mapping, as amm_add_mapping()   *)
(* and the duplicate check of amm_import_mappings() intend, as long as no  *)
(* operation was ever broken off in the middle.                            *)
PointMappedOnce ==
  ~torn => \A i, j \in Live(mappings) :
             mappings[i].key = mappings[j].key => i = j

(* User-verified semantics survive re-imports (the comment of              *)
(* amm_overlay_user_semantics()): the table that an import puts in place   *)
(* holds as the user's every point that it regenerates and that was the    *)
(* user's before.                                                          *)
UserSemanticsKept ==
  [][deal # <<>> /\ deal' = <<>> /\ mappings' = deal[2] /\ ~torn
       => \A i \in Live(mappings), j \in Live(mappings') :
            mappings[i].key = mappings'[j].key /\ mappings[i].by = "user"
              => mappings'[j].by = "user"]_ammVars

=============================================================================
