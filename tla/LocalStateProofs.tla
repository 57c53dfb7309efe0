-------------------------- MODULE LocalStateProofs --------------------------
(***************************************************************************)
(* What the gateway keeps of itself: the sequence numbers reserved in NVS  *)
(* (main/tcm/tcm_sequence.c), the two slots of the configuration           *)
(* (main/config/runtime_config.c), the rules of the automation engine      *)
(* (main/automation/automation_engine.c), the log on the card              *)
(* (main/storage/log_store.c) and the mapping table                        *)
(* (main/amm/amm_mapping.c).                                               *)
(***************************************************************************)
EXTENDS TcmSequence, RuntimeConfig, Automation, LogExport,
        AmmStore, ArraysProofs

(***************************************************************************)
(* Identifiers are never reissued, for every reservation size and every    *)
(* bound.  SeqInv is inductive; both properties follow from it.            *)
(***************************************************************************)

\* The factory state satisfies the inductive invariant.
LEMMA SeqInvInit == TcmInit => SeqInv
<1> SUFFICES ASSUME TcmInit
             PROVE  SeqInv
  OBVIOUS
<1>1. TcmTypeOK
  BY DEF TcmInit, TcmTypeOK, Phases
<1>2. ReservationCoversIssued
  BY DEF TcmInit, ReservationCoversIssued
<1>3. QED
  BY <1>1, <1>2 DEF TcmInit, SeqInv

\* Every statement of tcm_init(), next_sequence() and every reset preserves it.
LEMMA SeqInvNext == SeqInv /\ [TcmNext]_tcmVars => SeqInv'
<1> SUFFICES ASSUME SeqInv, [TcmNext]_tcmVars
             PROVE  SeqInv'
  OBVIOUS
<1> USE ReservationAssumption
    DEF SeqInv, TcmTypeOK, ReservationCoversIssued, Phases
<1>1. CASE Boot
  <2>1. PICK kept \in {nvs, 0}, reserved \in {nvs, 0} :
          /\ nvs' = kept
          /\ counter' = reserved
          /\ reservedTo' = reserved + Reservation
          /\ tainted' = (tainted \/ reserved # nvs)
          /\ reserved \in {kept, 0}
    BY <1>1 DEF Boot
  <2>2. tainted' \in BOOLEAN /\ (~tainted' => ~tainted /\ reserved = nvs)
    <3>1. (tainted \/ reserved # nvs) \in BOOLEAN
      OBVIOUS
    <3>2. QED
      BY <2>1, <3>1
  <2>3. ~tainted' => nvs' = nvs
    BY <2>1, <2>2
  <2>4. pc = "off" /\ pc' = "boot" /\ issued' = issued /\ stale' = stale
    BY <1>1 DEF Boot
  <2>5. TcmTypeOK'
    BY <2>1, <2>2, <2>4
  <2>6. QED
    BY <2>1, <2>2, <2>3, <2>4, <2>5
<1>2. CASE BootPersist
  <2>1. CASE PersistOk(reservedTo)
    <3>1. nvs' = reservedTo /\ ~stale' /\ stale' \in BOOLEAN
      BY <2>1 DEF PersistOk
    <3>2. TcmTypeOK'
      BY <1>2, <3>1 DEF BootPersist
    <3>3. QED
      BY <1>2, <3>1, <3>2 DEF BootPersist
  <2>2. CASE PersistFails
    <3>1. nvs' = nvs /\ stale' /\ stale' \in BOOLEAN
      BY <2>2 DEF PersistFails
    <3>2. TcmTypeOK'
      BY <1>2, <3>1 DEF BootPersist
    <3>3. QED
      BY <1>2, <3>1, <3>2 DEF BootPersist
  <2>3. QED
    BY <1>2, <2>1, <2>2 DEF BootPersist
<1>3. CASE Reserve
  <2>1. CASE PersistOk(reservedTo + Reservation)
    <3>1. nvs' = reservedTo + Reservation /\ ~stale' /\ stale' \in BOOLEAN
      BY <2>1 DEF PersistOk
    <3>2. TcmTypeOK'
      BY <1>3, <3>1 DEF Reserve
    <3>3. QED
      BY <1>3, <3>1, <3>2 DEF Reserve
  <2>2. CASE PersistFails
    <3>1. nvs' = nvs /\ stale' /\ stale' \in BOOLEAN
      BY <2>2 DEF PersistFails
    <3>2. TcmTypeOK'
      BY <1>3, <3>1 DEF Reserve
    <3>3. QED
      BY <1>3, <3>1, <3>2 DEF Reserve
  <2>3. QED
    BY <1>3, <2>1, <2>2 DEF Reserve
<1>4. CASE Issue
  BY <1>4 DEF Issue
<1>5. CASE TcmPowerCut
  BY <1>5 DEF TcmPowerCut
<1>6. CASE UNCHANGED tcmVars
  BY <1>6 DEF tcmVars
<1>7. QED
  BY <1>1, <1>2, <1>3, <1>4, <1>5, <1>6 DEF TcmNext

\* The strengthened invariant holds in every reachable state.
THEOREM SeqInvariant == TcmSpec => []SeqInv
<1>1. QED
  BY SeqInvInit, SeqInvNext, PTL DEF TcmSpec

(***************************************************************************)
(* tcm_init() and next_sequence() keep their variables well typed.         *)
(***************************************************************************)
THEOREM TypeCorrect == TcmSpec => []TcmTypeOK
<1>1. SeqInv => TcmTypeOK
  BY DEF SeqInv
<1>2. QED
  BY <1>1, SeqInvariant, PTL

(***************************************************************************)
(* Whenever power fails, the reservation in NVS covers every identifier    *)
(* that next_sequence() has handed out.                                    *)
(***************************************************************************)
THEOREM ReservationSafe == TcmSpec => []ReservationCoversIssued
<1>1. SeqInv => ReservationCoversIssued
  BY DEF SeqInv
<1>2. QED
  BY <1>1, SeqInvariant, PTL

(***************************************************************************)
(* next_sequence() hands out strictly increasing identifiers over the      *)
(* whole life of the gateway, resets included.                             *)
(***************************************************************************)
THEOREM IssueAscends == TcmSpec => AscendingIssue
<1>1. SeqInv /\ [TcmNext]_tcmVars =>
        [Issue /\ ~tainted => \A id \in issued : id < counter']_tcmVars
  BY DEF SeqInv, TcmTypeOK, Issue, Phases
<1>2. QED
  BY <1>1, SeqInvariant, PTL DEF TcmSpec, AscendingIssue
-----------------------------------------------------------------------------
(***************************************************************************)
(* An acknowledged configuration is recoverable, and the configuration is  *)
(* a register that restarts keep, for every set of configurations and      *)
(* every bound - provided a save that moved the flag also succeeds.        *)
(*                                                                         *)
(* Everything rests on one fact about the selection at start-up            *)
(* (SelectedWritten): after a slot is written, either the written record   *)
(* is selected or what was selected without that slot.                     *)
(***************************************************************************)

\* What start-up selects is a stored record.
LEMMA SelectedType ==
  ASSUME NEW n \in [Slots -> Stored], NEW older \in Stored
  PROVE  Selected(n, older) \in Stored
BY DEF Selected, Newer, FirstOf, Slots

\* An absent slot is a record too, and never current.
LEMMA BlankType == Blank \in Stored /\ Blank.layout # "now"
BY ConfigAssumption DEF Blank, Stored, Layouts

\* Writing a current record into one slot.
LEMMA SelectedWritten ==
  ASSUME NEW n \in [Slots -> Stored], NEW older \in Stored, NEW t \in Slots,
         NEW r \in Stored, r.layout = "now"
  PROVE  LET m == [n EXCEPT ![t] = r]
             o == n[Other(t)]
         IN /\ (o.layout = "now" => o.gen < r.gen) => Selected(m, older) = r
            /\ Selected([m EXCEPT ![Other(t)] = Blank], older) = r
<1> DEFINE m == [n EXCEPT ![t] = r]
           o == n[Other(t)]
           e == [m EXCEPT ![Other(t)] = Blank]
<1>1. /\ m \in [Slots -> Stored] /\ m[t] = r /\ m[Other(t)] = o
      /\ e \in [Slots -> Stored] /\ e[t] = r /\ e[Other(t)] = Blank
  BY BlankType DEF Other, Slots
<1>2. t \in Holding(m, "now") /\ t \in Holding(e, "now")
  BY <1>1 DEF Holding
<1>3. Other(t) \in Holding(m, "now") <=> o.layout = "now"
  BY <1>1 DEF Holding, Other, Slots
<1>4. Other(t) \notin Holding(e, "now")
  BY <1>1, BlankType DEF Holding
<1>5. o.gen \in Nat /\ r.gen \in Nat
  BY <1>1 DEF Stored, Other, Slots
<1> HIDE DEF m, o, e
<1>6. Newer(e) = t
  BY <1>2, <1>4 DEF Newer, Other, Slots
<1>7. (o.layout = "now" => o.gen < r.gen) => Newer(m) = t
  BY <1>1, <1>2, <1>3, <1>5 DEF Newer, Other, Slots
<1>8. QED
  BY <1>1, <1>2, <1>6, <1>7 DEF Selected, m, o, e

\* What save_locked() leaves for a restart, at each stage it can reach.  The
\* slot the flag names must not be ahead of the generation counted from.
LEMMA SaveStep ==
  ASSUME ConfigTypeOK, NEW c \in Configs, NEW g \in Nat,
         NEW how \in Stages \cup {"ok"}, SaveLocked(how, c, g),
         slots[active].layout = "now" => slots[active].gen <= g
  PROVE  /\ slots' \in [Slots -> Stored] /\ active' \in Slots
         /\ legacy' = legacy
         /\ how = "none" => Selected(slots', legacy') = Selected(slots, legacy)
         /\ how = "corrupt" => Selected(slots', legacy') = Fallback
         /\ how \in {"none", "corrupt", "blob"} =>
              /\ Fallback' = Fallback
              /\ active' = active
              /\ slots'[active'] = slots[active]
         /\ how \in {"blob", "flagged", "ok"} =>
              Selected(slots', legacy').cfg = c
         /\ how \in {"flagged", "ok"} =>
              Fallback'.cfg = c /\ slots'[active'].gen = g + 1
<1> DEFINE r == [layout |-> "now", gen |-> g + 1, cfg |-> c]
<1> USE DEF ConfigTypeOK
<1>1. r \in Stored /\ r.layout = "now" /\ r.gen = g + 1 /\ r.cfg = c
  BY DEF Stored, Layouts
<1>2. Target \in Slots /\ Target # active /\ Other(Target) = active
  BY DEF Target, Other, Slots
<1>3. active' = active \/ active' = Target
  BY DEF SaveLocked
<1>4. legacy' = legacy /\ active' \in Slots
  BY <1>2, <1>3 DEF SaveLocked
<1>5. CASE how = "none"
  <2>1. slots' = slots /\ active' = active
    BY <1>5 DEF SaveLocked, Written
  <2>2. Fallback' = Fallback
    BY <1>4, <2>1 DEF Fallback, Target
  <2>3. QED
    BY <1>4, <1>5, <2>1, <2>2
<1>6. CASE how = "corrupt"
  <2>1. slots' = [slots EXCEPT ![Target] = Blank] /\ active' = active
    BY <1>6 DEF SaveLocked, Written
  <2>2. [slots' EXCEPT ![Target] = Blank] = [slots EXCEPT ![Target] = Blank]
    BY <1>2, <2>1
  <2>3. Fallback' = Fallback
    BY <1>4, <2>1, <2>2 DEF Fallback, Target
  <2>4. slots' \in [Slots -> Stored] /\ slots'[active] = slots[active]
    BY <1>2, <2>1, BlankType
  <2>5. QED
    BY <1>4, <1>6, <2>1, <2>3, <2>4 DEF Fallback
<1> HIDE DEF r
<1>7. CASE how \in {"blob", "flagged", "ok"}
  <2>1. slots' = [slots EXCEPT ![Target] = r]
    BY <1>7 DEF SaveLocked, Written, r
  <2>2. /\ slots' \in [Slots -> Stored]
        /\ slots'[Target] = r /\ slots'[active] = slots[active]
    BY <1>1, <1>2, <2>1
  <2>3. slots[active].gen \in Nat
    BY DEF Stored
  <2>4. slots[Other(Target)].layout = "now" => slots[Other(Target)].gen < r.gen
    BY <1>1, <1>2, <2>3
  <2>5. /\ Selected(slots', legacy) = r
        /\ Selected([slots' EXCEPT ![Other(Target)] = Blank], legacy) = r
    BY <1>1, <1>2, <2>1, <2>4, SelectedWritten
  <2>6. CASE how = "blob"
    <3>1. active' = active
      BY <2>6 DEF SaveLocked
    <3>2. [slots' EXCEPT ![Target] = Blank] = [slots EXCEPT ![Target] = Blank]
      BY <1>2, <2>1
    <3>3. Fallback' = Fallback
      BY <1>4, <3>1, <3>2 DEF Fallback, Target
    <3>4. QED
      BY <1>1, <1>4, <2>2, <2>5, <2>6, <3>1, <3>3
  <2>7. CASE how \in {"flagged", "ok"}
    <3>1. active' = Target
      BY <2>7 DEF SaveLocked
    <3>2. Fallback' =
            Selected([slots' EXCEPT ![Other(Target)] = Blank], legacy)
      BY <1>4, <3>1 DEF Fallback, Target
    <3>3. QED
      BY <1>1, <1>4, <2>2, <2>5, <2>7, <3>1, <3>2
  <2>8. QED
    BY <1>7, <2>6, <2>7
<1>8. QED
  BY <1>5, <1>6, <1>7 DEF Stages

\* A stored configuration is one, and no fault of a set moves the flag.
LEMMA StoredCfg == \A r \in Stored : r.cfg \in Configs /\ r.gen \in Nat
BY DEF Stored

-----------------------------------------------------------------------------
\* Every store an older firmware leaves, and the empty one, satisfies the
\* inductive invariant: the flag names the slot that was completed.
LEMMA ConfigInvInit == ConfigInit => ConfigInv
<1> SUFFICES ASSUME ConfigInit
             PROVE  ConfigInv
  OBVIOUS
<1> DEFINE V1 == {Blank} \cup [layout : {"v1"}, gen : {0}, cfg : Configs]
           Old(g) == [layout : {"v2", "v3"}, gen : {g}, cfg : Configs]
<1>1. /\ ~up /\ up \in BOOLEAN /\ ram \in Configs /\ generation \in Nat
      /\ origin \in Origins
  BY ConfigAssumption DEF ConfigInit, Origins
<1>2. FlagNotAhead
  BY <1>1 DEF FlagNotAhead
<1>3. /\ Blank \in Stored /\ Blank.layout = "none" /\ Blank.cfg \in Configs
  BY BlankType, ConfigAssumption DEF Blank
<1>4. \A r \in V1 : r \in Stored /\ r.layout \in {"none", "v1"}
  BY <1>3 DEF Stored, Layouts
<1>5. \A g \in Nat : \A r \in Old(g) :
        r \in Stored /\ r.layout \in {"v2", "v3"}
  BY DEF Stored, Layouts
<1>6. CASE FoundEmptyOrV1
  <2>1. /\ slots \in [Slots -> Stored] /\ active \in Slots
        /\ slots["A"] = Blank /\ slots["B"] = Blank /\ legacy \in V1
        /\ newest = legacy.cfg /\ may = {legacy.cfg}
    BY <1>3, <1>6 DEF FoundEmptyOrV1, Slots
  <2>2. /\ legacy \in Stored /\ legacy.layout \in {"none", "v1"}
        /\ legacy.cfg \in Configs
    BY <1>4, <2>1, StoredCfg
  <2>3. [slots EXCEPT ![Target] = Blank] = slots
    BY <2>1 DEF Target, Other, Slots
  <2>4. Selected(slots, legacy) = legacy
    BY <1>3, <2>1 DEF Selected, Holding, Slots
  <2>5. QED
    BY <1>1, <1>2, <2>1, <2>2, <2>3, <2>4
       DEF ConfigInv, ConfigTypeOK, Recoverable, FallbackRecoverable, Fallback
<1>7. CASE FoundOlder
  <2>1. PICK live \in Old(FoundGeneration),
             prev \in Old(FoundGeneration - 1) \cup {Blank} :
          /\ active \in Slots
          /\ slots = [s \in Slots |-> IF s = active THEN live ELSE prev]
          /\ legacy \in V1
          /\ newest = live.cfg
          /\ may = {live.cfg} \cup (IF prev = Blank THEN {} ELSE {prev.cfg})
    BY <1>7 DEF FoundOlder
  <2>2. /\ live \in Stored /\ live.layout \in {"v2", "v3"}
        /\ prev \in Stored
        /\ prev = Blank \/ prev.layout \in {"v2", "v3"}
    BY <1>3, <1>5, <2>1 DEF FoundGeneration
  <2>3. /\ legacy \in Stored /\ legacy.layout \in {"none", "v1"}
    BY <1>4, <2>1
  <2>4. may \subseteq Configs /\ newest \in Configs
    BY <2>1, <2>2, StoredCfg
  <2>5. /\ slots \in [Slots -> Stored]
        /\ slots[active] = live /\ slots[Target] = prev
        /\ Target \in Slots /\ Slots = {active, Target}
    BY <2>1, <2>2 DEF Target, Other, Slots
  <2> DEFINE e == [slots EXCEPT ![Target] = Blank]
  <2>6. e[active] = live /\ e[Target] = Blank
    BY <2>1, <2>5 DEF Target, Other, Slots
  <2> HIDE DEF e
  <2>7. /\ Selected(slots, legacy) \in {live, prev}
        /\ prev = Blank => Selected(slots, legacy) = live
    <3>1. Holding(slots, "now") = {}
      BY <1>3, <2>2, <2>5 DEF Holding
    <3>2. active \in Holding(slots, "v2") \/ active \in Holding(slots, "v3")
      BY <2>2, <2>5 DEF Holding
    <3>3. \A l \in {"v2", "v3"} :
            prev = Blank => Holding(slots, l) \subseteq {active}
      BY <1>3, <2>5 DEF Holding
    <3>4. \A S \in SUBSET Slots : S # {} => FirstOf(S) \in S
      BY DEF FirstOf, Slots
    <3>5. \A l \in {"v2", "v3"} : Holding(slots, l) \in SUBSET Slots
      BY DEF Holding
    <3>6. QED
      BY <2>5, <3>1, <3>2, <3>3, <3>4, <3>5 DEF Selected
  <2>8. Selected(e, legacy) = live
    <3>1. Holding(e, "now") = {}
      BY <1>3, <2>2, <2>5, <2>6 DEF Holding
    <3>2. active \in Holding(e, "v2") \/ active \in Holding(e, "v3")
      BY <2>2, <2>5, <2>6 DEF Holding
    <3>3. \A l \in {"v2", "v3"} : Holding(e, l) \subseteq {active}
      BY <1>3, <2>5, <2>6 DEF Holding
    <3>4. \A S \in SUBSET Slots : S # {} => FirstOf(S) \in S
      BY DEF FirstOf, Slots
    <3>5. \A l \in {"v2", "v3"} : Holding(e, l) \in SUBSET Slots
      BY DEF Holding
    <3>6. QED
      BY <2>5, <2>6, <3>1, <3>2, <3>3, <3>4, <3>5 DEF Selected
  <2>9. QED
    BY <1>1, <1>2, <2>1, <2>3, <2>4, <2>5, <2>7, <2>8
       DEF ConfigInv, ConfigTypeOK, Recoverable, FallbackRecoverable,
           Fallback, e
<1>8. QED
  BY <1>6, <1>7 DEF ConfigInit

-----------------------------------------------------------------------------
\* Every step preserves it when no refused save has moved the flag.
LEMMA ConfigInvNext ==
  ASSUME "flagged" \notin Faults, ConfigInv, [ConfigNext]_configVars
  PROVE  ConfigInv'
<1> DEFINE found == Selected(slots, legacy)
<1>1. /\ found \in Stored /\ found.cfg \in Configs /\ found.gen \in Nat
  BY SelectedType, StoredCfg DEF ConfigInv, ConfigTypeOK
<1>2. found.layout # "now" => slots[active].layout # "now"
  <2>1. SUFFICES ASSUME slots[active].layout = "now"
                 PROVE  found.layout = "now"
    OBVIOUS
  <2>2. Holding(slots, "now") # {}
    BY <2>1 DEF ConfigInv, ConfigTypeOK, Holding
  <2>3. Newer(slots) \in Holding(slots, "now")
    BY <2>2 DEF Newer, Holding, Slots
  <2>4. QED
    BY <2>2, <2>3 DEF Selected, Holding
<1>3. found.layout = "now" /\ slots[active].layout = "now" =>
        slots[active].gen <= found.gen
  <2>1. SUFFICES ASSUME slots[active].layout = "now"
                 PROVE  slots[active].gen <= found.gen
    OBVIOUS
  <2>2. active \in Holding(slots, "now")
    BY <2>1 DEF ConfigInv, ConfigTypeOK, Holding
  <2>3. found = slots[Newer(slots)]
    BY <2>2 DEF Selected
  <2>4. slots["A"].gen \in Nat /\ slots["B"].gen \in Nat
    BY StoredCfg DEF ConfigInv, ConfigTypeOK, Slots
  <2>5. QED
    BY <2>2, <2>3, <2>4 DEF Newer, Slots, Holding
<1> HIDE DEF found
<1>4. CASE BootLoads
  <2>1. /\ found.layout = "now" /\ up' = TRUE /\ ram' = found.cfg
        /\ generation' = found.gen /\ origin' = "stored"
        /\ slots' = slots /\ active' = active /\ legacy' = legacy
        /\ newest' = newest /\ may' = may
    BY <1>4 DEF BootLoads, store, found
  <2>2. ConfigTypeOK'
    BY <1>1, <2>1 DEF ConfigInv, ConfigTypeOK, Origins
  <2>3. Recoverable' /\ FallbackRecoverable'
    BY <2>1 DEF ConfigInv, Recoverable, FallbackRecoverable, Fallback, Target
  <2>4. FlagNotAhead'
    BY <1>3, <2>1 DEF FlagNotAhead
  <2>5. QED
    BY <2>2, <2>3, <2>4 DEF ConfigInv
<1>5. CASE BootSaves
  <2>1. /\ found.layout # "now" /\ SaveLocked("ok", found.cfg, found.gen)
        /\ up' = TRUE /\ ram' = found.cfg /\ generation' = found.gen + 1
        /\ origin' \in {"defaults", "migrated"}
        /\ may' = {found.cfg} /\ newest' = newest
    BY <1>5 DEF BootSaves, found
  <2>2. /\ slots' \in [Slots -> Stored] /\ active' \in Slots
        /\ legacy' = legacy
        /\ Selected(slots', legacy').cfg = found.cfg
        /\ Fallback'.cfg = found.cfg
        /\ slots'[active'].gen = found.gen + 1
    BY <1>1, <1>2, <2>1, SaveStep DEF ConfigInv
  <2>3. ConfigTypeOK'
    BY <1>1, <2>1, <2>2 DEF ConfigInv, ConfigTypeOK, Origins
  <2>4. Recoverable' /\ FallbackRecoverable'
    BY <2>1, <2>2 DEF Recoverable, FallbackRecoverable
  <2>5. FlagNotAhead'
    BY <1>1, <2>1, <2>2 DEF FlagNotAhead
  <2>6. QED
    BY <2>3, <2>4, <2>5 DEF ConfigInv
<1>6. CASE \E how \in Stages : BootAborts(how)
  <2>1. PICK how \in Stages : BootAborts(how)
    BY <1>6
  <2>2. /\ found.layout # "now" /\ SaveLocked(how, found.cfg, found.gen)
        /\ ~up /\ up' = up /\ ram' = ram /\ generation' = generation
        /\ origin' = origin /\ newest' = newest /\ may' = may
    BY <2>1 DEF BootAborts, found
  <2>3. /\ slots' \in [Slots -> Stored] /\ active' \in Slots
        /\ legacy' = legacy
        /\ how = "none" => Selected(slots', legacy') = found
        /\ how = "corrupt" => Selected(slots', legacy') = Fallback
        /\ how \in {"none", "corrupt", "blob"} => Fallback' = Fallback
        /\ how \in {"blob", "flagged"} =>
             Selected(slots', legacy').cfg = found.cfg
        /\ how = "flagged" => Fallback'.cfg = found.cfg
    BY <1>1, <1>2, <2>2, SaveStep DEF ConfigInv, found
  <2>4. found.cfg \in may /\ Fallback.cfg \in may
    BY DEF ConfigInv, Recoverable, FallbackRecoverable, found
  <2>5. ConfigTypeOK'
    BY <2>2, <2>3 DEF ConfigInv, ConfigTypeOK
  <2>6. Recoverable' /\ FallbackRecoverable'
    BY <2>2, <2>3, <2>4 DEF Recoverable, FallbackRecoverable, Stages
  <2>7. FlagNotAhead'
    BY <2>2 DEF FlagNotAhead
  <2>8. QED
    BY <2>5, <2>6, <2>7 DEF ConfigInv
<1>7. CASE \E c \in Configs : SaveSucceeds(c)
  <2>1. PICK c \in Configs : SaveSucceeds(c)
    BY <1>7
  <2>2. /\ up /\ SaveLocked("ok", c, generation) /\ up' = up /\ ram' = c
        /\ generation' = generation + 1 /\ origin' = "set"
        /\ may' = {c} /\ newest' = newest
    BY <2>1 DEF SaveSucceeds
  <2>3. /\ slots' \in [Slots -> Stored] /\ active' \in Slots
        /\ legacy' = legacy
        /\ Selected(slots', legacy').cfg = c
        /\ Fallback'.cfg = c
        /\ slots'[active'].gen = generation + 1
    BY <2>2, SaveStep DEF ConfigInv, ConfigTypeOK, FlagNotAhead
  <2>4. ConfigTypeOK'
    BY <2>2, <2>3 DEF ConfigInv, ConfigTypeOK, Origins
  <2>5. Recoverable' /\ FallbackRecoverable'
    BY <2>2, <2>3 DEF Recoverable, FallbackRecoverable
  <2>6. FlagNotAhead'
    BY <2>2, <2>3 DEF ConfigInv, ConfigTypeOK, FlagNotAhead
  <2>7. QED
    BY <2>4, <2>5, <2>6 DEF ConfigInv
<1>8. ASSUME NEW c \in Configs, NEW how \in Stages, up,
             SaveLocked(how, c, generation), may' = MayFind(how, c),
             ram' \in Configs, generation' \in Nat, origin' \in Origins,
             newest' = newest,
             up' \in BOOLEAN,
             up' => generation' = generation /\ how # "flagged"
      PROVE  ConfigInv'
  <2>1. /\ slots' \in [Slots -> Stored] /\ active' \in Slots
        /\ legacy' = legacy
        /\ how = "none" => Selected(slots', legacy') = found
        /\ how = "corrupt" => Selected(slots', legacy') = Fallback
        /\ how \in {"none", "corrupt", "blob"} =>
             Fallback' = Fallback /\ slots'[active'] = slots[active]
        /\ how \in {"blob", "flagged"} => Selected(slots', legacy').cfg = c
        /\ how = "flagged" => Fallback'.cfg = c
    BY <1>8, SaveStep DEF ConfigInv, ConfigTypeOK, FlagNotAhead, found
  <2>2. found.cfg \in may /\ Fallback.cfg \in may
    BY DEF ConfigInv, Recoverable, FallbackRecoverable, found
  <2>3. ConfigTypeOK'
    BY <1>8, <2>1 DEF ConfigInv, ConfigTypeOK, MayFind
  <2>4. Recoverable' /\ FallbackRecoverable'
    BY <1>8, <2>1, <2>2 DEF Recoverable, FallbackRecoverable, MayFind, Stages
  <2>5. FlagNotAhead'
    BY <1>8, <2>1 DEF ConfigInv, FlagNotAhead, Stages
  <2>6. QED
    BY <2>3, <2>4, <2>5 DEF ConfigInv
<1>9. CASE \E c \in Configs, how \in Faults : SetFails(c, how)
  <2>1. PICK c \in Configs, how \in Faults : SetFails(c, how)
    BY <1>9
  <2>2. how \in Stages /\ how # "flagged"
    BY ConfigAssumption
  <2>3. QED
    BY <1>8, <2>1, <2>2 DEF SetFails, ConfigInv, ConfigTypeOK
<1>10. CASE \E how \in Faults : ResetFails(how)
  <2>1. PICK how \in Faults : ResetFails(how)
    BY <1>10
  <2>2. how \in Stages /\ how # "flagged" /\ Default \in Configs
    BY ConfigAssumption
  <2>3. QED
    BY <1>8, <2>1, <2>2 DEF ResetFails, ConfigInv, ConfigTypeOK, Origins
<1>11. CASE \E c \in Configs, how \in Stages : PowerCut(c, how)
  <2>1. PICK c \in Configs, how \in Stages : PowerCut(c, how)
    BY <1>11
  <2>2. Default \in Configs
    BY ConfigAssumption
  <2>3. QED
    BY <1>8, <2>1, <2>2 DEF PowerCut, Origins
<1>12. CASE UNCHANGED configVars
  BY <1>12 DEF configVars, ConfigInv, ConfigTypeOK, Recoverable,
                  FallbackRecoverable,
               Fallback, Target, FlagNotAhead
<1>13. QED
  BY <1>4, <1>5, <1>6, <1>7, <1>9, <1>10, <1>11, <1>12 DEF ConfigNext

-----------------------------------------------------------------------------
\* The inductive invariant holds in every reachable state.
THEOREM ConfigInvariant ==
  ASSUME "flagged" \notin Faults
  PROVE  ConfigSpec => []ConfigInv
<1>1. ConfigInv /\ [ConfigNext]_configVars => ConfigInv'
  BY ConfigInvNext
<1>2. QED
  BY <1>1, ConfigInvInit, PTL DEF ConfigSpec

\* An acknowledged configuration is found by every restart until another
\* save is begun, whichever saves fail and wherever the power is cut.
THEOREM ConfigRecoverable ==
  ASSUME "flagged" \notin Faults
  PROVE  ConfigSpec => []Recoverable
<1>1. ConfigInv => Recoverable
  BY DEF ConfigInv
<1>2. QED
  BY <1>1, ConfigInvariant, PTL
-----------------------------------------------------------------------------
\* The configuration in effect, as the register sees it.
Running == IF up THEN ram ELSE Off

\* A stopped gateway with a nonempty set of candidates is a register.
LEMMA RegisterInit == ConfigInit => Register!Init
<1> SUFFICES ASSUME ConfigInit
             PROVE  Register!Init
  OBVIOUS
<1>1. may \subseteq Configs /\ may # {}
  BY ConfigInvInit DEF ConfigInv, ConfigTypeOK, Recoverable
<1>2. ~up
  BY DEF ConfigInit
<1>3. QED
  BY <1>1, <1>2 DEF Register!Init

\* Every step is a step of the register, or changes nothing it sees.
LEMMA RegisterStep ==
  ASSUME ConfigInv, [ConfigNext]_configVars
  PROVE  [Register!Next]_<<Running, may>>
<1> DEFINE found == Selected(slots, legacy)
<1>1. found.cfg \in may /\ found.cfg \in Configs /\ found.cfg # Off
  BY ConfigAssumption DEF ConfigInv, ConfigTypeOK, Recoverable
<1>2. ram \in Configs /\ ram # Off /\ Off \notin Configs /\ Default \in Configs
  BY ConfigAssumption DEF ConfigInv, ConfigTypeOK
<1>3. CASE BootLoads \/ BootSaves
  <2>1. /\ ~up /\ up' /\ ram' = found.cfg
        /\ may' = may \/ may' = {found.cfg}
    BY <1>3 DEF BootLoads, BootSaves
  <2> HIDE DEF found
  <2>2. Register!Restart(found.cfg)
    BY <1>1, <2>1 DEF Register!Restart
  <2>3. QED
    BY <1>1, <2>2 DEF Register!Next
<1> HIDE DEF found
<1>4. CASE \E how \in Stages : BootAborts(how)
  <2>1. up' = up /\ ram' = ram /\ may' = may
    BY <1>4 DEF BootAborts
  <2>2. QED
    BY <2>1 DEF Running
<1>5. CASE \E c \in Configs : SaveSucceeds(c)
  <2>1. PICK c \in Configs : SaveSucceeds(c)
    BY <1>5
  <2>2. up /\ up' = up /\ ram' = c /\ may' = {c}
    BY <2>1 DEF SaveSucceeds
  <2>3. Register!Settle(c)
    BY <1>2, <2>2 DEF Register!Settle
  <2>4. QED
    BY <2>3 DEF Register!Next
<1>6. CASE \E c \in Configs, how \in Faults : SetFails(c, how)
  <2>1. PICK c \in Configs, how \in Faults : SetFails(c, how)
    BY <1>6
  <2>2. /\ up /\ up' = up /\ ram' = ram
        /\ may' = may \/ may' = may \cup {c}
    BY <2>1 DEF SetFails, MayFind
  <2>3. Register!Refuse(c)
    BY <1>2, <2>2 DEF Register!Refuse
  <2>4. QED
    BY <2>3 DEF Register!Next
<1>7. CASE \E how \in Faults : ResetFails(how)
  <2>1. /\ up /\ up' = up /\ ram' = Default
        /\ may' = may \/ may' = may \cup {Default}
    BY <1>7 DEF ResetFails, MayFind
  <2>2. Register!Refuse(Default)
    BY <1>2, <2>1 DEF Register!Refuse
  <2>3. QED
    BY <1>2, <2>2 DEF Register!Next
<1>8. CASE \E c \in Configs, how \in Stages : PowerCut(c, how)
  <2>1. PICK c \in Configs, how \in Stages : PowerCut(c, how)
    BY <1>8
  <2>2. /\ up /\ ~up'
        /\ may' = may \/ may' = may \cup {c}
    BY <2>1 DEF PowerCut, MayFind
  <2>3. Register!PowerCut(c)
    BY <1>2, <2>2 DEF Register!PowerCut
  <2>4. QED
    BY <2>3 DEF Register!Next
<1>9. CASE UNCHANGED configVars
  BY <1>9 DEF configVars, Running
<1>10. QED
  BY <1>3, <1>4, <1>5, <1>6, <1>7, <1>8, <1>9 DEF ConfigNext

\* The two slots, the flag and the selection at start-up implement a register
\* that keeps its value across restarts: a restart comes up with a candidate,
\* and an acknowledged save leaves one candidate only.
THEOREM ConfigRefinesRegister ==
  ASSUME "flagged" \notin Faults
  PROVE  ConfigSpec => RegisterSpec
<1>1. ConfigInv /\ [ConfigNext]_configVars => [Register!Next]_<<Running, may>>
  BY RegisterStep
<1>2. ConfigInv /\ [ConfigNext]_configVars =>
        [Register!Next]_<<IF up THEN ram ELSE Off, may>>
  BY <1>1 DEF Running
<1>3. QED
  BY <1>2, RegisterInit, ConfigInvariant, PTL
  DEF ConfigSpec, RegisterSpec, Register!Spec
-----------------------------------------------------------------------------
(***************************************************************************)
(* IdsUnique.  Every identifier in use, in the table and in NVS, is below  *)
(* the next_id kept with it, or was chosen by a client above it; so the    *)
(* next one given out can only meet one that a client chose.               *)
(***************************************************************************)

RuleIds    == 1..MaxRuleIds
RuleOf(S) == [id : S, src : Sources]

\* A table whose identifiers, but those in A, are below n and all different.
Sound(t, n, A) ==
  \A i, j \in 1..Len(t) :
    t[i].id \notin A => t[i].id < n /\ (t[i].id = t[j].id => i = j)

\* The table and the saved one are sound, each with its own next_id.
IdsInv ==
  /\ nextId \in Nat \ {0}
  /\ rules \in Seq(RuleOf(RuleIds)) /\ Len(rules) <= MaxRules
  /\ saved.rules \in Seq(RuleOf(RuleIds)) /\ Len(saved.rules) <= MaxRules
  /\ saved.nextId \in Nat \ {0}
  /\ Sound(rules, nextId, ahead)
  /\ Sound(saved.rules, saved.nextId, ahead)

\* The entries of a table are rules.
LEMMA TableEntries ==
  ASSUME NEW S, NEW t \in Seq(RuleOf(S)), NEW j \in 1..Len(t)
  PROVE  t[j] \in RuleOf(S) /\ t[j].id \in S
<1>1. t[j] \in RuleOf(S)
  BY ElementOfSeq
<1> QED
  BY <1>1 DEF RuleOf

\* The first rule with an identifier is one of the rules that have it.
LEMMA FirstOfId ==
  ASSUME rules \in Seq(RuleOf(RuleIds)), NEW id, SlotsOf(id) # {}
  PROVE  /\ First(SlotsOf(id)) \in 1..Len(rules)
         /\ rules[First(SlotsOf(id))].id = id
<1> DEFINE S == SlotsOf(id)
<1>1. S \subseteq Nat
  BY DEF SlotsOf
<1>2. \E i \in S : \A j \in S : i <= j
  <2>1. PICK i \in S : \A j \in S : ~ (<<j, i>> \in OpToRel(<, Nat))
    BY <1>1, NatLessThanWellFounded, WFMin
  <2>2. \A j \in S : ~ (j < i)
    BY <1>1, <2>1 DEF OpToRel
  <2> QED
    BY <1>1, <2>2
<1>3. First(S) \in S
  BY <1>2 DEF First
<1> QED
  BY <1>3 DEF SlotsOf

\* An edit keeps the tables sound, whether its save succeeds or not.
LEMMA EditKeepsIds ==
  ASSUME IdsInv, SaveRules, ahead \subseteq ahead', nextId' \in Nat \ {0},
         rules' \in Seq(RuleOf(RuleIds)), Len(rules') <= MaxRules,
         Sound(rules', nextId', ahead')
  PROVE  IdsInv'
<1>1. CASE saved' = [rules |-> rules', nextId |-> nextId']
  BY <1>1 DEF IdsInv
<1>2. CASE saved' = saved
  <2>1. Sound(saved.rules, saved.nextId, ahead')
    BY DEF IdsInv, Sound
  <2> QED
    BY <1>2, <2>1 DEF IdsInv
<1> QED
  BY <1>1, <1>2 DEF SaveRules

\* A new rule gets next_id, or an identifier that no rule of the table has.
LEMMA InsertKeepsIds ==
  ASSUME IdsInv, NEW id \in RuleIds \cup {0}, NEW src \in Sources,
         SlotsOf(id) = {}, Insert(id, src)
  PROVE  IdsInv'
<1> DEFINE new  == IF id = 0 THEN nextId ELSE id
           rule == [id |-> new, src |-> src]
<1>1. /\ rules' = Append(rules, rule)
      /\ nextId' = IF id = 0 THEN nextId + 1 ELSE nextId
      /\ ahead' = IF id >= nextId THEN ahead \cup {id} ELSE ahead
      /\ Len(rules) < MaxRules /\ SaveRules
      /\ id = 0 => nextId <= MaxRuleIds
  BY DEF Insert
<1>2. /\ new \in RuleIds /\ nextId' \in Nat \ {0} /\ nextId <= nextId'
      /\ nextId \in Nat \ {0}
  BY <1>1, RuleBoundAssumption DEF IdsInv, RuleIds
<1>3. rule \in RuleOf(RuleIds) /\ rules \in Seq(RuleOf(RuleIds))
  BY <1>2 DEF IdsInv, RuleOf
<1>4. /\ rules' \in Seq(RuleOf(RuleIds)) /\ Len(rules') = Len(rules) + 1
      /\ \A j \in 1..Len(rules) : rules'[j] = rules[j]
      /\ rules'[Len(rules) + 1] = rule
  BY <1>1, <1>3, AppendProperties
<1>5. Len(rules) \in Nat /\ \A j \in 1..Len(rules) : rules[j].id \in RuleIds
  BY TableEntries, LenProperties DEF IdsInv
<1>6. ahead \subseteq ahead'
  BY <1>1
<1>7. new \in ahead' \/ new < nextId'
  BY <1>1, <1>2 DEF RuleIds
<1>8. \A j \in 1..Len(rules) : rules[j].id = new => new \in ahead
  <2>1. CASE id = 0
    <3>1. Sound(rules, nextId, ahead) /\ new = nextId
      BY <2>1 DEF IdsInv
    <3> QED
      BY <1>2, <3>1 DEF Sound
  <2>2. CASE id # 0
    BY <2>2 DEF SlotsOf
  <2> QED
    BY <2>1, <2>2
<1>9. Sound(rules', nextId', ahead')
  <2>1. \A n \in 1..Len(rules') :
          \/ n \in 1..Len(rules) /\ rules'[n] = rules[n]
          \/ n = Len(rules) + 1 /\ rules'[n] = rule
    BY ONLY <1>4, <1>5
  <2>2. rule.id = new
    OBVIOUS
  <2>3. \A j \in 1..Len(rules) : rules[j].id \in Int
    BY <1>5 DEF RuleIds
  <2>4. Sound(rules, nextId, ahead)
    BY DEF IdsInv
  <2> HIDE DEF rule, new
  <2> SUFFICES ASSUME NEW j \in 1..Len(rules'), NEW k \in 1..Len(rules'),
                      rules'[j].id \notin ahead'
               PROVE  /\ rules'[j].id < nextId'
                      /\ rules'[j].id = rules'[k].id => j = k
    BY DEF Sound
  <2>5. rules'[j].id < nextId'
    BY <1>2, <1>6, <1>7, <2>1, <2>2, <2>3, <2>4 DEF Sound
  <2>6. ASSUME rules'[j].id = rules'[k].id PROVE j = k
    <3>1. CASE j \in 1..Len(rules) /\ k \in 1..Len(rules)
      BY <1>4, <1>6, <2>4, <2>6, <3>1 DEF Sound
    <3>2. CASE j \in 1..Len(rules) /\ k = Len(rules) + 1
      BY <1>4, <1>6, <1>8, <2>2, <2>6, <3>2
    <3>3. CASE j = Len(rules) + 1 /\ k \in 1..Len(rules)
      BY <1>4, <1>6, <1>8, <2>2, <2>6, <3>3
    <3> QED
      BY <2>1, <3>1, <3>2, <3>3
  <2> QED
    BY <2>5, <2>6
<1>10. Len(rules') <= MaxRules
  BY <1>1, <1>4, <1>5, RulesAssumption
<1> QED
  BY <1>1, <1>2, <1>4, <1>6, <1>9, <1>10, EditKeepsIds

\* A rule that replaces the first with its identifier keeps that one.
LEMMA ReplaceKeepsIds ==
  ASSUME IdsInv, NEW id \in RuleIds \cup {0}, NEW src \in Sources,
         SlotsOf(id) # {}, Replace(id, src)
  PROVE  IdsInv'
<1> DEFINE i == First(SlotsOf(id))
           rule == [id |-> id, src |-> src]
<1>1. i \in 1..Len(rules) /\ rules[i].id = id
  BY FirstOfId DEF IdsInv
<1> HIDE DEF i
<1>2. rules' = [rules EXCEPT ![i] = rule] /\ UNCHANGED <<nextId, ahead>>
      /\ SaveRules
  BY DEF Replace, i
<1>3. rule \in RuleOf(RuleIds)
  <2>1. id \in RuleIds
    BY <1>1, TableEntries DEF IdsInv
  <2> QED
    BY <2>1 DEF RuleOf
<1>4. /\ rules' \in Seq(RuleOf(RuleIds)) /\ Len(rules') = Len(rules)
      /\ \A j \in 1..Len(rules) : rules'[j] = IF j = i THEN rule ELSE rules[j]
  BY <1>1, <1>2, <1>3, ExceptSeq DEF IdsInv
<1>5. \A j \in 1..Len(rules) : rules'[j].id = rules[j].id
  BY <1>1, <1>4
<1>6. Sound(rules', nextId', ahead')
  BY <1>2, <1>4, <1>5 DEF Sound, IdsInv
<1> QED
  BY <1>2, <1>4, <1>6, EditKeepsIds DEF IdsInv

\* Deleting a rule closes the gap; no identifier comes twice by that.
LEMMA DeleteKeepsIds ==
  ASSUME IdsInv, NEW id \in RuleIds, Delete(id)
  PROVE  IdsInv'
<1> DEFINE i == First(SlotsOf(id))
<1>1. i \in 1..Len(rules)
  BY FirstOfId DEF IdsInv, Delete
<1> HIDE DEF i
<1>2. /\ rules' = Without(rules, i)
      /\ UNCHANGED <<nextId, ahead>> /\ SaveRules
  BY DEF Delete, i
<1>3. /\ rules' \in Seq(RuleOf(RuleIds)) /\ Len(rules') = Len(rules) - 1
      /\ \A j \in 1..Len(rules') :
           rules'[j] = IF j < i THEN rules[j] ELSE rules[j + 1]
  <2>1. rules \in Seq(RuleOf(RuleIds))
    BY DEF IdsInv
  <2> QED
    BY <1>1, <1>2, <2>1, WithoutOne
<1>4. Sound(rules', nextId', ahead')
  <2>1. Len(rules) \in Nat /\ Sound(rules, nextId, ahead)
    BY LenProperties DEF IdsInv
  <2> QED
    BY <1>1, <1>2, <1>3, <2>1 DEF Sound
<1>5. Len(rules') <= MaxRules
  BY <1>1, <1>3, RulesAssumption DEF IdsInv
<1> QED
  BY <1>2, <1>3, <1>4, <1>5, EditKeepsIds DEF IdsInv

\* The empty table at the first start.
LEMMA IdsInvInit == AutomationInit => IdsInv
<1> SUFFICES ASSUME AutomationInit PROVE IdsInv
  OBVIOUS
<1>1. rules = <<>> /\ nextId = 1 /\ saved = [rules |-> <<>>, nextId |-> 1]
      /\ MaxRules >= 0
  BY RulesAssumption DEF AutomationInit
<1> QED
  BY <1>1 DEF IdsInv, Sound

\* The numbers a client may send: none, or an identifier.
LEMMA IdsSent == 0..MaxRuleIds = RuleIds \cup {0}
BY RuleBoundAssumption DEF RuleIds

\* Every operation of the web server, every pass and every restart.
LEMMA IdsInvNext == IdsInv /\ [AutomationNext]_automationVars => IdsInv'
<1> SUFFICES ASSUME IdsInv, [AutomationNext]_automationVars PROVE IdsInv'
  OBVIOUS
<1>1. ASSUME NEW s \in Sources, Upsert(s) PROVE IdsInv'
  BY <1>1, IdsSent, InsertKeepsIds, ReplaceKeepsIds DEF Upsert
<1>2. ASSUME NEW id \in RuleIds, Delete(id) PROVE IdsInv'
  BY <1>2, DeleteKeepsIds
<1>3. CASE Restart
  BY <1>3 DEF Restart, IdsInv
<1>4. CASE UNCHANGED <<rules, nextId, saved, ahead>>
  BY <1>4 DEF IdsInv, Sound
<1>5. ASSUME NEW s \in Sources, LevelChanges(s)
      PROVE  UNCHANGED <<rules, nextId, saved, ahead>>
  BY <1>5 DEF LevelChanges, ruleVars
<1>6. CASE PassStep \/ Tick \/ UNCHANGED automationVars
  BY <1>4, <1>6 DEF PassStep, BeginPass, Skip, NoMatch, Match, Finish, Tick,
                    automationVars, ruleVars
<1> QED
  BY <1>1, <1>2, <1>3, <1>4, <1>5, <1>6 DEF AutomationNext, RuleIds

\* Two rules have the same identifier only if it is one that a client chose
\* before s_next_id reached it (automation_upsert_rule(),
\* automation_delete_rule(), automation_init()); whatever identifiers clients
\* send and whatever saves fail, for every number of rules and edits.
THEOREM RuleIdsUnique == AutomationSpec => []IdsUnique
<1>1. IdsInv => IdsUnique
  BY DEF IdsInv, IdsUnique, Sound
<1> QED
  BY <1>1, IdsInvInit, IdsInvNext, PTL DEF AutomationSpec

(***************************************************************************)
(* Automation: hold times and cooldowns                                    *)
(***************************************************************************)
\* A pass works on a table of the right size, with a time of the past.
PassInv ==
  /\ clock \in Nat \ {0} /\ now \in Nat /\ now <= clock
  /\ copy \in Seq(RuleOf(Nat)) /\ Len(copy) <= MaxRules
  /\ at \in 0..Len(copy) /\ (at # 0 => now # 0)
  /\ firing \in BOOLEAN /\ (firing => at # 0)

\* The engine counts the hold time of a slot from no earlier than the pass
\* that first saw its rule match.
HoldInv ==
  /\ since \in [RuleSlots -> Nat] /\ matching \in [RuleSlots -> Nat]
  /\ stamp \in [RuleSlots -> Nat]
  /\ \A i \in RuleSlots :
       /\ since[i] <= now /\ stamp[i] <= now
       /\ since[i] # 0 => stamp[i] # 0 /\ stamp[i] <= since[i]

\* The pass has not yet looked at slot i.
Ahead(i) == i > at \/ (i = at /\ ~firing)

\* A slot whose rule was replaced during the pass has no time until the pass
\* comes to it.
StrayInv ==
  /\ at = 0 => touched = {}
  /\ at # 0 => \A i \in RuleSlots \cap touched : Ahead(i) => since[i] = 0

\* The engine remembers every firing, except the one that is under way, by
\* the beginning of its pass.
CooldownInv ==
  /\ last \in [RuleSlots -> Nat] /\ fired \in [RuleSlots -> Nat]
  /\ late \in [RuleSlots -> Nat]
  /\ \A i \in RuleSlots :
       fired[i] # 0 /\ ~ (firing /\ at = i) => fired[i] - late[i] <= last[i]
  /\ firing => fired[at] = 0 \/ fired[at] - late[at] <= now

\* The edits: what they do to the times, and what they leave alone.
Editing ==
  /\ UNCHANGED <<passVars, clock>>
  /\ \/ \E i \in RuleSlots :
          /\ since' = [since EXCEPT ![i] = 0]
          /\ last' = [last EXCEPT ![i] = 0]
          /\ Redefined(i)
     \/ /\ since' = Zero /\ last' = Zero
        /\ \E i \in RuleSlots : Closed(i)

\* Every insertion, replacement and deletion is such an edit.
LEMMA EditsAreEditing ==
  ASSUME IdsInv, NEW id \in RuleIds \cup {0}, NEW src,
         \/ SlotsOf(id) = {} /\ Insert(id, src)
         \/ SlotsOf(id) # {} /\ Replace(id, src)
         \/ Delete(id)
  PROVE  Editing
<1>1. Len(rules) \in Nat /\ Len(rules) <= MaxRules
  BY LenProperties DEF IdsInv
<1>2. ASSUME SlotsOf(id) # {} PROVE First(SlotsOf(id)) \in RuleSlots
  BY <1>1, <1>2, FirstOfId, RulesAssumption DEF IdsInv, RuleSlots
<1>3. CASE SlotsOf(id) = {} /\ Insert(id, src)
  <2>1. Len(rules) + 1 \in RuleSlots
    BY <1>1, <1>3, RulesAssumption DEF Insert, RuleSlots
  <2> QED
    BY <1>3, <2>1 DEF Insert, Edited, Editing
<1>4. CASE SlotsOf(id) # {} /\ Replace(id, src)
  BY <1>2, <1>4 DEF Replace, Edited, Editing
<1>5. CASE Delete(id)
  BY <1>2, <1>5 DEF Delete, Edited, Editing
<1> QED
  BY <1>3, <1>4, <1>5

\* While a rule is looked at its slot is one of the table.
LEMMA SlotLookedAt ==
  ASSUME PassInv, at # 0
  PROVE  at \in RuleSlots /\ Len(copy) \in Nat
BY LenProperties, RulesAssumption DEF PassInv, RuleSlots

\* A pass of automation_task stays within the copy it has taken.
LEMMA PassInvNext ==
  ASSUME IdsInv, PassInv, [AutomationNext]_automationVars
  PROVE  PassInv'
<1>1. CASE UNCHANGED <<passVars, clock>>
  BY <1>1 DEF PassInv, passVars
<1>2. CASE BeginPass
  <2>1. RuleIds \subseteq Nat
    BY DEF RuleIds
  <2>2. RuleOf(RuleIds) \subseteq RuleOf(Nat)
    BY <2>1 DEF RuleOf
  <2>3. rules \in Seq(RuleOf(Nat)) /\ Len(rules) <= MaxRules
    BY <2>2, SeqMonotonic DEF IdsInv
  <2>4. Len(rules) \in Nat \ {0}
    BY <1>2, <2>3, EmptySeq, LenProperties DEF BeginPass
  <2> QED
    BY <1>2, <2>3, <2>4 DEF BeginPass, PassInv
<1>3. CASE Skip \/ NoMatch \/ Match \/ Finish
  <2>1. /\ UNCHANGED <<clock, now, copy>> /\ at # 0
        /\ \/ at' = at
           \/ Advanced
    BY <1>3 DEF Skip, NoMatch, Match, Finish, PassInv
  <2>2. firing' \in BOOLEAN /\ (firing' => at' = at)
    <3>1. CASE Skip \/ NoMatch \/ Finish
      <4>1. firing' = FALSE
        BY <3>1, Zenon DEF Skip, NoMatch, Finish, PassInv
      <4> QED
        BY <4>1
    <3>2. CASE Match /\ Due
      BY <3>2 DEF Match
    <3>3. CASE Match /\ ~Due
      <4>1. firing' = FALSE
        <5>1. firing' = Due
          BY <3>3 DEF Match
        <5> QED
          BY <3>3, <5>1, Zenon DEF Due
      <4> QED
        BY <4>1
    <3> QED
      BY <1>3, <3>1, <3>2, <3>3
  <2>3. at' \in 0..Len(copy)
    BY <2>1, SlotLookedAt DEF Advanced, PassInv
  <2> QED
    BY <2>1, <2>2, <2>3 DEF PassInv
<1>4. CASE Tick
  BY <1>4 DEF Tick, PassInv, passVars
<1>5. CASE Restart
  <2>1. clock' = 1 /\ now' = 0 /\ at' = 0 /\ firing' = FALSE
    BY <1>5 DEF Restart
  <2>2. copy' \in Seq(RuleOf(Nat)) /\ Len(copy') = 0
    BY <1>5 DEF Restart
  <2>3. clock' \in Nat \ {0} /\ now' \in Nat /\ now' <= clock'
    BY <2>1
  <2>6. firing' \in BOOLEAN /\ (firing' => at' # 0)
    BY <2>1
  <2>4. at' \in 0..Len(copy') /\ (at' # 0 => now' # 0)
    BY <2>1, <2>2
  <2>5. copy' \in Seq(RuleOf(Nat)) /\ Len(copy') <= MaxRules
    BY <2>2, RulesAssumption
  <2> QED
    BY <2>3, <2>4, <2>5, <2>6 DEF PassInv
<1>6. ASSUME NEW s \in Sources, Upsert(s) PROVE PassInv'
  BY <1>1, <1>6, IdsSent, EditsAreEditing DEF Upsert, Editing
<1>7. ASSUME NEW id \in RuleIds, Delete(id) PROVE PassInv'
  BY <1>1, <1>7, EditsAreEditing DEF Editing
<1> QED
  BY <1>1, <1>2, <1>3, <1>4, <1>5, <1>6, <1>7
     DEF AutomationNext, PassStep, LevelChanges, automationVars, RuleIds

\* The steps of the engine, for the times: an edit, a step of the pass, a
\* restart, or one that touches none of them.
LEMMA AutomationSteps ==
  ASSUME IdsInv, [AutomationNext]_automationVars
  PROVE  \/ Editing \/ BeginPass \/ Skip \/ NoMatch \/ Match \/ Finish
         \/ Restart
         \/ UNCHANGED <<timeVars, passVars, touched, traceVars>>
<1>1. ASSUME NEW s \in Sources, Upsert(s) PROVE Editing
  BY <1>1, IdsSent, EditsAreEditing DEF Upsert
<1>2. ASSUME NEW id \in RuleIds, Delete(id) PROVE Editing
  BY <1>2, EditsAreEditing
<1> QED
  BY <1>1, <1>2
  DEF AutomationNext, PassStep, LevelChanges, Tick, automationVars, RuleIds

\* Edits clear or move what is said of a slot; a mismatch clears both times.
LEMMA HoldInvNext ==
  ASSUME IdsInv, PassInv, HoldInv, [AutomationNext]_automationVars
  PROVE  HoldInv'
<1>1. CASE Editing
  <2>1. ASSUME NEW k \in RuleSlots, Redefined(k),
               since' = [since EXCEPT ![k] = 0]
        PROVE  /\ since' \in [RuleSlots -> Nat]
               /\ matching' \in [RuleSlots -> Nat]
               /\ stamp' \in [RuleSlots -> Nat]
               /\ \A i \in RuleSlots :
                    /\ since'[i] <= now /\ stamp'[i] <= now
                    /\ since'[i] # 0 => /\ stamp'[i] # 0
                                       /\ stamp'[i] <= since'[i]
    BY <2>1 DEF Redefined, HoldInv, PassInv
  <2>2. ASSUME NEW k \in RuleSlots, Closed(k), since' = Zero
        PROVE  /\ since' \in [RuleSlots -> Nat]
               /\ matching' \in [RuleSlots -> Nat]
               /\ stamp' \in [RuleSlots -> Nat]
               /\ \A i \in RuleSlots : since'[i] = 0 /\ stamp'[i] <= now
    <3>1. \A i \in RuleSlots : i # MaxRules => i + 1 \in RuleSlots
      BY RulesAssumption DEF RuleSlots
    <3>2. /\ matching' \in [RuleSlots -> Nat]
          /\ stamp' \in [RuleSlots -> Nat]
      BY <2>2, <3>1 DEF Closed, Shifted, HoldInv
    <3>3. ASSUME NEW i \in RuleSlots PROVE stamp'[i] <= now
      BY <2>2, <3>1 DEF Closed, Shifted, HoldInv, PassInv
    <3> QED
      BY <2>2, <3>2, <3>3 DEF Zero
  <2>3. now' = now /\ now \in Nat
    BY <1>1 DEF Editing, passVars, PassInv
  <2>4. CASE \E k \in RuleSlots : /\ since' = [since EXCEPT ![k] = 0]
                                 /\ Redefined(k)
    BY <2>1, <2>3, <2>4 DEF HoldInv
  <2>5. CASE since' = Zero /\ \E k \in RuleSlots : Closed(k)
    BY <2>2, <2>3, <2>5 DEF HoldInv
  <2> QED
    BY <1>1, <2>4, <2>5 DEF Editing
<1>2. CASE UNCHANGED <<timeVars, passVars, touched, traceVars>>
  BY <1>2 DEF HoldInv, timeVars, passVars, traceVars
<1>3. CASE BeginPass
  <2>1. since' = since /\ matching' = matching /\ stamp' = stamp
        /\ now' = clock
    BY <1>3 DEF BeginPass, timeVars, traceVars
  <2>2. now \in Nat /\ clock \in Nat /\ now <= clock
    BY DEF PassInv
  <2> QED
    BY <2>1, <2>2 DEF HoldInv
<1>4. CASE Skip
  BY <1>4 DEF Skip, HoldInv, timeVars, traceVars
<1>5. CASE NoMatch
  <2>1. /\ since' = [since EXCEPT ![at] = 0]
        /\ matching' = [matching EXCEPT ![at] = IF Own THEN 0 ELSE @]
        /\ stamp' = [stamp EXCEPT ![at] = 0]
        /\ now' = now
    BY <1>5 DEF NoMatch
  <2>2. now \in Nat /\ at \in RuleSlots
    BY <1>5, SlotLookedAt DEF NoMatch, PassInv
  <2> QED
    BY <2>1, <2>2 DEF HoldInv
<1>6. CASE Match
  <2>1. at \in RuleSlots /\ now \in Nat \ {0} /\ clock \in Nat
    BY <1>6, SlotLookedAt DEF Match, PassInv
  <2>2. /\ since[at] \in Nat /\ since[at] <= now /\ stamp[at] \in Nat
        /\ stamp[at] <= now
        /\ since[at] # 0 => stamp[at] # 0 /\ stamp[at] <= since[at]
    BY <2>1 DEF HoldInv
  <2>3. /\ since' = [since EXCEPT ![at] = Begun(since)]
        /\ stamp' = [stamp EXCEPT ![at] = Begun(stamp)]
        /\ now' = now
    BY <1>6 DEF Match
  <2>4. matching' = [matching EXCEPT
                       ![at] = IF Own /\ @ = 0 THEN clock ELSE @]
    BY <1>6 DEF Match
  <2>5. stamp' \in [RuleSlots -> Nat] /\ since' \in [RuleSlots -> Nat]
    BY <2>1, <2>2, <2>3 DEF Begun, HoldInv
  <2>6. matching' \in [RuleSlots -> Nat]
    BY <2>1, <2>4 DEF HoldInv
  <2>7. ASSUME NEW i \in RuleSlots
        PROVE  /\ since'[i] <= now /\ stamp'[i] <= now
               /\ since'[i] # 0 => stamp'[i] # 0 /\ stamp'[i] <= since'[i]
    <3>1. CASE i = at
      <4>1. since'[i] = Begun(since) /\ stamp'[i] = Begun(stamp)
        BY <2>3, <3>1 DEF HoldInv
      <4> QED
        BY <2>1, <2>2, <4>1 DEF Begun
    <3>2. CASE i # at
      BY <2>3, <3>2 DEF HoldInv
    <3> QED
      BY <3>1, <3>2
  <2> QED
    BY <2>3, <2>5, <2>6, <2>7 DEF HoldInv
<1>7. CASE Finish
  BY <1>7 DEF Finish, HoldInv, traceVars
<1>8. CASE Restart
  BY <1>8 DEF Restart, HoldInv, Zero
<1> QED
  BY <1>1, <1>2, <1>3, <1>4, <1>5, <1>6, <1>7, <1>8, AutomationSteps

\* A slot that gets another rule during a pass has no time, until the pass
\* has looked at it once.
LEMMA StrayInvNext ==
  ASSUME IdsInv, PassInv, HoldInv, StrayInv, [AutomationNext]_automationVars
  PROVE  StrayInv'
<1>1. CASE Editing
  <2>1. UNCHANGED <<at, firing>>
    BY <1>1 DEF Editing, passVars
  <2>2. CASE \E k \in RuleSlots : /\ since' = [since EXCEPT ![k] = 0]
                                 /\ Redefined(k)
    <3>1. PICK k \in RuleSlots : /\ since' = [since EXCEPT ![k] = 0]
                                /\ Touched({k})
      BY <2>2 DEF Redefined
    <3>2. since'[k] = 0 /\ \A i \in RuleSlots : i # k => since'[i] = since[i]
      BY <3>1 DEF HoldInv
    <3> QED
      BY <2>1, <3>1, <3>2 DEF StrayInv, Ahead, Touched
  <2>3. CASE since' = Zero /\ \E k \in RuleSlots : Closed(k)
    <3>1. \A i \in RuleSlots : since'[i] = 0
      BY <2>3 DEF Zero
    <3> QED
      BY <2>1, <2>3, <3>1 DEF StrayInv, Closed, Touched
  <2> QED
    BY <1>1, <2>2, <2>3 DEF Editing
<1>2. CASE UNCHANGED <<timeVars, passVars, touched, traceVars>>
  BY <1>2 DEF StrayInv, Ahead, timeVars, passVars
<1>3. CASE BeginPass
  BY <1>3 DEF BeginPass, StrayInv
<1>4. CASE Skip \/ NoMatch \/ Finish
  <2>1. Advanced /\ at \in RuleSlots /\ Len(copy) \in Nat
    BY <1>4, SlotLookedAt DEF Skip, NoMatch, Finish, PassInv
  <2>2. \A i \in RuleSlots : since'[i] \in {since[i], 0}
    BY <1>4, <2>1 DEF Skip, NoMatch, Finish, timeVars, HoldInv
  <2> QED
    BY <2>1, <2>2 DEF StrayInv, Ahead, Advanced, RuleSlots
<1>5. CASE Match
  <2>1. /\ at \in RuleSlots /\ Len(copy) \in Nat
        /\ since' = [since EXCEPT ![at] = Begun(since)]
    BY <1>5, SlotLookedAt DEF Match
  <2>2. \A i \in RuleSlots : i # at => since'[i] = since[i]
    BY <2>1 DEF HoldInv
  <2>3. CASE Due
    <3>1. firing' /\ at' = at /\ touched' = touched /\ at # 0
      BY <1>5, <2>3 DEF Match
    <3> QED
      BY <2>1, <2>2, <3>1 DEF StrayInv, Ahead, RuleSlots
  <2>4. CASE ~Due
    <3>1. Advanced
      BY <1>5, <2>4 DEF Match
    <3> QED
      BY <2>1, <2>2, <3>1 DEF StrayInv, Ahead, Advanced, RuleSlots
  <2> QED
    BY <2>3, <2>4
<1>6. CASE Restart
  BY <1>6 DEF Restart, StrayInv
<1> QED
  BY <1>1, <1>2, <1>3, <1>4, <1>5, <1>6, AutomationSteps

\* Only a match makes a rule fire.
LEMMA FiringIsMatch ==
  ASSUME IdsInv, PassInv, [AutomationNext]_automationVars,
         ~firing, firing'
  PROVE  Match /\ Due /\ at \in RuleSlots
<1>1. ~ (Editing \/ BeginPass \/ Skip \/ NoMatch \/ Finish \/ Restart)
  BY DEF Editing, BeginPass, Skip, NoMatch, Finish, Restart, passVars
<1>2. ~ UNCHANGED <<timeVars, passVars, touched, traceVars>>
  BY DEF passVars
<1>3. Match
  BY <1>1, <1>2, AutomationSteps
<1>4. Due
  BY <1>3 DEF Match
<1>5. at \in RuleSlots
  BY <1>3, SlotLookedAt DEF Match
<1> QED
  BY <1>3, <1>4, <1>5

\* When a rule fires its slot has matched since a pass that began hold_ms
\* ago; a slot that got another rule has no time yet.
LEMMA HoldStep ==
  ASSUME IdsInv, PassInv, HoldInv, StrayInv, [AutomationNext]_automationVars,
         ~firing, firing'
  PROVE  IF at \in touched THEN Hold = 0
         ELSE /\ matching'[at] # 0
              /\ clock - matching'[at] >= Hold - (matching'[at] - stamp'[at])
<1>1. /\ Match /\ Due /\ at \in RuleSlots /\ at # 0
      /\ now \in Nat /\ clock \in Nat \ {0} /\ now <= clock
  BY FiringIsMatch DEF Match, PassInv
<1>2. now - Begun(since) >= Hold /\ Hold \in Nat
  BY <1>1, DelaysAssumption DEF Due
<1>3. CASE at \in touched
  <2>1. since[at] = 0
    BY <1>1, <1>3 DEF StrayInv, Ahead
  <2>2. Hold = 0
    BY <1>1, <1>2, <2>1 DEF Begun
  <2> QED
    BY <1>3, <2>2
<1>4. CASE at \notin touched
  <2>1. matching'[at] = IF matching[at] = 0 THEN clock ELSE matching[at]
    BY <1>1, <1>4 DEF Match, Own, HoldInv
  <2>2. matching'[at] \in Nat /\ matching'[at] # 0
    BY <1>1, <2>1 DEF HoldInv
  <2>3. stamp'[at] = Begun(stamp)
    BY <1>1 DEF Match, HoldInv
  <2>4. /\ since[at] \in Nat /\ stamp[at] \in Nat /\ stamp[at] <= now
        /\ since[at] # 0 => stamp[at] # 0 /\ stamp[at] <= since[at]
    BY <1>1 DEF HoldInv
  <2>5. stamp'[at] \in Nat /\ stamp'[at] <= Begun(since)
    BY <1>1, <2>3, <2>4 DEF Begun
  <2>6. Begun(since) \in Nat
    BY <1>1, <2>4 DEF Begun
  <2>7. clock - stamp'[at] >= Hold
    BY <1>1, <1>2, <2>5, <2>6
  <2> QED
    BY <1>1, <1>2, <1>4, <2>2, <2>5, <2>7
<1> QED
  BY <1>3, <1>4

\* The time of a firing is stored when execute_rule() has answered; until
\* then the pass is at that rule.
LEMMA CooldownInvNext ==
  ASSUME IdsInv, PassInv, CooldownInv, [AutomationNext]_automationVars
  PROVE  CooldownInv'
<1>1. CASE Editing
  <2> DEFINE Times == [RuleSlots -> Nat]
  <2>1. last' \in Times /\ fired' \in Times /\ late' \in Times
    <3>1. Zero \in Times
      BY DEF Zero
    <3>2. \A f \in Times, k \in RuleSlots : [f EXCEPT ![k] = 0] \in Times
      OBVIOUS
    <3>3. last \in Times /\ fired \in Times /\ late \in Times
      BY DEF CooldownInv
    <3> HIDE DEF Times
    <3> QED
      BY <1>1, <3>1, <3>2, <3>3 DEF Editing, Redefined, Closed
  <2>2. ASSUME NEW i \in RuleSlots
        PROVE  \/ fired'[i] = 0
               \/ /\ fired'[i] = fired[i] /\ last'[i] = last[i]
                  /\ late'[i] = late[i]
    BY <1>1 DEF Editing, Redefined, Closed, Zero, CooldownInv
  <2>3. firing => at \in RuleSlots
    BY SlotLookedAt DEF PassInv
  <2>4. UNCHANGED <<firing, at, now>>
    BY <1>1 DEF Editing, passVars
  <2> QED
    BY <2>1, <2>2, <2>3, <2>4 DEF CooldownInv
<1>2. CASE UNCHANGED <<timeVars, passVars, touched, traceVars>>
  BY <1>2 DEF CooldownInv, timeVars, passVars, traceVars
<1>3. CASE BeginPass
  BY <1>3 DEF BeginPass, CooldownInv, PassInv, timeVars, traceVars
<1>4. CASE Skip
  BY <1>4 DEF Skip, CooldownInv, timeVars, traceVars
<1>5. CASE NoMatch
  BY <1>5 DEF NoMatch, CooldownInv
<1>6. CASE Match
  <2>1. /\ at \in RuleSlots /\ now \in Nat /\ clock \in Nat /\ now <= clock
        /\ ~firing /\ last' = last /\ now' = now
    BY <1>6, SlotLookedAt DEF Match, PassInv
  <2>2. CASE Due
    <3>1. /\ fired' = [fired EXCEPT ![at] = clock]
          /\ late' = [late EXCEPT ![at] = clock - now]
          /\ firing' /\ at' = at
      BY <1>6, <2>2 DEF Match
    <3>2. clock - now \in Nat /\ clock - (clock - now) <= now
      BY <2>1
    <3>3. fired'[at] - late'[at] <= now
      BY <2>1, <3>1, <3>2 DEF CooldownInv
    <3>4. fired' \in [RuleSlots -> Nat] /\ late' \in [RuleSlots -> Nat]
      BY <2>1, <3>1, <3>2 DEF CooldownInv
    <3>5. \A i \in RuleSlots :
            i # at => fired'[i] = fired[i] /\ late'[i] = late[i]
      BY <3>1 DEF CooldownInv
    <3> QED
      BY <2>1, <3>1, <3>3, <3>4, <3>5 DEF CooldownInv
  <2>3. CASE ~Due
    BY <1>6, <2>1, <2>3 DEF Match, CooldownInv
  <2> QED
    BY <2>2, <2>3
<1>7. CASE Finish
  <2>1. at \in RuleSlots /\ now \in Nat
    BY <1>7, SlotLookedAt DEF Finish, PassInv
  <2> QED
    BY <1>7, <2>1 DEF Finish, CooldownInv, traceVars
<1>8. CASE Restart
  BY <1>8 DEF Restart, CooldownInv, Zero
<1> QED
  BY <1>1, <1>2, <1>3, <1>4, <1>5, <1>6, <1>7, <1>8, AutomationSteps

\* When a rule fires again cooldown_ms have gone by since the pass of the
\* last firing began.
LEMMA CooldownStep ==
  ASSUME IdsInv, PassInv, CooldownInv, [AutomationNext]_automationVars,
         ~firing, firing', fired[at] # 0
  PROVE  clock - fired[at] >= Cooldown - late[at]
<1>1. /\ Due /\ at \in RuleSlots
      /\ now \in Nat /\ clock \in Nat /\ now <= clock
  BY FiringIsMatch DEF PassInv
<1>2. /\ fired[at] \in Nat /\ late[at] \in Nat /\ last[at] \in Nat
      /\ fired[at] - late[at] <= last[at]
  BY <1>1 DEF CooldownInv
<1>3. now - last[at] >= Cooldown
  BY <1>1 DEF Due
<1> QED
  BY <1>1, <1>2, <1>3, DelaysAssumption

\* No rule has been evaluated, none has fired.
LEMMA TimesInvInit ==
  AutomationInit => PassInv /\ HoldInv /\ StrayInv /\ CooldownInv
<1> SUFFICES ASSUME AutomationInit
             PROVE  PassInv /\ HoldInv /\ StrayInv /\ CooldownInv
  OBVIOUS
<1>1. copy \in Seq(RuleOf(Nat)) /\ Len(copy) = 0
  BY DEF AutomationInit
<1>2. PassInv
  <2>1. clock = 1 /\ now = 0 /\ at = 0 /\ firing = FALSE
    BY DEF AutomationInit
  <2>2. clock \in Nat \ {0} /\ now \in Nat /\ now <= clock
    BY <2>1
  <2>3. copy \in Seq(RuleOf(Nat)) /\ Len(copy) <= MaxRules
    BY <1>1, RulesAssumption
  <2>4. at \in 0..Len(copy) /\ (at # 0 => now # 0)
    BY <1>1, <2>1
  <2>5. firing \in BOOLEAN /\ (firing => at # 0)
    BY <2>1
  <2> QED
    BY <2>2, <2>3, <2>4, <2>5 DEF PassInv
<1>3. HoldInv /\ StrayInv
  BY DEF AutomationInit, HoldInv, StrayInv, Zero
<1>4. CooldownInv
  BY DEF AutomationInit, CooldownInv, Zero
<1> QED
  BY <1>2, <1>3, <1>4

AutomationInv == IdsInv /\ PassInv /\ HoldInv /\ StrayInv /\ CooldownInv

\* The inductive invariant of the automation engine: the table and its copy
\* in NVS, the pass under way, the hold times and the cooldowns.
THEOREM AutomationInvariant == AutomationSpec => []AutomationInv
<1>1. AutomationInit => AutomationInv
  BY IdsInvInit, TimesInvInit DEF AutomationInv
<1>2. AutomationInv /\ [AutomationNext]_automationVars => AutomationInv'
  BY IdsInvNext, PassInvNext, HoldInvNext, StrayInvNext, CooldownInvNext
  DEF AutomationInv
<1> QED
  BY <1>1, <1>2, PTL DEF AutomationSpec

\* A rule fires only when it matched in every evaluation of the last hold_ms
\* by the clock (s_condition_since[] of automation_task), also when it moved
\* to another slot, less the time by which the pass that first saw it match
\* had begun before; and one replaced during the pass only without a hold
\* time.  For every hold time and however long execute_rule() takes.
THEOREM HoldTimesRespected == AutomationSpec => HoldRespected
<1>1. AutomationInv /\ [AutomationNext]_automationVars
      => [~firing /\ firing' =>
            IF at \in touched THEN Hold = 0
            ELSE /\ matching'[at] # 0
                 /\ clock - matching'[at] >=
                      Hold - (matching'[at] - stamp'[at])]_firing
  BY HoldStep DEF AutomationInv
<1> QED
  BY <1>1, AutomationInvariant, PTL DEF AutomationSpec, HoldRespected

\* Two firings from one slot with no edit between them are cooldown_ms apart
\* by the clock (s_last_trigger[] of automation_task), less the time by which
\* the pass of the first had begun before it; for every cooldown, however
\* long execute_rule() takes and whatever it answers.
THEOREM CooldownsRespected == AutomationSpec => CooldownRespected
<1>1. AutomationInv /\ [AutomationNext]_automationVars
      => [~firing /\ firing' /\ fired[at] # 0
            => clock - fired[at] >= Cooldown - late[at]]_firing
  BY CooldownStep DEF AutomationInv
<1> QED
  BY <1>1, AutomationInvariant, PTL DEF AutomationSpec, CooldownRespected
-----------------------------------------------------------------------------
(***************************************************************************)
(* FlushedMeanwhileKept.  What an export owes is above the watermark that  *)
(* it read first, and the tail that it sends last is what the ring still   *)
(* has above that watermark; the writer changes neither.                   *)
(***************************************************************************)

LogEntries == [n : Nat, up : Nat]

\* No entry is newer than the newest; what an export owes is above its
\* watermark, and an export that is complete owes nothing.
KeptInv ==
  /\ logged \in LogEntries
  /\ ring \in Seq(LogEntries) /\ pending \in Seq(LogEntries)
  /\ writing \in Seq(LogEntries) /\ entry \in [Loggers -> LogEntries]
  /\ \A e \in Buffered \cup owed : e \in LogEntries /\ e.n <= logged.n
  /\ export = [at |-> export.at, mark |-> export.mark,
               names |-> export.names, sent |-> export.sent]
  /\ \A e \in owed : e.up > export.mark
  /\ FlushedMeanwhileKept

\* The entries of a sequence, and of one with another at its end.
LEMMA LinesOf ==
  ASSUME NEW s \in Seq(LogEntries), NEW e \in LogEntries
  PROVE  /\ Lines(s) \subseteq LogEntries
         /\ Append(s, e) \in Seq(LogEntries)
         /\ Lines(Append(s, e)) = Lines(s) \cup {e}
         /\ Tail(Append(s, e)) \in Seq(LogEntries)
         /\ Lines(Tail(Append(s, e))) \subseteq Lines(s) \cup {e}
<1> DEFINE a == Append(s, e)
<1>1. /\ Len(s) \in Nat /\ DOMAIN s = 1..Len(s)
      /\ \A i \in 1..Len(s) : s[i] \in LogEntries
  OBVIOUS
<1>2. /\ a \in Seq(LogEntries) /\ Len(a) = Len(s) + 1
      /\ \A i \in 1..Len(s) : a[i] = s[i]
      /\ a[Len(s) + 1] = e
  BY AppendProperties
<1> HIDE DEF a
<1>3. DOMAIN a = 1..(Len(s) + 1)
  BY <1>2
<1>4. Lines(a) = Lines(s) \cup {e}
  BY <1>1, <1>2, <1>3 DEF Lines
<1>5. a # <<>>
  BY <1>2
<1>6. /\ Tail(a) \in Seq(LogEntries) /\ Len(Tail(a)) = Len(a) - 1
      /\ \A i \in 1..Len(Tail(a)) : Tail(a)[i] = a[i + 1]
  BY <1>2, <1>5, HeadTailProperties
<1>7. DOMAIN Tail(a) = 1..Len(s)
  BY <1>1, <1>2, <1>6
<1>8. \A i \in 1..Len(s) : i + 1 \in 1..(Len(s) + 1)
  BY <1>1
<1>9. Lines(Tail(a)) \subseteq Lines(a)
  BY <1>2, <1>3, <1>6, <1>7, <1>8 DEF Lines
<1> QED
  BY <1>1, <1>2, <1>4, <1>6, <1>9 DEF Lines, a

\* Nothing is logged and no export is under way.
LEMMA KeptInvInit == LogInit => KeptInv
<1> SUFFICES ASSUME LogInit PROVE KeptInv
  OBVIOUS
<1>1. NoEntry \in LogEntries
  BY DEF NoEntry, LogEntries
<1>2. /\ ring \in Seq(LogEntries) /\ pending \in Seq(LogEntries)
      /\ writing \in Seq(LogEntries)
      /\ Lines(pending) = {} /\ Lines(writing) = {}
  BY DEF LogInit, Lines
<1>3. /\ logged = NoEntry /\ entry = [t \in Loggers |-> NoEntry]
      /\ owed = {} /\ export = AtRest
  BY DEF LogInit
<1> QED
  BY <1>1, <1>2, <1>3 DEF KeptInv, Buffered, AtRest, FlushedMeanwhileKept, Done

\* A new entry enters a buffer and the ring, which may drop its oldest.
LEMMA AddKeeps ==
  ASSUME KeptInv, NEW t \in Loggers, AddEntry(t)
  PROVE  KeptInv'
<1>1. logged' \in LogEntries /\ logged'.n = logged.n + 1
  BY DEF AddEntry, KeptInv, LogEntries
<1>2. /\ ring' \in Seq(LogEntries)
      /\ Lines(ring') \subseteq Lines(ring) \cup {logged'}
  BY <1>1, LinesOf DEF AddEntry, KeptInv
<1>3. entry' \in [Loggers -> LogEntries]
  BY <1>1 DEF AddEntry, KeptInv
<1>4. Buffered' \subseteq Buffered \cup {logged'}
  BY DEF AddEntry, Buffered, stream, KeptInv
<1>5. \A e \in LogEntries : e.n <= logged.n => e.n <= logged'.n
  BY <1>1 DEF KeptInv, LogEntries
<1>6. \A e \in Buffered' \cup owed' : e \in LogEntries /\ e.n <= logged'.n
  BY <1>1, <1>4, <1>5 DEF AddEntry, KeptInv, LogEntries, exporting
<1>7. logged' \notin owed
  BY <1>1 DEF KeptInv, LogEntries
<1>8. FlushedMeanwhileKept'
  BY <1>2, <1>7 DEF AddEntry, KeptInv, FlushedMeanwhileKept, Done, exporting
<1> QED
  BY <1>1, <1>2, <1>3, <1>6, <1>8 DEF KeptInv, AddEntry, stream, exporting

\* The buffers hand an entry on.
LEMMA AppendKeeps ==
  ASSUME KeptInv, NEW t \in Loggers, AppendEntry(t)
  PROVE  KeptInv'
<1>1. /\ entry[t] \in LogEntries /\ entry[t] \in Buffered
      /\ UNCHANGED <<ring, logged, writing, export, owed>>
  BY DEF AppendEntry, KeptInv, Buffered, exporting
<1>2. /\ pending' \in Seq(LogEntries)
      /\ Lines(pending') \subseteq Lines(pending) \cup {entry[t]}
  BY <1>1, LinesOf DEF AppendEntry, KeptInv
<1>3. entry' \in [Loggers -> LogEntries]
  BY DEF AppendEntry, KeptInv, NoEntry, LogEntries
<1>4. Buffered' \subseteq Buffered
  BY <1>1, <1>2 DEF AppendEntry, Buffered, KeptInv
<1> QED
  BY <1>1, <1>2, <1>3, <1>4 DEF KeptInv, FlushedMeanwhileKept, Done

\* The writer drops entries from the buffers and adds none.
LEMMA WriterKeeps ==
  ASSUME KeptInv, SwapBuffers \/ MakeRoom \/ WriteOut \/ CardWriteFails
  PROVE  KeptInv'
<1>1. /\ UNCHANGED <<ring, logged, entry, export, owed>>
      /\ \/ UNCHANGED <<pending, writing>>
         \/ pending' = <<>> /\ writing' = pending
         \/ UNCHANGED pending /\ writing' = <<>>
  BY DEF SwapBuffers, MakeRoom, WriteOut, CardWriteFails, exporting
<1>2. Lines(<<>>) = {} /\ <<>> \in Seq(LogEntries)
  BY DEF Lines
<1>3. pending' \in Seq(LogEntries) /\ writing' \in Seq(LogEntries)
  BY <1>1, <1>2 DEF KeptInv
<1>4. Buffered' \subseteq Buffered
  BY <1>1, <1>2 DEF Buffered
<1> QED
  BY <1>1, <1>3, <1>4 DEF KeptInv, FlushedMeanwhileKept, Done

\* The steps of the export: it reads the watermark, the names, the files.
LEMMA ExportKeeps ==
  ASSUME KeptInv,
         ExportBegins \/ ListFiles \/ ReadFile \/ ReadActive \/ SendTail
           \/ LeaveTailOut \/ ExportEnds
  PROVE  KeptInv'
<1>1. UNCHANGED <<ring, logged, entry, pending, writing>>
  BY DEF ExportBegins, ListFiles, ReadFile, ReadActive, SendTail,
         LeaveTailOut, ExportEnds, Exporting, stream
<1>2. Buffered' = Buffered
  BY <1>1 DEF Buffered
<1>3. CASE ExportBegins
  <2>1. /\ export' = [at |-> "list", mark |-> flushed, names |-> <<>>,
                      sent |-> {}]
        /\ owed' = {e \in Buffered : e.up > flushed}
    BY <1>3 DEF ExportBegins, AtRest
  <2> QED
    BY <1>1, <1>2, <2>1 DEF KeptInv, FlushedMeanwhileKept, Done
<1>4. CASE ListFiles \/ ReadFile \/ ReadActive \/ LeaveTailOut
  <2>1. /\ owed' = owed /\ export'.mark = export.mark
        /\ export'.at \in {"read", "tail", "cut"}
        /\ export' = [at |-> export'.at, mark |-> export'.mark,
                      names |-> export'.names, sent |-> export'.sent]
    BY <1>4 DEF ListFiles, ReadFile, ReadActive, LeaveTailOut, Exporting,
                KeptInv
  <2> QED
    BY <1>1, <1>2, <2>1 DEF KeptInv, FlushedMeanwhileKept, Done
<1>5. CASE SendTail
  <2>1. /\ owed' = owed /\ export'.mark = export.mark
        /\ export' = [at |-> export'.at, mark |-> export'.mark,
                      names |-> export'.names, sent |-> export'.sent]
        /\ export'.sent = export.sent
                            \cup {e \in Lines(ring) : e.up > export.mark}
    BY <1>5 DEF SendTail, Exporting, KeptInv
  <2>2. owed' \cap Lines(ring') \subseteq export'.sent
    BY <1>1, <2>1 DEF KeptInv
  <2> QED
    BY <1>1, <1>2, <2>1, <2>2 DEF KeptInv, FlushedMeanwhileKept
<1>6. CASE ExportEnds
  <2>1. owed' = {} /\ export' = [at |-> "rest", mark |-> 0, names |-> <<>>,
                                 sent |-> {}]
    BY <1>6 DEF ExportEnds, AtRest
  <2> QED
    BY <1>1, <1>2, <2>1 DEF KeptInv, FlushedMeanwhileKept
<1> QED
  BY <1>3, <1>4, <1>5, <1>6

\* One lemma per group of steps gives them all.
LEMMA KeptInvNext == ASSUME KeptInv, [LogNext]_logVars PROVE KeptInv'
<1>1. CASE UNCHANGED logVars
  BY <1>1 DEF logVars, KeptInv, Buffered, FlushedMeanwhileKept, Done
<1> QED
  BY <1>1, AddKeeps, AppendKeeps, WriterKeeps, ExportKeeps DEF LogNext

\* What the writer flushes while an export runs is in the export: an entry
\* above the watermark that was in a buffer when it began and that the ring
\* still has is sent with the ring's tail (the log export of web_server.c
\* reads the watermark before the files), for every size of the ring and of
\* the buffers and any number of loggers.
THEOREM ExportKeepsWhatIsFlushed == LogSpec => []FlushedMeanwhileKept
<1>1. KeptInv => FlushedMeanwhileKept
  BY DEF KeptInv
<1>2. KeptInv /\ [LogNext]_logVars => KeptInv'
  BY KeptInvNext
<1> QED
  BY <1>1, <1>2, KeptInvInit, PTL DEF LogSpec
-----------------------------------------------------------------------------
(***************************************************************************)
(* StoredIsRunning, PointMappedOnce, UserSemanticsKept.  The invariant     *)
(* says where the writes under way lead: after them, the count, the schema *)
(* and the counted blobs in NVS are those of the table that is then in     *)
(* RAM (Leads).  An operation establishes it when it begins, from what its *)
(* list of writes sets last (Sets), and each write keeps it.               *)
(*                                                                         *)
(* The staging table is defined by recursion on the batch; ArraysProofs    *)
(* has the existence of such a function and the induction on its argument. *)
(***************************************************************************)

\* LowestOf() of the model is that least number.
LEMMA LowestIsLeast ==
  ASSUME NEW S, S \subseteq Nat, S # {}
  PROVE  LowestOf(S) \in S /\ \A j \in S : LowestOf(S) <= j
BY LeastExists DEF LowestOf

-----------------------------------------------------------------------------
(* The writes of an operation. *)
SlotTables == {t \in Seq(SlotType) : Len(t) <= Capacity}
WriteKeys == NvsKeys \cup {Ram, All}
Counts    == {<<>>} \cup {<<n>> : n \in 0..Capacity}
Schemas   == {<<>>, <<"old">>, <<"new">>}
SlotBlobs == {<<>>} \cup {<<e, s>> : e \in SlotType, s \in {"old", "new"}}
ValuesOf(k) == IF k \in {Ram, RbKey} THEN SlotTables
               ELSE IF k \in {CountKey, RbCountKey} THEN Counts
               ELSE IF k = SchemaKey THEN Schemas
               ELSE IF k = All THEN {<<>>} ELSE SlotBlobs
Writes == UNION {[key : {k}, val : ValuesOf(k)] : k \in WriteKeys}

NvsOK(n) == /\ n = [k \in NvsKeys |-> n[k]]
            /\ \A k \in NvsKeys : n[k] \in ValuesOf(k)

\* A write to a key, or to all of them.
Hits(w, k)   == w.key = k \/ (w.key = All /\ k # Ram)
Spares(s, k) == \A i \in 1..Len(s) : ~Hits(s[i], k)
Sets(k, v, s) ==
  \E i \in 1..Len(s) : /\ Hits(s[i], k) /\ s[i].val = v
                       /\ \A j \in (i + 1)..Len(s) : ~Hits(s[j], k)
\* After the writes s a key that is cur has the value v.
Ends(k, v, cur, s) == Sets(k, v, s) \/ (v = cur /\ Spares(s, k))

\* After s the table t is in RAM m and, for amm_load_from_nvs(), in NVS n.
Stores(t, n, s) ==
  /\ Ends(CountKey, <<Len(t)>>, n[CountKey], s)
  /\ Ends(SchemaKey, <<"new">>, n[SchemaKey], s)
  /\ \A i \in 1..Len(t) : Ends(EntryKey(i), Blob(t[i]), n[EntryKey(i)], s)
Leads(t, m, n, s) == Ends(Ram, t, m, s) /\ Stores(t, n, s)

OneSlot(t) == \A i, j \in Live(t) : t[i].key = t[j].key => i = j
Clean(s) == \A i \in 1..Len(s) :
              s[i].key \in {Ram, RbKey} => OneSlot(s[i].val)

\* The NVS keys of amm_mapping.c differ from each other.
LEMMA KeysDiffer ==
  /\ NvsKeys \subseteq WriteKeys
  /\ {CountKey, SchemaKey, RbCountKey, RbKey} \subseteq NvsKeys
  /\ \A i \in 1..Capacity : EntryKey(i) \in NvsKeys
  /\ Ram \notin NvsKeys /\ All \notin NvsKeys /\ Ram # All
  /\ \A i : EntryKey(i)
               \notin {CountKey, SchemaKey, RbCountKey, RbKey, Ram, All}
  /\ \A i, j : EntryKey(i) = EntryKey(j) => i = j
  /\ CountKey # SchemaKey /\ CountKey # RbCountKey /\ CountKey # RbKey
  /\ SchemaKey # RbCountKey /\ SchemaKey # RbKey /\ RbCountKey # RbKey
BY DEF NvsKeys, WriteKeys, CountKey, SchemaKey, EntryKey, RbCountKey, RbKey,
       Ram, All

\* A write has a key and a value of that key.
LEMMA WriteIs ==
  ASSUME NEW w \in Writes
  PROVE  w.key \in WriteKeys /\ w.val \in ValuesOf(w.key)
BY DEF Writes

\* A single write is a list of one.
LEMMA PutIs ==
  ASSUME NEW k \in WriteKeys, NEW v \in ValuesOf(k)
  PROVE  /\ Put(k, v) \in Seq(Writes) /\ Len(Put(k, v)) = 1
         /\ Put(k, v)[1] = [key |-> k, val |-> v]
<1>1. [key |-> k, val |-> v] \in Writes
  BY DEF Writes
<1> QED
  BY <1>1 DEF Put

\* A single write sets its key and spares the others.
LEMMA PutSets ==
  ASSUME NEW k \in WriteKeys, NEW v \in ValuesOf(k)
  PROVE  /\ \A l : Hits([key |-> k, val |-> v], l) => Sets(l, v, Put(k, v))
         /\ \A l : ~Hits([key |-> k, val |-> v], l) => Spares(Put(k, v), l)
         /\ (k \in {Ram, RbKey} => OneSlot(v)) => Clean(Put(k, v))
BY PutIs DEF Sets, Spares, Clean

\* What two lists of writes, one after the other, set and spare.
LEMMA Both ==
  ASSUME NEW a \in Seq(Writes), NEW b \in Seq(Writes)
  PROVE  /\ a \o b \in Seq(Writes) /\ Len(a \o b) = Len(a) + Len(b)
         /\ \A k : Spares(a, k) /\ Spares(b, k) => Spares(a \o b, k)
         /\ \A k, v : Sets(k, v, b) => Sets(k, v, a \o b)
         /\ \A k, v : Sets(k, v, a) /\ Spares(b, k) => Sets(k, v, a \o b)
         /\ Clean(a) /\ Clean(b) => Clean(a \o b)
<1> DEFINE c == a \o b
<1>1. /\ Len(a) \in Nat /\ Len(b) \in Nat
      /\ c \in Seq(Writes) /\ Len(c) = Len(a) + Len(b)
      /\ \A i \in 1..Len(a) : c[i] = a[i]
      /\ \A i \in 1..Len(b) : c[Len(a) + i] = b[i]
  BY ConcatProperties
<1> HIDE DEF c
<1>2. ASSUME NEW i \in 1..Len(c)
      PROVE  \/ i \in 1..Len(a) /\ c[i] = a[i]
             \/ i - Len(a) \in 1..Len(b) /\ c[i] = b[i - Len(a)]
  <2>1. CASE i \in 1..Len(a)
    BY <1>1, <2>1
  <2>2. CASE i \notin 1..Len(a)
    <3>1. i - Len(a) \in 1..Len(b) /\ Len(a) + (i - Len(a)) = i
      BY <1>1, <2>2
    <3> QED
      BY <1>1, <3>1
  <2> QED
    BY <2>1, <2>2
<1>3. ASSUME NEW k, Spares(a, k), Spares(b, k) PROVE Spares(c, k)
  BY <1>2, <1>3 DEF Spares
<1>4. ASSUME NEW k, NEW v, Sets(k, v, b) PROVE Sets(k, v, c)
  <2>1. PICK i \in 1..Len(b) :
          /\ Hits(b[i], k) /\ b[i].val = v
          /\ \A j \in (i + 1)..Len(b) : ~Hits(b[j], k)
    BY <1>4 DEF Sets
  <2>2. Len(a) + i \in 1..Len(c) /\ c[Len(a) + i] = b[i]
    BY <1>1
  <2>3. ASSUME NEW j \in (Len(a) + i + 1)..Len(c) PROVE ~Hits(c[j], k)
    <3>1. j \in 1..Len(c) /\ j \notin 1..Len(a)
          /\ j - Len(a) \in (i + 1)..Len(b)
      BY <1>1
    <3> QED
      BY <1>2, <2>1, <3>1
  <2> QED
    BY <2>1, <2>2, <2>3 DEF Sets
<1>5. ASSUME NEW k, NEW v, Sets(k, v, a), Spares(b, k) PROVE Sets(k, v, c)
  <2>1. PICK i \in 1..Len(a) :
          /\ Hits(a[i], k) /\ a[i].val = v
          /\ \A j \in (i + 1)..Len(a) : ~Hits(a[j], k)
    BY <1>5 DEF Sets
  <2>2. i \in 1..Len(c) /\ c[i] = a[i]
    BY <1>1
  <2>3. ASSUME NEW j \in (i + 1)..Len(c) PROVE ~Hits(c[j], k)
    <3>1. j \in 1..Len(c)
      BY <1>1
    <3>2. CASE j \in 1..Len(a) /\ c[j] = a[j]
      BY <2>1, <3>2
    <3>3. CASE j - Len(a) \in 1..Len(b) /\ c[j] = b[j - Len(a)]
      BY <1>5, <3>3 DEF Spares
    <3> QED
      BY <1>2, <3>1, <3>2, <3>3
  <2> QED
    BY <2>1, <2>2, <2>3 DEF Sets
<1>6. ASSUME Clean(a), Clean(b) PROVE Clean(c)
  BY <1>2, <1>6 DEF Clean
<1> QED
  BY <1>1, <1>3, <1>4, <1>5, <1>6 DEF c

\* One write less.
LEMMA EndsStep ==
  ASSUME NEW s \in Seq(Writes), s # <<>>, NEW k, NEW v, NEW cur,
         Ends(k, v, cur, s)
  PROVE  Ends(k, v, IF Hits(Head(s), k) THEN Head(s).val ELSE cur, Tail(s))
<1>1. /\ Len(s) \in Nat \ {0} /\ Len(Tail(s)) = Len(s) - 1
      /\ Head(s) = s[1]
      /\ \A i \in 1..Len(Tail(s)) : Tail(s)[i] = s[i + 1]
  BY HeadTailProperties
<1>2. CASE Sets(k, v, s)
  <2>1. PICK i \in 1..Len(s) :
          /\ Hits(s[i], k) /\ s[i].val = v
          /\ \A j \in (i + 1)..Len(s) : ~Hits(s[j], k)
    BY <1>2 DEF Sets
  <2>2. CASE i = 1
    <3>1. Spares(Tail(s), k)
      BY <1>1, <2>1, <2>2 DEF Spares
    <3> QED
      BY <1>1, <2>1, <2>2, <3>1 DEF Ends
  <2>3. CASE i # 1
    <3>1. /\ i - 1 \in 1..Len(Tail(s)) /\ Tail(s)[i - 1] = s[i]
          /\ \A j \in (i - 1 + 1)..Len(Tail(s)) :
               Tail(s)[j] = s[j + 1] /\ j + 1 \in (i + 1)..Len(s)
      BY <1>1, <2>3
    <3>2. Sets(k, v, Tail(s))
      BY <2>1, <3>1 DEF Sets
    <3> QED
      BY <3>2 DEF Ends
  <2> QED
    BY <2>2, <2>3
<1>3. CASE v = cur /\ Spares(s, k)
  <2>1. ~Hits(Head(s), k) /\ Spares(Tail(s), k)
    BY <1>1, <1>3 DEF Spares
  <2> QED
    BY <1>3, <2>1 DEF Ends
<1> QED
  BY <1>2, <1>3 DEF Ends

\* With nothing left to write a key ends as it is.
LEMMA EndsNow ==
  ASSUME NEW k, NEW v, NEW cur
  PROVE  Ends(k, v, cur, <<>>) <=> v = cur
BY DEF Ends, Sets, Spares
\* A table's length counts slots, and its slots make blobs.
LEMMA TableValues ==
  ASSUME NEW t \in SlotTables
  PROVE  /\ t \in Seq(SlotType) /\ Len(t) \in 0..Capacity
         /\ \A i \in 1..Len(t) : t[i] \in SlotType /\ EntryKey(i) \in NvsKeys
         /\ <<Len(t)>> \in ValuesOf(CountKey)
         /\ <<Len(t)>> \in ValuesOf(RbCountKey)
         /\ <<"new">> \in ValuesOf(SchemaKey)
         /\ t \in ValuesOf(Ram) /\ t \in ValuesOf(RbKey)
         /\ \A i \in 1..Len(t) : Blob(t[i]) \in ValuesOf(EntryKey(i))
<1>1. /\ t \in Seq(SlotType) /\ Len(t) \in 0..Capacity
      /\ \A i \in 1..Len(t) : t[i] \in SlotType
  BY TableAssumption DEF SlotTables
<1>2. \A i \in 1..Len(t) : EntryKey(i) \in NvsKeys
  BY <1>1, KeysDiffer, TableAssumption
<1>3. \A i \in 1..Len(t) : Blob(t[i]) \in SlotBlobs
  BY <1>1 DEF Blob, SlotBlobs
<1> QED
  BY <1>1, <1>2, <1>3, KeysDiffer DEF ValuesOf, Counts, Schemas

\* amm_save_rollback_unlocked() writes only the snapshot's two keys.
LEMMA SnapshotIs ==
  ASSUME mappings \in SlotTables
  PROVE  /\ Snapshot \in Seq(Writes)
         /\ \A k : k \notin {RbCountKey, RbKey} => Spares(Snapshot, k)
         /\ OneSlot(mappings) => Clean(Snapshot)
<1>1. CASE mappings = <<>>
  BY <1>1 DEF Snapshot, Spares, Clean
<1> DEFINE P(k, v) == /\ Put(k, v) \in Seq(Writes)
                      /\ \A l : l # k => Spares(Put(k, v), l)
<1>2. ASSUME NEW k \in {RbCountKey, RbKey}, NEW v \in ValuesOf(k) PROVE P(k, v)
  <2>1. k \in WriteKeys /\ k # All
    BY KeysDiffer
  <2>2. \A l : l # k => ~Hits([key |-> k, val |-> v], l)
    BY <2>1 DEF Hits
  <2> QED
    BY <2>1, <2>2, PutIs, PutSets
<1>3. ASSUME NEW v \in ValuesOf(RbCountKey) PROVE Clean(Put(RbCountKey, v))
  BY KeysDiffer, PutSets
<1>4. ASSUME NEW v \in ValuesOf(RbKey), OneSlot(v) PROVE Clean(Put(RbKey, v))
  BY <1>4, KeysDiffer, PutSets
<1> HIDE DEF P
<1>5. ASSUME NEW v \in ValuesOf(RbCountKey), NEW u \in ValuesOf(RbKey)
      PROVE  LET s == Put(RbCountKey, v) \o Put(RbKey, u)
             IN /\ s \in Seq(Writes)
                /\ \A k : k \notin {RbCountKey, RbKey} => Spares(s, k)
                /\ OneSlot(u) => Clean(s)
  <2>1. P(RbCountKey, v) /\ P(RbKey, u)
    BY <1>2
  <2> QED
    BY <2>1, <1>3, <1>4, Both DEF P
<1>6. /\ <<>> \in ValuesOf(RbCountKey) /\ <<>> \in ValuesOf(RbKey)
      /\ OneSlot(<<>>)
  BY TableAssumption, KeysDiffer
  DEF ValuesOf, Counts, SlotTables, OneSlot, Live
<1>7. CASE mappings # <<>> /\ Len(mappings) > RollbackMax
  <2>1. Snapshot = Put(RbCountKey, <<>>) \o Put(RbKey, <<>>)
    BY <1>7 DEF Snapshot
  <2> QED
    BY <2>1, <1>5, <1>6
<1>8. CASE mappings # <<>> /\ ~(Len(mappings) > RollbackMax)
  <2>1. Snapshot = Put(RbCountKey, <<Len(mappings)>>) \o Put(RbKey, mappings)
    BY <1>8 DEF Snapshot
  <2> QED
    BY <2>1, <1>5, TableValues
<1> QED
  BY <1>1, <1>7, <1>8

\* amm_save_entry_to_nvs_unlocked() stores the slot, its count and schema.
LEMMA SaveEntryIs ==
  ASSUME NEW t \in SlotTables, NEW i \in 1..Len(t)
  PROVE  LET s == SaveEntry(t, i)
         IN /\ s \in Seq(Writes)
            /\ Sets(Ram, t, s) /\ Sets(CountKey, <<Len(t)>>, s)
            /\ Sets(SchemaKey, <<"new">>, s)
            /\ Sets(EntryKey(i), Blob(t[i]), s)
            /\ \A j : j # i => Spares(s, EntryKey(j))
            /\ OneSlot(t) => Clean(s)
<1> DEFINE a == Put(Ram, t)
           b == Put(CountKey, <<Len(t)>>)
           c == Put(SchemaKey, <<"new">>)
           d == Put(EntryKey(i), Blob(t[i]))
           J(j) == EntryKey(j)
<1>1. /\ a \in Seq(Writes) /\ b \in Seq(Writes) /\ c \in Seq(Writes)
      /\ d \in Seq(Writes)
  BY PutIs, TableValues, KeysDiffer DEF WriteKeys
<1>2. /\ Sets(Ram, t, a) /\ Spares(b, Ram) /\ Spares(c, Ram) /\ Spares(d, Ram)
      /\ Sets(CountKey, <<Len(t)>>, b) /\ Spares(c, CountKey)
      /\ Spares(d, CountKey)
      /\ Sets(SchemaKey, <<"new">>, c) /\ Spares(d, SchemaKey)
      /\ Sets(J(i), Blob(t[i]), d)
  BY PutSets, TableValues, KeysDiffer DEF WriteKeys, Hits
<1>3. ASSUME NEW j, j # i
      PROVE  Spares(a, J(j)) /\ Spares(b, J(j)) /\ Spares(c, J(j))
               /\ Spares(d, J(j))
  BY <1>3, PutSets, TableValues, KeysDiffer DEF WriteKeys, Hits
<1>4. /\ OneSlot(t) => Clean(a)
      /\ Clean(b) /\ Clean(c) /\ Clean(d)
  BY PutSets, TableValues, KeysDiffer DEF WriteKeys
<1> HIDE DEF a, b, c, d, J
<1> DEFINE ab == a \o b
           abc == ab \o c
<1>5. /\ ab \in Seq(Writes)
      /\ Sets(Ram, t, ab) /\ Sets(CountKey, <<Len(t)>>, ab)
      /\ \A j : j # i => Spares(ab, J(j))
      /\ OneSlot(t) => Clean(ab)
  BY <1>1, <1>2, <1>3, <1>4, Both
<1> HIDE DEF ab
<1>6. /\ abc \in Seq(Writes)
      /\ Sets(Ram, t, abc) /\ Sets(CountKey, <<Len(t)>>, abc)
      /\ Sets(SchemaKey, <<"new">>, abc)
      /\ \A j : j # i => Spares(abc, J(j))
      /\ OneSlot(t) => Clean(abc)
  BY <1>1, <1>2, <1>3, <1>4, <1>5, Both
<1> HIDE DEF abc
<1> DEFINE s == abc \o d
<1>7. /\ s \in Seq(Writes)
      /\ Sets(Ram, t, s) /\ Sets(CountKey, <<Len(t)>>, s)
      /\ Sets(SchemaKey, <<"new">>, s)
      /\ Sets(J(i), Blob(t[i]), s)
      /\ \A j : j # i => Spares(s, J(j))
      /\ OneSlot(t) => Clean(s)
  BY <1>1, <1>2, <1>3, <1>4, <1>6, Both
<1>8. SaveEntry(t, i) = s
  BY DEF SaveEntry, s, abc, ab, a, b, c, d
<1> QED
  BY <1>7, <1>8 DEF J

\* One blob per slot.
LEMMA BlobsIs ==
  ASSUME NEW t \in SlotTables
  PROVE  /\ Blobs(t) \in Seq(Writes) /\ Len(Blobs(t)) = Len(t)
         /\ \A i \in 1..Len(t) :
              Blobs(t)[i] = [key |-> EntryKey(i), val |-> Blob(t[i])]
<1>1. \A i \in 1..Len(t) :
        [key |-> EntryKey(i), val |-> Blob(t[i])] \in Writes
  <2> SUFFICES ASSUME NEW i \in 1..Len(t)
               PROVE  [key |-> EntryKey(i), val |-> Blob(t[i])] \in Writes
    OBVIOUS
  <2>1. /\ EntryKey(i) \in WriteKeys
        /\ Blob(t[i]) \in ValuesOf(EntryKey(i))
    BY TableValues, KeysDiffer
  <2> QED
    BY <2>1 DEF Writes
<1>2. DOMAIN t = 1..Len(t) /\ Len(t) \in Nat
  BY TableValues
<1>3. Blobs(t) = [i \in 1..Len(t) |->
                    [key |-> EntryKey(i), val |-> Blob(t[i])]]
  BY <1>2 DEF Blobs, Put
<1> QED
  BY <1>1, <1>2, <1>3

\* The blobs beyond the table are erased.
LEMMA ErasedIs ==
  ASSUME NEW from \in 0..Capacity, NEW to \in 0..Capacity
  PROVE  /\ Erased(from, to) \in Seq(Writes)
         /\ \A i \in 1..Len(Erased(from, to)) :
              Erased(from, to)[i] = [key |-> EntryKey(from + i), val |-> <<>>]
<1>1. \A i \in 1..(to - from) :
        [key |-> EntryKey(from + i), val |-> <<>>] \in Writes
  <2> SUFFICES ASSUME NEW i \in 1..(to - from)
               PROVE  [key |-> EntryKey(from + i), val |-> <<>>] \in Writes
    OBVIOUS
  <2>1. from + i \in 1..Capacity
    BY TableAssumption
  <2>2. EntryKey(from + i) \in NvsKeys
    BY <2>1, KeysDiffer
  <2>3. <<>> \in ValuesOf(EntryKey(from + i))
    BY KeysDiffer DEF ValuesOf, SlotBlobs
  <2> QED
    BY <2>2, <2>3, KeysDiffer DEF Writes
<1>2. Erased(from, to) = [i \in 1..(to - from) |->
                            [key |-> EntryKey(from + i), val |-> <<>>]]
  BY DEF Erased, Put
<1>3. CASE to - from \in Nat
  <2> DEFINE m == to - from
             e == [i \in 1..m |-> [key |-> EntryKey(from + i), val |-> <<>>]]
  <2>1. m \in Nat /\ Erased(from, to) = e
    BY <1>2, <1>3
  <2>2. \A i \in 1..m : e[i] = [key |-> EntryKey(from + i), val |-> <<>>]
    OBVIOUS
  <2>3. e \in [1..m -> Writes]
    BY <1>1
  <2> HIDE DEF m, e
  <2>4. e \in Seq(Writes) /\ Len(e) = m
    BY <2>1, <2>3
  <2> QED
    BY <2>1, <2>2, <2>4
<1>4. CASE to - from \notin Nat
  <2>1. Erased(from, to) = <<>>
    BY <1>2, <1>4
  <2> QED
    BY <2>1
<1> QED
  BY <1>3, <1>4

\* amm_save_table_to_nvs_unlocked() stores the whole table.
LEMMA SaveTableIs ==
  ASSUME NEW t \in SlotTables, NEW before \in 0..Capacity
  PROVE  LET s == SaveTable(t, before)
         IN /\ s \in Seq(Writes)
            /\ Sets(CountKey, <<Len(t)>>, s) /\ Sets(SchemaKey, <<"new">>, s)
            /\ \A i \in 1..Len(t) : Sets(EntryKey(i), Blob(t[i]), s)
            /\ Spares(s, Ram) /\ Clean(s)
<1> DEFINE b == Put(CountKey, <<Len(t)>>)
           c == Put(SchemaKey, <<"new">>)
           d == Blobs(t)
           e == Erased(Len(t), before)
           J(j) == EntryKey(j)
<1>0. Len(t) \in 0..Capacity
  BY TableValues
<1>1. b \in Seq(Writes) /\ c \in Seq(Writes) /\ d \in Seq(Writes)
        /\ e \in Seq(Writes)
  BY <1>0, PutIs, TableValues, KeysDiffer, BlobsIs, ErasedIs
<1>d. Len(d) = Len(t) /\ \A i \in 1..Len(d) : d[i].key = J(i)
                                                  /\ d[i].val = Blob(t[i])
  <2>1. Len(d) = Len(t)
    BY BlobsIs
  <2>2. ASSUME NEW i \in 1..Len(t)
        PROVE  d[i].key = J(i) /\ d[i].val = Blob(t[i])
    <3>1. d[i] = [key |-> J(i), val |-> Blob(t[i])]
      BY BlobsIs
    <3> QED
      BY <3>1
  <2> QED
    BY <2>1, <2>2
<1>e. \A i \in 1..Len(e) : e[i].key = J(Len(t) + i)
  <2> SUFFICES ASSUME NEW i \in 1..Len(e) PROVE e[i].key = J(Len(t) + i)
    OBVIOUS
  <2>1. e[i] = [key |-> J(Len(t) + i), val |-> <<>>]
    BY <1>0, ErasedIs
  <2> QED
    BY <2>1
<1>j. /\ \A i : J(i) \notin {CountKey, SchemaKey, RbCountKey, RbKey, Ram, All}
      /\ \A i, j : J(i) = J(j) => i = j
  BY KeysDiffer
<1>2. /\ Spares(b, Ram) /\ Spares(c, Ram)
      /\ Sets(CountKey, <<Len(t)>>, b) /\ Spares(c, CountKey)
      /\ Sets(SchemaKey, <<"new">>, c)
      /\ Clean(b) /\ Clean(c)
  BY PutSets, TableValues, KeysDiffer DEF WriteKeys, Hits
<1>3. /\ Spares(d, Ram) /\ Spares(d, CountKey) /\ Spares(d, SchemaKey)
      /\ Clean(d)
  <2> HIDE DEF d, J
  <2> QED
    BY <1>d, <1>j, KeysDiffer DEF Spares, Clean, Hits
<1>4. /\ Spares(e, Ram) /\ Spares(e, CountKey) /\ Spares(e, SchemaKey)
      /\ Clean(e)
  <2> HIDE DEF e, J
  <2> QED
    BY <1>e, <1>j, KeysDiffer DEF Spares, Clean, Hits
<1>5. ASSUME NEW i \in 1..Len(t)
      PROVE  Sets(J(i), Blob(t[i]), d) /\ Spares(e, J(i))
  <2> HIDE DEF d, e, J
  <2>1. \A j \in 1..Len(d) : Hits(d[j], J(i)) => j = i
    BY <1>d, <1>j DEF Hits
  <2>2. Hits(d[i], J(i)) /\ d[i].val = Blob(t[i]) /\ i \in 1..Len(d)
    BY <1>d DEF Hits
  <2>3. Len(d) \in Nat
    BY <1>1
  <2>4. ASSUME NEW j \in 1..Len(e) PROVE ~Hits(e[j], J(i))
    <3>1. Len(t) + j # i
      BY <1>0, <1>1
    <3> QED
      BY <3>1, <1>e, <1>j DEF Hits
  <2>5. \A j \in (i + 1)..Len(d) : ~Hits(d[j], J(i))
    BY <2>1, <2>2, <2>3
  <2> QED
    BY <2>2, <2>4, <2>5 DEF Sets, Spares
<1> HIDE DEF b, c, d, e, J
<1> DEFINE bc == b \o c
           bcd == bc \o d
           s == bcd \o e
<1>6. /\ bc \in Seq(Writes) /\ Spares(bc, Ram) /\ Clean(bc)
      /\ Sets(CountKey, <<Len(t)>>, bc) /\ Sets(SchemaKey, <<"new">>, bc)
  BY <1>1, <1>2, Both
<1> HIDE DEF bc
<1>7. /\ bcd \in Seq(Writes) /\ Spares(bcd, Ram) /\ Clean(bcd)
      /\ Sets(CountKey, <<Len(t)>>, bcd) /\ Sets(SchemaKey, <<"new">>, bcd)
      /\ \A i \in 1..Len(t) : Sets(J(i), Blob(t[i]), bcd)
  BY <1>1, <1>3, <1>5, <1>6, Both
<1> HIDE DEF bcd
<1>8. /\ s \in Seq(Writes) /\ Spares(s, Ram) /\ Clean(s)
      /\ Sets(CountKey, <<Len(t)>>, s) /\ Sets(SchemaKey, <<"new">>, s)
      /\ \A i \in 1..Len(t) : Sets(J(i), Blob(t[i]), s)
  BY <1>1, <1>4, <1>5, <1>7, Both
<1>9. SaveTable(t, before) = s
  BY DEF SaveTable, s, bcd, bc, b, c, d, e
<1> QED
  BY <1>8, <1>9 DEF J
-----------------------------------------------------------------------------
\* What is in NVS is a table, when amm_load_from_nvs() takes it.
LEMMA LoadedTable ==
  ASSUME NEW n, NvsOK(n), Loadable(n)
  PROVE  /\ StoredTable(n) \in SlotTables
         /\ n[CountKey] = <<Len(StoredTable(n))>>
         /\ \A i \in 1..Len(StoredTable(n)) :
              n[SchemaKey] = <<"new">>
                => n[EntryKey(i)] = Blob(StoredTable(n)[i])
<1>1. n[CountKey] \in Counts
  BY KeysDiffer DEF NvsOK, ValuesOf
<1>2. PICK c \in 0..Capacity : n[CountKey] = <<c>>
  BY <1>1 DEF Counts, Loadable
<1>3. n[CountKey][1] = c
  BY <1>2
<1>4. ASSUME NEW i \in 1..c
      PROVE  \E e \in SlotType, s \in {"old", "new"} :
               n[EntryKey(i)] = <<e, s>> /\ <<s>> = n[SchemaKey]
  <2>1. EntryKey(i) \in NvsKeys
    BY KeysDiffer, TableAssumption
  <2>2. n[EntryKey(i)] \in SlotBlobs
    BY <2>1, KeysDiffer DEF NvsOK, ValuesOf
  <2>3. n[EntryKey(i)] # <<>> /\ <<n[EntryKey(i)][2]>> = n[SchemaKey]
    BY <1>3 DEF Loadable
  <2>4. PICK e \in SlotType, s \in {"old", "new"} : n[EntryKey(i)] = <<e, s>>
    BY <2>2, <2>3 DEF SlotBlobs
  <2> QED
    BY <2>3, <2>4
<1> DEFINE t == [i \in 1..c |-> n[EntryKey(i)][1]]
<1>5. StoredTable(n) = t
  BY <1>3 DEF StoredTable
<1>6. ASSUME NEW i \in 1..c
      PROVE  /\ t[i] \in SlotType
             /\ n[SchemaKey] = <<"new">> => n[EntryKey(i)] = Blob(t[i])
  <2>1. PICK e \in SlotType, s \in {"old", "new"} :
               n[EntryKey(i)] = <<e, s>> /\ <<s>> = n[SchemaKey]
    BY <1>4
  <2>2. t[i] = e
    BY <2>1
  <2> QED
    BY <2>1, <2>2 DEF Blob
<1>7. t \in Seq(SlotType) /\ Len(t) = c
  BY <1>6, TableAssumption
<1> HIDE DEF t
<1> QED
  BY <1>2, <1>5, <1>6, <1>7 DEF SlotTables

\* A table without some of its slots maps no point twice either.
LEMMA CompactedOneSlot ==
  ASSUME NEW t \in Seq(SlotType), NEW S, OneSlot(t)
  PROVE  OneSlot(Compacted(t, S))
<1> DEFINE u == Compacted(t, S)
<1>1. u \in Seq(SlotType)
  BY CompactedKeeps
<1>2. PICK p \in [1..Len(u) -> S \cap (1..Len(t))] :
        /\ \A i \in 1..Len(u) : u[i] = t[p[i]]
        /\ \A i, j \in 1..Len(u) : i < j => p[i] < p[j]
  BY CompactedKeeps
<1> HIDE DEF u
<1>3. \A i \in 1..Len(u) : p[i] \in 1..Len(t)
  BY <1>2
<1>4. ASSUME NEW i \in Live(u), NEW j \in Live(u), u[i].key = u[j].key
      PROVE  i = j
  <2>1. i \in 1..Len(u) /\ j \in 1..Len(u)
    BY <1>1 DEF Live
  <2>2. p[i] \in Live(t) /\ p[j] \in Live(t)
    BY <1>2, <1>3, <1>4, <2>1 DEF Live
  <2>3. p[i] = p[j]
    BY <1>2, <1>4, <2>1, <2>2 DEF OneSlot
  <2>4. ~(p[i] < p[j]) /\ ~(p[j] < p[i])
    BY <1>3, <2>1, <2>3
  <2> QED
    BY <1>1, <1>2, <2>1, <2>4
<1> QED
  BY <1>4 DEF OneSlot, u

\* amm_init(): the table it starts with is stored once its job is done.
LEMMA StartIs ==
  ASSUME NEW n, NvsOK(n)
  PROVE  LET t == StartTable(n)
             s == StartJob(n)
         IN /\ t \in SlotTables /\ s \in Seq(Writes) /\ Clean(s)
            /\ Leads(t, t, n, s)
<1> DEFINE t == StartTable(n)
           s == StartJob(n)
<1>1. t \in SlotTables
  <2>1. CASE ~Loadable(n)
    BY <2>1, TableAssumption DEF StartTable, SlotTables
  <2>2. CASE Loadable(n) /\ n[SchemaKey] = <<"new">>
    BY <2>2, LoadedTable DEF StartTable
  <2>3. CASE Loadable(n) /\ n[SchemaKey] # <<"new">>
    <3> DEFINE u == StoredTable(n)
               v == Compacted(u, NoDemo(u))
    <3>1. u \in Seq(SlotType) /\ Len(u) <= Capacity
      BY <2>3, LoadedTable DEF SlotTables
    <3>2. v \in Seq(SlotType) /\ Len(v) <= Len(u)
      BY <3>1, CompactedKeeps
    <3>3. t = v
      BY <2>3 DEF StartTable
    <3> HIDE DEF v, u
    <3> QED
      BY <3>1, <3>2, <3>3, TableAssumption DEF SlotTables
  <2> QED
    BY <2>1, <2>2, <2>3
<1>2. CASE Loadable(n) /\ n[SchemaKey] = <<"new">>
  <2>1. s = <<>> /\ t = StoredTable(n)
    BY <1>2 DEF StartJob, StartTable
  <2>2. Leads(t, t, n, <<>>)
    BY <1>2, <2>1, LoadedTable, EndsNow DEF Leads, Stores
  <2>3. <<>> \in Seq(Writes) /\ Clean(<<>>)
    BY DEF Clean
  <2> QED
    BY <1>1, <2>1, <2>2, <2>3
<1>3. CASE ~(Loadable(n) /\ n[SchemaKey] = <<"new">>)
  <2>1. s = SaveTable(t, Len(t)) /\ Len(t) \in 0..Capacity
    BY <1>1, <1>3, TableValues DEF StartJob
  <2> HIDE DEF t
  <2>2. Leads(t, t, n, s) /\ s \in Seq(Writes) /\ Clean(s)
    BY <1>1, <2>1, SaveTableIs DEF Leads, Stores, Ends
  <2> QED
    BY <1>1, <2>2 DEF t
<1> QED
  BY <1>2, <1>3
-----------------------------------------------------------------------------
(* The tables that the operations put in place. *)
UserKept(t, u) ==
  \A i \in Live(t), j \in Live(u) :
    t[i].key = u[j].key /\ t[i].by = "user" => u[j].by = "user"

\* The slots that hold a point.
LEMMA HoldingIs ==
  ASSUME NEW t \in Seq(SlotType), NEW k
  PROVE  /\ HoldingKey(t, k) \subseteq 1..Len(t)
         /\ HoldingKey(t, k) \subseteq Nat
         /\ \A i \in 1..Len(t) : i \in HoldingKey(t, k)
                                  <=> t[i].on /\ t[i].key = k
BY DEF HoldingKey, Live

\* One staged point: no second slot of a point, no lost user's meaning.
LEMMA StageKeeps ==
  ASSUME NEW t \in Seq(SlotType), NEW k \in Keys, mappings \in Seq(SlotType)
  PROVE  /\ Stage(t, k) \in Seq(SlotType)
         /\ OneSlot(t) => OneSlot(Stage(t, k))
         /\ UserKept(mappings, t) => UserKept(mappings, Stage(t, k))
<1> DEFINE e == Overlay(k)
           u == Stage(t, k)
<1>1. /\ e \in SlotType /\ e.key = k /\ e.on = TRUE
      /\ \A i \in Live(mappings) :
           mappings[i].key = k /\ mappings[i].by = "user" => e.by = "user"
  BY DEF Overlay, Slot, SlotType, HoldingKey
<1> HIDE DEF e
<1>2. CASE HoldingKey(t, k) # {}
  <2> DEFINE i == LowestOf(HoldingKey(t, k))
  <2>1. i \in 1..Len(t) /\ t[i].on /\ t[i].key = k
    BY <1>2, HoldingIs, LowestIsLeast
  <2>2. u = [t EXCEPT ![i] = e]
    BY <1>2 DEF Stage, e
  <2> HIDE DEF i, u
  <2>3. /\ u \in Seq(SlotType) /\ Len(u) = Len(t)
        /\ \A j \in 1..Len(t) : u[j] = IF j = i THEN e ELSE t[j]
    BY <1>1, <2>1, <2>2, ChangedAt
  <2>4. \A j \in Live(u) : j \in Live(t) /\ u[j].key = t[j].key
                            /\ (u[j] = e \/ u[j] = t[j])
    BY <1>1, <2>1, <2>3 DEF Live
  <2>5. OneSlot(t) => OneSlot(u)
    BY <2>4 DEF OneSlot
  <2>6. UserKept(mappings, t) => UserKept(mappings, u)
    BY <1>1, <2>4 DEF UserKept
  <2> QED
    BY <2>3, <2>5, <2>6 DEF u
<1>3. CASE HoldingKey(t, k) = {}
  <2>1. u = Append(t, e)
    BY <1>3 DEF Stage, e
  <2> HIDE DEF u
  <2>2. /\ u \in Seq(SlotType) /\ Len(u) = Len(t) + 1 /\ Len(t) \in Nat
        /\ \A j \in 1..Len(t) : u[j] = t[j]
        /\ u[Len(t) + 1] = e
    BY <1>1, <2>1, AppendProperties
  <2>3. ASSUME NEW j \in Live(u)
        PROVE  \/ j \in Live(t) /\ u[j] = t[j] /\ t[j].key # k
               \/ j = Len(t) + 1 /\ u[j] = e
    <3>1. j \in 1..Len(u) /\ u[j].on
      BY <2>2 DEF Live
    <3>2. CASE j \in 1..Len(t)
      <4>1. j \in Live(t) /\ u[j] = t[j]
        BY <2>2, <3>1, <3>2 DEF Live
      <4> QED
        BY <1>3, <4>1 DEF HoldingKey
    <3>3. CASE j \notin 1..Len(t)
      BY <2>2, <3>1, <3>3
    <3> QED
      BY <3>2, <3>3
  <2>4. OneSlot(t) => OneSlot(u)
    BY <1>1, <2>3 DEF OneSlot
  <2>5. UserKept(mappings, t) => UserKept(mappings, u)
    BY <1>1, <2>3 DEF UserKept
  <2> QED
    BY <2>2, <2>4, <2>5 DEF u
<1> QED
  BY <1>2, <1>3
\* The staging table of amm_import_mappings().
LEMMA StagedKeeps ==
  ASSUME NEW batch \in Seq(Keys), NEW replace, mappings \in Seq(SlotType)
  PROVE  LET u == Staged(batch, replace)
         IN /\ u \in Seq(SlotType)
            /\ OneSlot(mappings) => OneSlot(u) /\ UserKept(mappings, u)
<1> DEFINE N == Len(batch)
           R == Seq(SlotType)
           base == Compacted(mappings, Staying(batch, replace))
           Body(f) == [n \in 0..N |-> IF n = 0 THEN base
                                      ELSE Stage(f[n - 1], batch[n])]
           upTo == CHOOSE f : f = Body(f)
           Good(t) == /\ t \in Seq(SlotType)
                      /\ OneSlot(mappings) =>
                           OneSlot(t) /\ UserKept(mappings, t)
<1>1. N \in Nat /\ \A i \in 1..N : batch[i] \in Keys
  OBVIOUS
<1>2. Staged(batch, replace) = upTo[N]
  BY DEF Staged
<1> HIDE DEF N
<1>3. Good(base)
  <2> DEFINE S == Staying(batch, replace)
  <2>1. base \in Seq(SlotType)
    BY CompactedKeeps
  <2>2. PICK p \in [1..Len(base) -> S \cap (1..Len(mappings))] :
          \A i \in 1..Len(base) : base[i] = mappings[p[i]]
    BY CompactedKeeps
  <2>3. OneSlot(mappings) => OneSlot(base)
    BY CompactedOneSlot
  <2>4. S \subseteq Live(mappings)
    BY DEF Staying
  <2> HIDE DEF base, S
  <2>5. ASSUME OneSlot(mappings) PROVE UserKept(mappings, base)
    <3> SUFFICES ASSUME NEW i \in Live(mappings), NEW j \in Live(base),
                        mappings[i].key = base[j].key, mappings[i].by = "user"
                 PROVE  base[j].by = "user"
      BY DEF UserKept
    <3>1. j \in 1..Len(base)
      BY <2>1 DEF Live
    <3>2. p[j] \in Live(mappings) /\ base[j] = mappings[p[j]]
      BY <2>2, <2>4, <3>1
    <3>3. p[j] = i
      BY <2>5, <3>2 DEF OneSlot
    <3> QED
      BY <3>2, <3>3
  <2> QED
    BY <2>1, <2>3, <2>5
<1>4. ASSUME NEW t, NEW i \in 1..N, Good(t) PROVE Good(Stage(t, batch[i]))
  BY <1>1, <1>4, StageKeeps
<1>5. base \in R
  BY <1>3
<1> HIDE DEF base
<1>6. \E f : f = Body(f)
  <2> DEFINE step == [x \in (1..N) \X R |-> Stage(x[2], batch[x[1]])]
  <2>1. \A x \in (1..N) \X R : Stage(x[2], batch[x[1]]) \in R
    BY <1>1, StageKeeps
  <2>2. step \in [(1..N) \X R -> R]
    BY <2>1
  <2>3. \A i \in 1..N : \A x \in R : step[<<i, x>>] = Stage(x, batch[i])
    OBVIOUS
  <2> HIDE DEF step
  <2>4. PICK f \in [0..N -> R] : Defines(f, N, base, step)
    <3> HIDE DEF Body, upTo, Good, R
    <3>1. N \in Nat
      BY <1>1
    <3>2. \A b \in R : \A s \in [(1..N) \X R -> R] :
            \E f \in [0..N -> R] : Defines(f, N, b, s)
      BY ONLY <3>1, Recursion
    <3> QED
      BY ONLY <2>2, <1>5, <3>2
  <2>5. ASSUME NEW i \in 0..N PROVE f[i] = Body(f)[i]
    <3>1. CASE i = 0
      BY <2>4, <3>1 DEF Defines
    <3>2. CASE i # 0
      <4>1. i \in 1..N /\ f[i - 1] \in R
        BY <1>1, <3>2
      <4> QED
        BY <2>3, <2>4, <3>2, <4>1 DEF Defines
    <3> QED
      BY <3>1, <3>2
  <2>6. f = Body(f)
    BY <2>5
  <2> QED
    BY <2>6
<1>7. upTo = Body(upTo)
  BY <1>6
<1> HIDE DEF upTo
<1>8. ASSUME NEW n \in 0..N
      PROVE  upTo[n] = IF n = 0 THEN base ELSE Stage(upTo[n - 1], batch[n])
  <2>1. upTo[n] = Body(upTo)[n]
    BY <1>7
  <2> QED
    BY <2>1
<1> HIDE DEF Body, Good
<1> DEFINE A == {n \in 0..N : Good(upTo[n])}
<1>9. 0 \in A
  BY <1>1, <1>3, <1>8
<1>10. \A n \in 1..N : n - 1 \in A => n \in A
  <2> SUFFICES ASSUME NEW n \in 1..N, n - 1 \in A PROVE n \in A
    OBVIOUS
  <2>1. Good(upTo[n - 1])
    OBVIOUS
  <2> QED
    BY <1>4, <1>8, <2>1
<1> HIDE DEF A
<1>11. N \in A
  <2>1. N \in Nat
    BY <1>1
  <2>2. \A i \in 0..N : i \in A
    BY ONLY <1>9, <1>10, <2>1, UpTo
  <2> QED
    BY <2>1, <2>2
<1>12. Good(upTo[N])
  BY <1>11 DEF A
<1> QED
  BY <1>2, <1>12 DEF Good

\* amm_add_mapping(): the slot of the point, a free one, or the next.
LEMMA SlotForIs ==
  ASSUME mappings \in Seq(SlotType), NEW k
  PROVE  LET i == SlotFor(k)
         IN /\ i \in 1..(Len(mappings) + 1)
            /\ \A j \in Live(mappings) : mappings[j].key = k /\ j # i
                 => i \in Live(mappings) /\ mappings[i].key = k
<1> DEFINE i == SlotFor(k)
<1>0. Len(mappings) \in Nat /\ DOMAIN mappings = 1..Len(mappings)
  OBVIOUS
<1>1. CASE HoldingKey(mappings, k) # {}
  <2>1. i = LowestOf(HoldingKey(mappings, k))
    BY <1>1 DEF SlotFor
  <2>2. i \in HoldingKey(mappings, k)
    BY <1>0, <1>1, <2>1, HoldingIs, LowestIsLeast
  <2> QED
    BY <1>0, <2>2 DEF HoldingKey, Live
<1>2. CASE HoldingKey(mappings, k) = {}
  <2>1. i = NewSlotFor(k)
    BY <1>2 DEF SlotFor
  <2>2. i \in 1..(Len(mappings) + 1)
    <3> DEFINE S == DOMAIN mappings \ Live(mappings)
    <3>1. CASE S # {}
      <4>1. i = LowestOf(S)
        BY <2>1, <3>1 DEF NewSlotFor
      <4>2. S \subseteq Nat /\ S \subseteq 1..Len(mappings)
        BY <1>0
      <4>3. i \in S
        BY <3>1, <4>1, <4>2, LowestIsLeast
      <4> QED
        BY <1>0, <4>2, <4>3
    <3>2. CASE S = {}
      <4>1. i = Len(mappings) + 1
        BY <2>1, <3>2 DEF NewSlotFor
      <4> QED
        BY <1>0, <4>1
    <3> QED
      BY <3>1, <3>2
  <2> QED
    BY <1>2, <2>2 DEF HoldingKey
<1> QED
  BY <1>1, <1>2

\* amm_add_mapping(): a point that has a slot gets no second one.
LEMMA AddedTable ==
  ASSUME mappings \in SlotTables, NEW k \in Keys, SlotFor(k) <= Capacity
  PROVE  LET i == SlotFor(k)
             t == IF i \in DOMAIN mappings
                  THEN [mappings EXCEPT ![i] = Slot(k, "user")]
                  ELSE Append(mappings, Slot(k, "user"))
         IN /\ t \in SlotTables /\ i \in 1..Len(t)
            /\ \A j \in 1..Len(t) :
                 j # i => j \in 1..Len(mappings) /\ t[j] = mappings[j]
            /\ OneSlot(mappings) => OneSlot(t)
<1> DEFINE i == SlotFor(k)
           e == Slot(k, "user")
           t == IF i \in DOMAIN mappings THEN [mappings EXCEPT ![i] = e]
                ELSE Append(mappings, e)
<1>1. /\ mappings \in Seq(SlotType) /\ Len(mappings) \in 0..Capacity
      /\ DOMAIN mappings = 1..Len(mappings)
  <2>1. mappings \in Seq(SlotType) /\ Len(mappings) \in 0..Capacity
    BY TableValues
  <2> QED
    BY <2>1
<1>2. e \in SlotType /\ e.key = k
  BY DEF Slot, SlotType
<1>3. /\ i \in 1..(Len(mappings) + 1)
      /\ \A j \in Live(mappings) : mappings[j].key = k /\ j # i
           => i \in Live(mappings) /\ mappings[i].key = k
  BY <1>1, SlotForIs
<1> HIDE DEF i, e
<1>4. CASE i \in DOMAIN mappings
  <2>1. t = [mappings EXCEPT ![i] = e]
    BY <1>4
  <2> HIDE DEF t
  <2>2. /\ t \in Seq(SlotType) /\ Len(t) = Len(mappings)
        /\ \A j \in 1..Len(mappings) : t[j] = IF j = i THEN e ELSE mappings[j]
    BY <1>1, <1>2, <1>4, <2>1, ChangedAt
  <2>3. OneSlot(mappings) => OneSlot(t)
    <3> SUFFICES ASSUME OneSlot(mappings), NEW a \in Live(t),
                        NEW b \in Live(t), t[a].key = t[b].key
                 PROVE  a = b
      BY DEF OneSlot
    <3>1. a \in 1..Len(mappings) /\ b \in 1..Len(mappings)
      BY <2>2 DEF Live
    <3>2. a # i => a \in Live(mappings) /\ t[a] = mappings[a]
      BY <2>2, <3>1 DEF Live
    <3>3. b # i => b \in Live(mappings) /\ t[b] = mappings[b]
      BY <2>2, <3>1 DEF Live
    <3>4. t[i].key = k
      BY <1>1, <1>2, <1>4, <2>2
    <3> QED
      BY <1>3, <3>2, <3>3, <3>4 DEF OneSlot
  <2> QED
    BY <1>1, <1>4, <2>2, <2>3 DEF SlotTables, i, t, e
<1>5. CASE i \notin DOMAIN mappings
  <2>0. i = Len(mappings) + 1
    <3>1. i \notin 1..Len(mappings)
      BY <1>1, <1>5
    <3> QED
      BY <1>1, <1>3, <3>1
  <2>1. t = Append(mappings, e)
    BY <1>5
  <2> HIDE DEF t
  <2>2. /\ t \in Seq(SlotType) /\ Len(t) = Len(mappings) + 1
        /\ \A j \in 1..Len(mappings) : t[j] = mappings[j]
        /\ t[i] = e
    BY <1>1, <1>2, <2>0, <2>1, AppendProperties
  <2>3. ASSUME NEW j \in Live(t)
        PROVE  j = i \/ (j \in Live(mappings) /\ t[j] = mappings[j])
    <3>1. j \in 1..(Len(mappings) + 1) /\ t[j].on
      BY <2>2 DEF Live
    <3> QED
      BY <1>1, <2>0, <2>2, <3>1 DEF Live
  <2>4. OneSlot(mappings) => OneSlot(t)
    <3> SUFFICES ASSUME OneSlot(mappings), NEW a \in Live(t),
                        NEW b \in Live(t), t[a].key = t[b].key
                 PROVE  a = b
      BY DEF OneSlot
    <3>1. i \notin Live(mappings)
      BY <1>5 DEF Live
    <3> QED
      BY <1>2, <1>3, <2>2, <2>3, <3>1 DEF OneSlot
  <2>5. i <= Capacity
    BY DEF i
  <2>6. t \in SlotTables /\ i \in 1..Len(t)
    BY <1>1, <2>0, <2>2, <2>5, TableAssumption DEF SlotTables
  <2>7. \A j \in 1..Len(t) :
          j # i => j \in 1..Len(mappings) /\ t[j] = mappings[j]
    BY <1>1, <2>0, <2>2
  <2> QED
    BY <2>4, <2>6, <2>7 DEF i, t, e
<1> QED
  BY <1>4, <1>5
-----------------------------------------------------------------------------
(* The inductive invariant. *)
AmmTyped ==
  /\ mappings \in SlotTables /\ NvsOK(ammNvs) /\ job \in Seq(Writes)
  /\ faulted \in BOOLEAN /\ torn \in BOOLEAN /\ (faulted => torn)

\* what the job under way leads to is stored
StoredInv == faulted \/ \E t \in SlotTables : Leads(t, mappings, ammNvs, job)

\* no table that is written maps a point twice
SlotInv == torn \/ (/\ OneSlot(mappings) /\ OneSlot(ammNvs[RbKey])
                    /\ Clean(job))

\* an import ends with the change in RAM
DealInv == torn \/ deal = <<>> \/
             (/\ job # <<>> /\ UserKept(mappings, deal[2])
              /\ \A i \in 1..Len(job) : job[i].key = Ram => i = Len(job))

AmmInv == AmmTyped /\ StoredInv /\ SlotInv /\ DealInv

\* Between operations the running table is stored.
LEMMA Settled ==
  ASSUME AmmInv, job = <<>>, ~faulted
  PROVE  Stores(mappings, ammNvs, <<>>)
<1>1. PICK t \in SlotTables : Leads(t, mappings, ammNvs, <<>>)
  BY DEF AmmInv, StoredInv
<1>2. t = mappings
  BY <1>1, EndsNow DEF Leads
<1> QED
  BY <1>1, <1>2 DEF Leads

\* Between operations a restart would load the running table.
LEMMA StoredLoads ==
  ASSUME AmmInv, job = <<>>, ~faulted
  PROVE  /\ Loadable(ammNvs) /\ ammNvs[SchemaKey] = <<"new">>
         /\ StoredTable(ammNvs) = mappings
<1>1. /\ ammNvs[CountKey] = <<Len(mappings)>>
      /\ ammNvs[SchemaKey] = <<"new">>
      /\ \A i \in 1..Len(mappings) : ammNvs[EntryKey(i)] = Blob(mappings[i])
  BY Settled, EndsNow DEF Stores
<1>2. mappings \in Seq(SlotType)
  BY DEF AmmInv, AmmTyped, SlotTables
<1>3. Loadable(ammNvs)
  <2>1. ammNvs[CountKey] # <<>> /\ ammNvs[CountKey][1] = Len(mappings)
    BY <1>1
  <2>2. ASSUME NEW i \in 1..Len(mappings)
        PROVE  /\ ammNvs[EntryKey(i)] # <<>>
               /\ <<ammNvs[EntryKey(i)][2]>> = ammNvs[SchemaKey]
    <3>1. ammNvs[EntryKey(i)] = <<mappings[i], "new">>
      BY <1>1 DEF Blob
    <3> QED
      BY <1>1, <3>1
  <2> QED
    BY <2>1, <2>2 DEF Loadable
<1>4. StoredTable(ammNvs) = mappings
  <2>1. ammNvs[CountKey][1] = Len(mappings)
    BY <1>1
  <2>2. StoredTable(ammNvs)
          = [i \in 1..Len(mappings) |-> ammNvs[EntryKey(i)][1]]
    BY <2>1 DEF StoredTable
  <2>3. \A i \in 1..Len(mappings) : ammNvs[EntryKey(i)][1] = mappings[i]
    BY <1>1 DEF Blob
  <2>4. mappings = [i \in 1..Len(mappings) |-> mappings[i]]
    BY <1>2
  <2> QED
    BY <2>2, <2>3, <2>4
<1> QED
  BY <1>1, <1>3, <1>4

\* What an operation writes: typed, leading to a stored table, and clean.
Fine(s) == /\ s \in Seq(Writes)
           /\ faulted \/ \E t \in SlotTables : Leads(t, mappings, ammNvs, s)
           /\ OneSlot(mappings) /\ OneSlot(ammNvs[RbKey]) => Clean(s)

\* An operation begins with writes that are fine.
LEMMA BeginKeeps ==
  ASSUME AmmInv, NEW s, BeginOp(s), Fine(s),
         DealInv'
  PROVE  AmmInv'
<1>1. AmmTyped' /\ StoredInv'
  BY DEF AmmInv, AmmTyped, StoredInv, BeginOp, Fine
<1>2. SlotInv'
  <2>1. CASE torn
    BY <2>1 DEF BeginOp, SlotInv
  <2>2. CASE ~torn
    BY <2>2 DEF AmmInv, BeginOp, SlotInv, Fine
  <2> QED
    BY <2>1, <2>2
<1> QED
  BY <1>1, <1>2 DEF AmmInv

\* The snapshot before a change touches neither the table nor its copy.
LEMMA SnapshotFirst ==
  ASSUME mappings \in SlotTables, NEW s, Fine(s)
  PROVE  Fine(Snapshot \o s)
<1>1. /\ Snapshot \in Seq(Writes) /\ s \in Seq(Writes)
      /\ \A k : k \notin {RbCountKey, RbKey} => Spares(Snapshot, k)
      /\ OneSlot(mappings) => Clean(Snapshot)
  BY SnapshotIs DEF Fine
<1>2. ASSUME NEW k, NEW v, NEW cur, k \notin {RbCountKey, RbKey},
             Ends(k, v, cur, s)
      PROVE  Ends(k, v, cur, Snapshot \o s)
  BY <1>1, <1>2, Both DEF Ends
<1>3. ASSUME NEW t \in SlotTables, Leads(t, mappings, ammNvs, s)
      PROVE  Leads(t, mappings, ammNvs, Snapshot \o s)
  <2>1. Ends(Ram, t, mappings, Snapshot \o s)
    BY <1>2, <1>3, KeysDiffer DEF Leads
  <2>2. Stores(t, ammNvs, Snapshot \o s)
    BY <1>2, <1>3, KeysDiffer DEF Leads, Stores
  <2> QED
    BY <2>1, <2>2 DEF Leads
<1>4. /\ Snapshot \o s \in Seq(Writes)
      /\ Clean(Snapshot) /\ Clean(s) => Clean(Snapshot \o s)
  BY <1>1, Both
<1> QED
  BY <1>1, <1>3, <1>4 DEF Fine

\* An operation that writes nothing is fine.
LEMMA NothingIsFine ==
  ASSUME AmmInv, job = <<>>
  PROVE  Fine(<<>>)
<1>1. CASE faulted
  BY <1>1 DEF Fine, Clean
<1>2. CASE ~faulted
  <2>1. Leads(mappings, mappings, ammNvs, <<>>)
    BY <1>2, Settled, EndsNow DEF Leads
  <2> QED
    BY <2>1 DEF Fine, Clean, AmmInv, AmmTyped
<1> QED
  BY <1>1, <1>2

\* One slot of the stored table changes.
LEMMA SaveEntryFine ==
  ASSUME AmmInv, job = <<>>, NEW t \in SlotTables, NEW i \in 1..Len(t),
         \A j \in 1..Len(t) :
           j # i => j \in 1..Len(mappings) /\ t[j] = mappings[j],
         OneSlot(mappings) => OneSlot(t)
  PROVE  Fine(SaveEntry(t, i))
<1> DEFINE s == SaveEntry(t, i)
<1>1. /\ s \in Seq(Writes)
      /\ Sets(Ram, t, s) /\ Sets(CountKey, <<Len(t)>>, s)
      /\ Sets(SchemaKey, <<"new">>, s)
      /\ Sets(EntryKey(i), Blob(t[i]), s)
      /\ \A j : j # i => Spares(s, EntryKey(j))
      /\ OneSlot(t) => Clean(s)
  BY SaveEntryIs
<1> HIDE DEF s
<1>2. ASSUME ~faulted PROVE Leads(t, mappings, ammNvs, s)
  <2>1. ASSUME NEW j \in 1..Len(t)
        PROVE  Ends(EntryKey(j), Blob(t[j]), ammNvs[EntryKey(j)], s)
    <3>1. CASE j = i
      BY <1>1, <3>1 DEF Ends
    <3>2. CASE j # i
      <4>1. Stores(mappings, ammNvs, <<>>)
        BY <1>2, Settled
      <4>2. j \in 1..Len(mappings) /\ t[j] = mappings[j]
        BY <3>2
      <4>3. Blob(t[j]) = ammNvs[EntryKey(j)]
        BY <4>1, <4>2, EndsNow DEF Stores
      <4> QED
        BY <1>1, <3>2, <4>3 DEF Ends
    <3> QED
      BY <3>1, <3>2
  <2> QED
    BY <1>1, <2>1 DEF Leads, Stores, Ends
<1> QED
  BY <1>1, <1>2 DEF Fine, s

\* amm_add_mapping() writes what it changes.
LEMMA AddingFine ==
  ASSUME AmmInv, job = <<>>, NEW k \in Keys
  PROVE  Fine(Adding(k))
<1> DEFINE i == SlotFor(k)
           t == IF i \in DOMAIN mappings
                THEN [mappings EXCEPT ![i] = Slot(k, "user")]
                ELSE Append(mappings, Slot(k, "user"))
<1>1. CASE i > Capacity
  BY <1>1, NothingIsFine DEF Adding
<1>2. CASE ~(i > Capacity)
  <2>1. i <= Capacity
    <3>1. i \in Nat
      BY SlotForIs DEF AmmInv, AmmTyped, SlotTables
    <3> QED
      BY <1>2, <3>1, TableAssumption
  <2>2. /\ t \in SlotTables /\ i \in 1..Len(t)
        /\ \A j \in 1..Len(t) :
             j # i => j \in 1..Len(mappings) /\ t[j] = mappings[j]
        /\ OneSlot(mappings) => OneSlot(t)
    BY <2>1, AddedTable DEF AmmInv, AmmTyped
  <2>3. Adding(k) = SaveEntry(t, i)
    BY <1>2 DEF Adding
  <2> HIDE DEF t, i
  <2> QED
    BY <2>2, <2>3, SaveEntryFine
<1> QED
  BY <1>1, <1>2

\* amm_remove_mapping_for_channel() writes what it changes.
LEMMA RemovingFine ==
  ASSUME AmmInv, job = <<>>, NEW o \in Keys, Matching(o) # {}
  PROVE  Fine(Removing(o))
<1> DEFINE i == LowestOf(Matching(o))
           e == [mappings[i] EXCEPT !.on = FALSE]
           t == [mappings EXCEPT ![i].on = FALSE]
<1>1. /\ mappings \in Seq(SlotType) /\ Len(mappings) \in 0..Capacity
      /\ \A j \in 1..Len(mappings) : mappings[j] \in SlotType
  BY TableValues DEF AmmInv, AmmTyped
<1>2. i \in 1..Len(mappings)
  <2>1. Matching(o) \subseteq 1..Len(mappings) /\ Matching(o) \subseteq Nat
    BY <1>1 DEF Matching, Live
  <2> QED
    BY <2>1, LowestIsLeast
<1>3. e \in SlotType /\ e.on = FALSE
  BY <1>1, <1>2 DEF SlotType
<1>4. Removing(o) = SaveEntry(t, i) /\ t = [mappings EXCEPT ![i] = e]
  BY <1>1, <1>2 DEF Removing
<1> HIDE DEF i, e, t
<1>5. /\ t \in Seq(SlotType) /\ Len(t) = Len(mappings)
      /\ \A j \in 1..Len(mappings) : t[j] = IF j = i THEN e ELSE mappings[j]
  BY <1>1, <1>2, <1>3, <1>4, ChangedAt
<1>6. \A j \in Live(t) : j \in Live(mappings) /\ t[j] = mappings[j]
  BY <1>1, <1>2, <1>3, <1>5 DEF Live
<1>7. OneSlot(mappings) => OneSlot(t)
  BY <1>6 DEF OneSlot
<1>8. t \in SlotTables
  BY <1>1, <1>5 DEF SlotTables
<1> QED
  BY <1>2, <1>4, <1>5, <1>7, <1>8, SaveEntryFine
\* amm_set_poll_interval_all() saves the table that is running.
LEMMA SaveTableFine ==
  ASSUME AmmInv
  PROVE  Fine(SaveTable(mappings, Len(mappings)))
<1> DEFINE s == SaveTable(mappings, Len(mappings))
<1>1. mappings \in SlotTables /\ Len(mappings) \in 0..Capacity
  BY TableValues DEF AmmInv, AmmTyped
<1>2. /\ s \in Seq(Writes)
      /\ Sets(CountKey, <<Len(mappings)>>, s) /\ Sets(SchemaKey, <<"new">>, s)
      /\ \A i \in 1..Len(mappings) : Sets(EntryKey(i), Blob(mappings[i]), s)
      /\ Spares(s, Ram) /\ Clean(s)
  BY <1>1, SaveTableIs
<1> HIDE DEF s
<1>3. Leads(mappings, mappings, ammNvs, s)
  BY <1>2 DEF Leads, Stores, Ends
<1> QED
  BY <1>1, <1>2, <1>3 DEF Fine, s

\* amm_clear_mappings() stores the count of the empty table it leaves.
LEMMA ClearingFine ==
  ASSUME NEW p \in {<<>>, Put(All, <<>>)}
  PROVE  Fine(p \o Put(CountKey, <<0>>) \o Put(SchemaKey, <<"new">>)
                \o Put(Ram, <<>>))
<1> DEFINE b == Put(CountKey, <<0>>)
           c == Put(SchemaKey, <<"new">>)
           d == Put(Ram, <<>>)
<1>1. /\ <<0>> \in ValuesOf(CountKey) /\ <<"new">> \in ValuesOf(SchemaKey)
      /\ <<>> \in ValuesOf(Ram) /\ <<>> \in ValuesOf(All)
  BY KeysDiffer, TableAssumption
  DEF ValuesOf, Counts, Schemas, SlotTables, All, Ram, RbKey, CountKey,
      RbCountKey, SchemaKey
<1>2. p \in Seq(Writes) /\ Clean(p)
  <2>1. All \in WriteKeys /\ All \notin {Ram, RbKey}
    BY KeysDiffer DEF WriteKeys
  <2>2. Put(All, <<>>) \in Seq(Writes) /\ Clean(Put(All, <<>>))
    BY <1>1, <2>1, PutIs, PutSets
  <2>3. <<>> \in Seq(Writes) /\ Clean(<<>>)
    BY DEF Clean
  <2> QED
    BY <2>2, <2>3
<1>3. /\ b \in Seq(Writes) /\ c \in Seq(Writes) /\ d \in Seq(Writes)
  BY <1>1, PutIs, KeysDiffer DEF WriteKeys
<1>4. /\ Sets(CountKey, <<0>>, b) /\ Spares(c, CountKey) /\ Spares(d, CountKey)
      /\ Sets(SchemaKey, <<"new">>, c) /\ Spares(d, SchemaKey)
      /\ Sets(Ram, <<>>, d)
  BY <1>1, PutSets, KeysDiffer DEF WriteKeys, Hits
<1>5. Clean(b) /\ Clean(c) /\ Clean(d)
  <2>1. OneSlot(<<>>)
    BY DEF OneSlot, Live
  <2> QED
    BY <1>1, <2>1, PutSets, KeysDiffer DEF WriteKeys
<1> HIDE DEF b, c, d
<1> DEFINE pb == p \o b
           pbc == pb \o c
           s == pbc \o d
<1>6. pb \in Seq(Writes) /\ Clean(pb) /\ Sets(CountKey, <<0>>, pb)
  BY <1>2, <1>3, <1>4, <1>5, Both
<1> HIDE DEF pb
<1>7. /\ pbc \in Seq(Writes) /\ Clean(pbc) /\ Sets(CountKey, <<0>>, pbc)
      /\ Sets(SchemaKey, <<"new">>, pbc)
  BY <1>3, <1>4, <1>5, <1>6, Both
<1> HIDE DEF pbc
<1>8. /\ s \in Seq(Writes) /\ Clean(s) /\ Sets(CountKey, <<0>>, s)
      /\ Sets(SchemaKey, <<"new">>, s) /\ Sets(Ram, <<>>, s)
  BY <1>3, <1>4, <1>5, <1>7, Both
<1> HIDE DEF s
<1>9. <<>> \in SlotTables /\ Len(<<>>) = 0
  BY TableAssumption DEF SlotTables
<1>10. Leads(<<>>, mappings, ammNvs, s)
  BY <1>8, <1>9 DEF Leads, Stores, Ends
<1>11. Fine(s)
  BY <1>8, <1>9, <1>10 DEF Fine
<1> QED
  BY <1>11 DEF s, pbc, pb, b, c, d

\* The change in RAM comes last.
RamLast(s) == \A i \in 1..Len(s) : s[i].key = Ram => i = Len(s)

\* A save before the change in RAM leaves that change last.
LEMMA RamStaysLast ==
  ASSUME NEW a \in Seq(Writes), NEW b \in Seq(Writes), Spares(a, Ram),
         RamLast(b), b # <<>>
  PROVE  RamLast(a \o b) /\ a \o b # <<>>
<1> DEFINE c == a \o b
<1>1. /\ Len(a) \in Nat /\ Len(b) \in Nat \ {0}
      /\ c \in Seq(Writes) /\ Len(c) = Len(a) + Len(b)
      /\ \A i \in 1..Len(a) : c[i] = a[i]
      /\ \A i \in 1..Len(b) : c[Len(a) + i] = b[i]
  BY ConcatProperties
<1> HIDE DEF c
<1>2. ASSUME NEW i \in 1..Len(c), c[i].key = Ram PROVE i = Len(c)
  <2>1. i \notin 1..Len(a)
    BY <1>1, <1>2 DEF Spares, Hits
  <2>2. i - Len(a) \in 1..Len(b) /\ Len(a) + (i - Len(a)) = i
    BY <1>1, <2>1
  <2>3. b[i - Len(a)].key = Ram
    BY <1>1, <1>2, <2>2
  <2>4. i - Len(a) = Len(b)
    BY <2>2, <2>3 DEF RamLast
  <2> QED
    BY <1>1, <2>2, <2>4
<1>3. c # <<>>
  BY <1>1
<1> QED
  BY <1>2, <1>3 DEF RamLast, c

\* amm_import_mappings() saves the staging table, then puts it in place.
LEMMA ImportFine ==
  ASSUME AmmInv, NEW t \in SlotTables, OneSlot(mappings) => OneSlot(t)
  PROVE  LET s == SaveTable(t, Len(mappings)) \o Put(Ram, t)
         IN Fine(s) /\ RamLast(s) /\ s # <<>>
<1> DEFINE a == SaveTable(t, Len(mappings))
           b == Put(Ram, t)
           s == a \o b
<1>1. mappings \in SlotTables /\ Len(mappings) \in 0..Capacity
  BY TableValues DEF AmmInv, AmmTyped
<1>2. /\ a \in Seq(Writes)
      /\ Sets(CountKey, <<Len(t)>>, a) /\ Sets(SchemaKey, <<"new">>, a)
      /\ \A i \in 1..Len(t) : Sets(EntryKey(i), Blob(t[i]), a)
      /\ Spares(a, Ram) /\ Clean(a)
  BY <1>1, SaveTableIs
<1>3. /\ b \in Seq(Writes) /\ Sets(Ram, t, b)
      /\ \A k \in NvsKeys : Spares(b, k)
      /\ OneSlot(t) => Clean(b)
  <2>1. t \in ValuesOf(Ram) /\ Ram \in WriteKeys
    BY TableValues DEF WriteKeys
  <2>2. \A k \in NvsKeys : ~Hits([key |-> Ram, val |-> t], k)
    BY KeysDiffer DEF Hits
  <2>3. Hits([key |-> Ram, val |-> t], Ram)
    BY DEF Hits
  <2> QED
    BY <2>1, <2>2, <2>3, PutIs, PutSets
<1>4. RamLast(b) /\ b # <<>>
  <2>1. Len(b) = 1
    BY PutIs, TableValues DEF WriteKeys
  <2> HIDE DEF b
  <2> QED
    BY <2>1 DEF RamLast
<1> HIDE DEF a, b
<1>5. /\ s \in Seq(Writes) /\ Sets(Ram, t, s) /\ (OneSlot(t) => Clean(s))
      /\ \A k \in NvsKeys : \A v : Sets(k, v, a) => Sets(k, v, s)
  BY <1>2, <1>3, Both
<1>6. RamLast(s) /\ s # <<>>
  BY <1>2, <1>3, <1>4, RamStaysLast
<1> HIDE DEF s
<1>7. /\ Sets(CountKey, <<Len(t)>>, s) /\ Sets(SchemaKey, <<"new">>, s)
      /\ \A i \in 1..Len(t) : Sets(EntryKey(i), Blob(t[i]), s)
  BY <1>2, <1>5, KeysDiffer, TableValues
<1>8. Leads(t, mappings, ammNvs, s)
  BY <1>5, <1>7 DEF Leads, Stores, Ends
<1>9. Fine(s)
  BY <1>5, <1>8 DEF Fine
<1> QED
  BY <1>6, <1>9 DEF s, a, b

\* amm_rollback() puts the older table in place, then saves it.
LEMMA RollbackFine ==
  ASSUME NEW t \in SlotTables, OneSlot(ammNvs[RbKey]) => OneSlot(t)
  PROVE  Fine(Put(Ram, t) \o SaveTable(t, Len(t)))
<1> DEFINE a == Put(Ram, t)
           b == SaveTable(t, Len(t))
           s == a \o b
<1>1. /\ b \in Seq(Writes)
      /\ Sets(CountKey, <<Len(t)>>, b) /\ Sets(SchemaKey, <<"new">>, b)
      /\ \A i \in 1..Len(t) : Sets(EntryKey(i), Blob(t[i]), b)
      /\ Spares(b, Ram) /\ Clean(b)
  BY TableValues, SaveTableIs
<1>2. a \in Seq(Writes) /\ Sets(Ram, t, a) /\ (OneSlot(t) => Clean(a))
  <2>1. t \in ValuesOf(Ram) /\ Ram \in WriteKeys
    BY TableValues DEF WriteKeys
  <2>2. Hits([key |-> Ram, val |-> t], Ram)
    BY DEF Hits
  <2> QED
    BY <2>1, <2>2, PutIs, PutSets
<1> HIDE DEF a, b
<1>3. /\ s \in Seq(Writes) /\ Sets(Ram, t, s) /\ (OneSlot(t) => Clean(s))
      /\ \A k, v : Sets(k, v, b) => Sets(k, v, s)
  BY <1>1, <1>2, Both
<1> HIDE DEF s
<1>4. Leads(t, mappings, ammNvs, s)
  BY <1>1, <1>3 DEF Leads, Stores, Ends
<1>5. Fine(s)
  BY <1>3, <1>4 DEF Fine
<1> QED
  BY <1>5 DEF s, a, b
-----------------------------------------------------------------------------
(* The steps. *)
\* A change to the table: a snapshot, then its writes.
LEMMA ChangeKeeps ==
  ASSUME AmmInv, NEW s, Fine(s), Change(s)
  PROVE  AmmInv'
<1>1. Fine(Snapshot \o s)
  BY SnapshotFirst DEF AmmInv, AmmTyped
<1>2. DealInv'
  BY DEF Change, DealInv
<1> QED
  BY <1>1, <1>2, BeginKeeps DEF Change

\* amm_import_mappings(), whether the staging table fits or not.
LEMMA ImportKeeps ==
  ASSUME AmmInv, NEW batch \in Imports, NEW replace \in BOOLEAN,
         Import(batch, replace)
  PROVE  AmmInv'
<1> DEFINE t == Staged(batch, replace)
           save == IF Len(t) <= Capacity
                   THEN SaveTable(t, Len(mappings)) \o Put(Ram, t) ELSE <<>>
<1>1. /\ job = <<>> /\ BeginOp(Snapshot \o save)
      /\ deal' = IF Len(t) <= Capacity THEN <<mappings, t>> ELSE <<>>
      /\ mappings' = mappings /\ torn' = torn /\ job' = Snapshot \o save
  BY DEF Import, BeginOp
<1>2. mappings \in Seq(SlotType) /\ batch \in Seq(Keys)
  BY TableAssumption DEF AmmInv, AmmTyped, SlotTables
<1>3. /\ t \in Seq(SlotType)
      /\ OneSlot(mappings) => OneSlot(t) /\ UserKept(mappings, t)
  BY <1>2, StagedKeeps
<1> HIDE DEF t
<1>4. CASE Len(t) <= Capacity
  <2>1. t \in SlotTables /\ save = SaveTable(t, Len(mappings)) \o Put(Ram, t)
    BY <1>3, <1>4 DEF SlotTables
  <2> HIDE DEF save
  <2>2. Fine(save) /\ RamLast(save) /\ save # <<>>
    BY <1>3, <2>1, ImportFine
  <2>3. Fine(Snapshot \o save)
    BY <2>2, SnapshotFirst DEF AmmInv, AmmTyped
  <2>4. RamLast(Snapshot \o save) /\ Snapshot \o save # <<>>
    <3>1. Snapshot \in Seq(Writes) /\ Spares(Snapshot, Ram)
      BY SnapshotIs, KeysDiffer DEF AmmInv, AmmTyped
    <3> QED
      BY <2>2, <3>1, RamStaysLast DEF Fine
  <2>5. DealInv'
    <3>1. CASE torn
      BY <1>1, <3>1 DEF DealInv
    <3>2. CASE ~torn
      <4>1. UserKept(mappings, t)
        BY <1>3, <3>2 DEF AmmInv, SlotInv
      <4>2. deal'[2] = t
        BY <1>1, <1>4
      <4>3. UserKept(mappings', deal'[2])
        BY <1>1, <4>1, <4>2
      <4>4. job' # <<>> /\ RamLast(job')
        BY <1>1, <2>4
      <4> QED
        BY <4>3, <4>4 DEF DealInv, RamLast
    <3> QED
      BY <3>1, <3>2
  <2> QED
    BY <1>1, <2>3, <2>5, BeginKeeps
<1>5. CASE ~(Len(t) <= Capacity)
  <2>1. save = <<>> /\ deal' = <<>>
    BY <1>1, <1>5
  <2>2. Fine(Snapshot \o <<>>)
    BY <1>1, NothingIsFine, SnapshotFirst DEF AmmInv, AmmTyped
  <2>3. DealInv'
    BY <2>1 DEF DealInv
  <2> QED
    BY <1>1, <2>1, <2>2, <2>3, BeginKeeps
<1> QED
  BY <1>4, <1>5

\* amm_rollback(), with the blank slots of a count above the blob.
LEMMA RollbackKeeps ==
  ASSUME AmmInv, Rollback
  PROVE  AmmInv'
<1> DEFINE kept  == ammNvs[RbKey]
           blank == ammNvs[RbCountKey][1] - Len(kept)
           more  == [i \in 1..blank |-> BlankSlot]
           t     == kept \o more
<1>1. /\ BeginOp(Put(Ram, t) \o SaveTable(t, Len(t))) /\ deal' = <<>>
      /\ ammNvs[RbCountKey] # <<>> /\ kept # <<>>
      /\ ammNvs[RbCountKey][1] >= Len(kept)
  BY DEF Rollback
<1>2. kept \in SlotTables /\ ammNvs[RbCountKey] \in Counts
  BY KeysDiffer DEF AmmInv, AmmTyped, NvsOK, ValuesOf
<1>3. PICK c \in 0..Capacity : ammNvs[RbCountKey] = <<c>>
  BY <1>1, <1>2 DEF Counts
<1>4. /\ kept \in Seq(SlotType) /\ Len(kept) \in Nat \ {0}
      /\ blank = c - Len(kept) /\ blank \in Nat
  <2>0. kept \in Seq(SlotType) /\ Len(kept) \in 0..Capacity
    BY <1>2, TableValues
  <2>1. Len(kept) \in Nat /\ kept # <<>>
    BY <1>1, <2>0
  <2>2. ammNvs[RbCountKey][1] = c /\ c \in Nat
    BY <1>3, TableAssumption
  <2>3. c >= Len(kept)
    BY <1>1, <2>2
  <2> HIDE DEF kept
  <2>4. Len(kept) # 0
    BY <2>0, <2>1
  <2> QED
    BY <2>0, <2>1, <2>2, <2>3, <2>4
<1> HIDE DEF kept, blank
<1>5. BlankSlot \in SlotType /\ ~BlankSlot.on
  <2>0. kept[1] \in SlotType
    BY <1>4
  <2>1. kept[1].key \in Keys
    BY <2>0 DEF SlotType
  <2>2. (CHOOSE k \in Keys : TRUE) \in Keys
    BY <2>1
  <2> QED
    BY <2>2 DEF BlankSlot, SlotType
<1>6. more \in Seq(SlotType) /\ Len(more) = blank
        /\ \A i \in 1..blank : more[i] = BlankSlot
  BY <1>4, <1>5
<1> HIDE DEF more
<1>7. /\ t \in Seq(SlotType) /\ Len(t) = Len(kept) + blank
      /\ \A i \in 1..Len(kept) : t[i] = kept[i]
      /\ \A i \in 1..blank : t[Len(kept) + i] = BlankSlot
  BY <1>4, <1>6, ConcatProperties
<1> HIDE DEF t
<1>8. t \in SlotTables
  BY <1>3, <1>4, <1>7, TableAssumption DEF SlotTables
<1>9. ASSUME NEW i \in Live(t) PROVE i \in Live(kept) /\ t[i] = kept[i]
  <2>1. i \in 1..Len(t) /\ t[i].on
    BY <1>7 DEF Live
  <2>2. i \in 1..Len(kept)
    <3> SUFFICES ASSUME i \notin 1..Len(kept) PROVE FALSE
      OBVIOUS
    <3>1. i - Len(kept) \in 1..blank /\ Len(kept) + (i - Len(kept)) = i
      BY <1>4, <1>7, <2>1
    <3>2. t[i] = BlankSlot
      BY <1>7, <3>1
    <3> QED
      BY <1>5, <2>1, <3>2
  <2> QED
    BY <1>4, <1>7, <2>1, <2>2 DEF Live
<1>10. OneSlot(kept) => OneSlot(t)
  BY <1>9 DEF OneSlot
<1>11. Fine(Put(Ram, t) \o SaveTable(t, Len(t)))
  BY <1>8, <1>10, RollbackFine DEF kept
<1>12. DealInv'
  BY <1>1 DEF DealInv
<1> QED
  BY <1>1, <1>11, <1>12, BeginKeeps

\* Each write of an operation.
LEMMA WriteKeeps ==
  ASSUME AmmInv, Write
  PROVE  AmmInv'
<1> DEFINE w == Head(job)
<1>1. /\ job \in Seq(Writes) /\ job # <<>>
      /\ job' = Tail(job) /\ faulted' = faulted /\ torn' = torn
      /\ mappings' = IF w.key = Ram THEN w.val ELSE mappings
      /\ ammNvs' = CASE w.key = Ram -> ammNvs
                     [] w.key = All -> [k \in NvsKeys |-> <<>>]
                     [] OTHER -> [ammNvs EXCEPT ![w.key] = w.val]
      /\ deal' = IF Len(job) = 1 THEN <<>> ELSE deal
  BY DEF Write, AmmInv, AmmTyped
<1>2. /\ Len(job) \in Nat \ {0} /\ Len(Tail(job)) = Len(job) - 1
      /\ w = job[1] /\ w \in Writes /\ Tail(job) \in Seq(Writes)
      /\ \A i \in 1..Len(Tail(job)) : Tail(job)[i] = job[i + 1]
                                       /\ i + 1 \in 1..Len(job)
  BY <1>1, HeadTailProperties
<1>3. w.key \in WriteKeys /\ w.val \in ValuesOf(w.key)
  BY <1>2, WriteIs
<1> HIDE DEF w
<1>4. mappings' = IF Hits(w, Ram) THEN w.val ELSE mappings
  BY <1>1 DEF Hits
<1>5. /\ ammNvs' = [k \in NvsKeys |-> ammNvs'[k]]
      /\ \A k \in NvsKeys :
           ammNvs'[k] = IF Hits(w, k) THEN w.val ELSE ammNvs[k]
  <2>0. ammNvs = [k \in NvsKeys |-> ammNvs[k]]
    BY DEF AmmInv, AmmTyped, NvsOK
  <2>1. CASE w.key = Ram
    BY <1>1, <2>0, <2>1, KeysDiffer DEF Hits
  <2>2. CASE w.key = All
    <3>1. ammNvs' = [k \in NvsKeys |-> <<>>]
      BY <1>1, <2>2, KeysDiffer
    <3>2. w.val = <<>>
      BY <1>3, <2>2, KeysDiffer
      DEF ValuesOf, Ram, All, RbKey, CountKey, RbCountKey, SchemaKey
    <3>3. \A k \in NvsKeys : Hits(w, k)
      BY <2>2, KeysDiffer DEF Hits
    <3> QED
      BY <3>1, <3>2, <3>3
  <2>3. CASE w.key # Ram /\ w.key # All
    <3>1. ammNvs' = [ammNvs EXCEPT ![w.key] = w.val]
      BY <1>1, <2>3
    <3>2. \A k \in NvsKeys : Hits(w, k) <=> w.key = k
      BY <2>3 DEF Hits
    <3> QED
      BY <2>0, <3>1, <3>2
  <2> QED
    BY <2>1, <2>2, <2>3
<1>6. ASSUME NEW k \in NvsKeys, Hits(w, k) PROVE w.val \in ValuesOf(k)
  <2>1. CASE w.key = k
    BY <1>3, <2>1
  <2>2. CASE w.key = All
    <3>1. w.val = <<>>
      BY <1>3, <2>2
      DEF ValuesOf, Ram, All, RbKey, CountKey, RbCountKey, SchemaKey
    <3>2. <<>> \in SlotTables
      BY TableAssumption DEF SlotTables
    <3> QED
      BY <3>1, <3>2, KeysDiffer DEF ValuesOf, Counts, Schemas, SlotBlobs
  <2> QED
    BY <1>6, <2>1, <2>2 DEF Hits
<1>7. AmmTyped'
  <2>1. mappings' \in SlotTables
    BY <1>1, <1>3 DEF ValuesOf, AmmInv, AmmTyped
  <2>2. NvsOK(ammNvs')
    BY <1>5, <1>6 DEF NvsOK, AmmInv, AmmTyped
  <2> QED
    BY <1>1, <1>2, <2>1, <2>2 DEF AmmInv, AmmTyped
<1>8. StoredInv'
  <2>1. CASE faulted
    BY <1>1, <2>1 DEF StoredInv
  <2>2. CASE ~faulted
    <3>1. PICK t \in SlotTables : Leads(t, mappings, ammNvs, job)
      BY <2>2 DEF AmmInv, StoredInv
    <3>2. Ends(Ram, t, mappings', job')
      BY <1>1, <1>4, <3>1, EndsStep DEF Leads, w
    <3>3. ASSUME NEW k \in NvsKeys, NEW v, Ends(k, v, ammNvs[k], job)
          PROVE  Ends(k, v, ammNvs'[k], job')
      <4>1. Ends(k, v, IF Hits(w, k) THEN w.val ELSE ammNvs[k], Tail(job))
        BY <1>1, <3>3, EndsStep DEF w
      <4> QED
        BY <1>1, <1>5, <4>1
    <3>4. \A i \in 1..Len(t) : EntryKey(i) \in NvsKeys
      BY TableValues
    <3>5. Stores(t, ammNvs', job')
      BY <3>1, <3>3, <3>4, KeysDiffer DEF Leads, Stores
    <3> QED
      BY <3>2, <3>5 DEF StoredInv, Leads
  <2> QED
    BY <2>1, <2>2
<1>9. SlotInv'
  <2>1. CASE torn
    BY <1>1, <2>1 DEF SlotInv
  <2>2. CASE ~torn
    <3>1. OneSlot(mappings) /\ OneSlot(ammNvs[RbKey]) /\ Clean(job)
      BY <2>2 DEF AmmInv, SlotInv
    <3>2. OneSlot(mappings')
      BY <1>1, <1>2, <3>1 DEF Clean
    <3>3. OneSlot(ammNvs'[RbKey])
      <4>1. CASE ~Hits(w, RbKey)
        BY <1>5, <3>1, <4>1, KeysDiffer
      <4>2. CASE w.key = RbKey
        <5>1. OneSlot(w.val) /\ Hits(w, RbKey)
          BY <1>2, <3>1, <4>2 DEF Clean, Hits
        <5> QED
          BY <1>5, <5>1, KeysDiffer
      <4>3. CASE w.key = All
        <5>1. w.val = <<>>
          BY <1>3, <4>3
          DEF ValuesOf, Ram, All, RbKey, CountKey, RbCountKey, SchemaKey
        <5>2. OneSlot(<<>>) /\ Hits(w, RbKey)
          BY <4>3, KeysDiffer DEF OneSlot, Live, Hits
        <5> QED
          BY <1>5, <5>1, <5>2, KeysDiffer
      <4> QED
        BY <4>1, <4>2, <4>3 DEF Hits
    <3>4. Clean(job')
      BY <1>1, <1>2, <3>1 DEF Clean
    <3> QED
      BY <3>2, <3>3, <3>4 DEF SlotInv
  <2> QED
    BY <2>1, <2>2
<1>10. DealInv'
  <2>1. CASE torn \/ deal = <<>> \/ Len(job) = 1
    BY <1>1, <2>1 DEF DealInv
  <2>2. CASE ~torn /\ deal # <<>> /\ Len(job) # 1
    <3>1. /\ UserKept(mappings, deal[2])
          /\ \A i \in 1..Len(job) : job[i].key = Ram => i = Len(job)
      BY <2>2 DEF AmmInv, DealInv
    <3>2. w.key # Ram /\ mappings' = mappings /\ deal' = deal
      BY <1>1, <1>2, <2>2, <3>1
    <3>0. Len(job) \in Nat /\ Len(job) # 0 /\ Len(Tail(job)) = Len(job) - 1
      BY <1>2
    <3>3. job' # <<>>
      <4>1. Len(job') # 0
        BY <1>1, <2>2, <3>0
      <4> QED
        BY <4>1
    <3>4. \A i \in 1..Len(job') : job'[i].key = Ram => i = Len(job')
      <4> SUFFICES ASSUME NEW i \in 1..Len(Tail(job)), Tail(job)[i].key = Ram
                   PROVE  i = Len(Tail(job))
        BY <1>1
      <4>1. i + 1 \in 1..Len(job) /\ job[i + 1].key = Ram
        BY <1>2
      <4>2. i + 1 = Len(job)
        BY <3>1, <4>1
      <4>3. i \in Int
        OBVIOUS
      <4>4. \A a \in Int, l \in Nat : a + 1 = l => a = l - 1
        OBVIOUS
      <4> QED
        BY ONLY <3>0, <4>2, <4>3, <4>4
    <3> QED
      BY <3>1, <3>2, <3>3, <3>4 DEF DealInv
  <2> QED
    BY <2>1, <2>2
<1> QED
  BY <1>7, <1>8, <1>9, <1>10 DEF AmmInv

\* A write that fails, and a power cut with the start after it.
LEMMA FaultKeeps ==
  ASSUME AmmInv, WriteFails \/ RestartAmm
  PROVE  AmmInv'
<1>1. CASE WriteFails
  <2>1. AmmTyped' /\ StoredInv'
    BY <1>1 DEF WriteFails, AmmInv, AmmTyped, StoredInv
  <2>2. SlotInv' /\ DealInv'
    BY <1>1 DEF WriteFails, SlotInv, DealInv
  <2> QED
    BY <2>1, <2>2 DEF AmmInv
<1>2. CASE RestartAmm
  <2> DEFINE t == StartTable(ammNvs)
             s == StartJob(ammNvs)
  <2>0. /\ mappings' = t /\ job' = s /\ ammNvs' = ammNvs
        /\ torn' = (torn \/ job # <<>>) /\ faulted' = FALSE /\ deal' = <<>>
    BY <1>2 DEF RestartAmm
  <2>1. /\ t \in SlotTables /\ s \in Seq(Writes) /\ Clean(s)
        /\ Leads(t, t, ammNvs, s)
    BY StartIs DEF AmmInv, AmmTyped
  <2>2. AmmTyped'
    <3>1. torn' \in BOOLEAN
      BY <2>0
    <3> QED
      BY <2>0, <2>1, <3>1 DEF AmmInv, AmmTyped
  <2>3. StoredInv'
    BY <2>0, <2>1 DEF StoredInv
  <2>4. DealInv'
    BY <2>0 DEF DealInv
  <2>5. SlotInv'
    <3>1. CASE torn \/ job # <<>>
      BY <2>0, <3>1 DEF SlotInv
    <3>2. CASE ~torn /\ job = <<>>
      <4>1. OneSlot(mappings) /\ OneSlot(ammNvs[RbKey]) /\ ~faulted
        BY <3>2 DEF AmmInv, SlotInv, AmmTyped
      <4>2. t = mappings
        <5>1. /\ Loadable(ammNvs) /\ ammNvs[SchemaKey] = <<"new">>
              /\ StoredTable(ammNvs) = mappings
          BY <3>2, <4>1, StoredLoads
        <5> QED
          BY <5>1 DEF StartTable
      <4> QED
        BY <2>0, <2>1, <4>1, <4>2 DEF SlotInv
    <3> QED
      BY <3>1, <3>2
  <2> QED
    BY <2>2, <2>3, <2>4, <2>5 DEF AmmInv
<1> QED
  BY <1>1, <1>2

\* The first start, with an empty NVS or an older firmware's table.
LEMMA InitHolds ==
  ASSUME AmmInit
  PROVE  AmmInv
<1>1. PICK keys : /\ keys = <<>> \/ keys = OldImage
                  /\ AmmInitWith(keys)
  BY DEF AmmInit
<1>2. /\ keys \in Seq(Keys) /\ Len(keys) \in 0..Capacity
      /\ \A i, j \in 1..Len(keys) : keys[i] = keys[j] => i = j
  <2>1. CASE keys = <<>>
    BY <2>1, TableAssumption
  <2>2. CASE keys = OldImage
    <3>1. keys \in Seq(Keys) /\ Len(keys) <= Capacity
      BY <2>2, ImageAssumption
    <3>2. \A i, j \in 1..Len(keys) : keys[i] = keys[j] => i = j
      BY <2>2, ImageAssumption
    <3>3. Len(keys) \in Nat /\ Capacity \in Nat
      BY <3>1, TableAssumption
    <3> QED
      BY <3>1, <3>2, <3>3
  <2> QED
    BY <1>1, <2>1, <2>2
<1> DEFINE n == Found(keys)
           t == StartTable(n)
           s == StartJob(n)
<1>3. /\ ammNvs = n /\ mappings = t /\ job = s
      /\ deal = <<>> /\ faulted = FALSE /\ torn = FALSE
  BY <1>1 DEF AmmInitWith
<1>4. ASSUME NEW i \in 1..Len(keys)
      PROVE  /\ Slot(keys[i], "profile") \in SlotType
             /\ Slot(keys[i], "profile").key = keys[i]
             /\ EntryKey(i) \in NvsKeys /\ EntryKey(i)[1] = "entry"
             /\ EntryKey(i)[2] = i
  <2>1. keys[i] \in Keys
    BY <1>2
  <2>2. i \in 1..Capacity
    BY <1>2, TableAssumption
  <2> QED
    BY <2>1, <2>2, KeysDiffer DEF Slot, SlotType, EntryKey
<1>5. \A k \in NvsKeys :
        n[k] = IF k = CountKey THEN <<Len(keys)>>
               ELSE IF k = SchemaKey THEN <<"old">>
               ELSE IF k[1] = "entry" /\ k[2] \in DOMAIN keys
               THEN <<Slot(keys[k[2]], "profile"), "old">> ELSE <<>>
  BY DEF Found
<1>6. ASSUME NEW k \in NvsKeys PROVE n[k] \in ValuesOf(k)
  <2> HIDE DEF n
  <2>0. DOMAIN keys = 1..Len(keys)
    BY <1>2
  <2>1. CASE k = CountKey
    <3>1. n[k] = <<Len(keys)>>
      BY <1>5, <2>1
    <3> QED
      BY <1>2, <2>1, <3>1, KeysDiffer DEF ValuesOf, Counts
  <2>2. CASE k = SchemaKey
    <3>1. n[k] = <<"old">>
      BY <1>5, <2>2, KeysDiffer
    <3> QED
      BY <2>2, <3>1, KeysDiffer DEF ValuesOf, Schemas
  <2>3. CASE k \in {RbCountKey, RbKey}
    <3>1. n[k] = <<>>
      <4>1. k[1] # "entry"
        BY <2>3 DEF RbCountKey, RbKey
      <4> QED
        BY <1>5, <2>3, <4>1, KeysDiffer
    <3> QED
      BY <2>3, <3>1, KeysDiffer, TableAssumption
      DEF ValuesOf, Counts, SlotTables
  <2>4. CASE k \notin {CountKey, SchemaKey, RbCountKey, RbKey}
    <3>1. PICK i \in 1..Capacity : k = EntryKey(i)
      BY <2>4 DEF NvsKeys
    <3>2. ValuesOf(k) = SlotBlobs
      BY <3>1, KeysDiffer DEF ValuesOf
    <3>3. k[1] = "entry" /\ k[2] = i
      BY <3>1 DEF EntryKey
    <3>4. n[k] = IF i \in 1..Len(keys)
                 THEN <<Slot(keys[i], "profile"), "old">> ELSE <<>>
      BY <1>5, <2>0, <2>4, <3>3
    <3> QED
      BY <1>4, <3>2, <3>4 DEF SlotBlobs
  <2> QED
    BY <2>1, <2>2, <2>3, <2>4
<1>7. NvsOK(n)
  <2>1. n = [k \in NvsKeys |-> n[k]]
    BY DEF Found
  <2> HIDE DEF n
  <2> QED
    BY <1>6, <2>1 DEF NvsOK
<1>8. /\ t \in SlotTables /\ s \in Seq(Writes) /\ Clean(s)
      /\ Leads(t, t, n, s)
  BY <1>7, StartIs
<1>9. n[RbKey] = <<>>
  <2>1. RbKey[1] # "entry" /\ RbKey \in NvsKeys
    BY KeysDiffer DEF RbKey
  <2> HIDE DEF n
  <2> QED
    BY <1>5, <2>1, KeysDiffer
<1>10. OneSlot(t)
  <2>1. CASE ~Loadable(n)
    <3>1. t = <<>>
      BY <2>1 DEF StartTable
    <3> QED
      BY <3>1 DEF OneSlot, Live
  <2>2. CASE Loadable(n)
    <3> DEFINE u == StoredTable(n)
    <3>1. n[SchemaKey] = <<"old">> /\ n[CountKey] = <<Len(keys)>>
      BY <1>5, KeysDiffer
    <3>2. u \in Seq(SlotType) /\ Len(u) = Len(keys)
      <4>1. u \in SlotTables /\ n[CountKey] = <<Len(u)>>
        BY <1>7, <2>2, LoadedTable
      <4> QED
        BY <3>1, <4>1 DEF SlotTables
    <3>3. \A i \in 1..Len(keys) : u[i].key = keys[i]
      <4> SUFFICES ASSUME NEW i \in 1..Len(keys) PROVE u[i].key = keys[i]
        OBVIOUS
      <4>1. n[CountKey][1] = Len(keys)
        BY <3>1
      <4>2. u[i] = n[EntryKey(i)][1]
        BY <4>1 DEF StoredTable
      <4>3. DOMAIN keys = 1..Len(keys)
        BY <1>2
      <4>4. n[EntryKey(i)] = <<Slot(keys[i], "profile"), "old">>
        BY <1>4, <1>5, <4>3, KeysDiffer
      <4>5. u[i] = Slot(keys[i], "profile")
        BY <4>2, <4>4
      <4> QED
        BY <1>4, <4>5
    <3> HIDE DEF u, n
    <3>4. OneSlot(u)
      BY <1>2, <3>2, <3>3 DEF OneSlot, Live
    <3>5. OneSlot(Compacted(u, NoDemo(u)))
      BY <3>2, <3>4, CompactedOneSlot
    <3>6. n[SchemaKey] # <<"new">>
      BY <3>1
    <3> QED
      BY <2>2, <3>5, <3>6 DEF StartTable, u
  <2> QED
    BY <2>1, <2>2
<1> HIDE DEF n, t, s
<1>11. AmmTyped /\ StoredInv
  BY <1>3, <1>7, <1>8 DEF AmmTyped, StoredInv
<1>12. SlotInv
  <2>1. OneSlot(<<>>)
    BY DEF OneSlot, Live
  <2> QED
    BY <1>3, <1>8, <1>9, <1>10, <2>1 DEF SlotInv
<1>13. DealInv
  BY <1>3 DEF DealInv
<1> QED
  BY <1>11, <1>12, <1>13 DEF AmmInv

\* Each step of the mapping table's code keeps the invariant.
LEMMA AmmStep ==
  ASSUME AmmInv, [AmmNext]_ammVars
  PROVE  AmmInv'
<1>1. CASE \E k \in Keys : AddMapping(k)
  <2>1. PICK k \in Keys : AddMapping(k)
    BY <1>1
  <2>2. Change(Adding(k)) /\ job = <<>>
    BY <2>1 DEF AddMapping, Change, BeginOp
  <2> QED
    BY <2>2, AddingFine, ChangeKeeps
<1>2. CASE \E k \in Keys : RemoveMapping(k)
  <2>1. PICK k \in Keys : RemoveMapping(k)
    BY <1>2
  <2>2. Change(Removing(k)) /\ job = <<>> /\ Matching(k) # {}
    BY <2>1 DEF RemoveMapping, Change, BeginOp
  <2> QED
    BY <2>2, RemovingFine, ChangeKeeps
<1>3. CASE \E k, o \in Keys : EditMapping(k, o)
  <2>1. PICK k \in Keys, o \in Keys : EditMapping(k, o)
    BY <1>3
  <2>2. Change(Adding(k)) /\ job = <<>>
    BY <2>1 DEF EditMapping, Change, BeginOp
  <2> QED
    BY <2>2, AddingFine, ChangeKeeps
<1>4. CASE SetPollIntervalAll
  BY <1>4, SaveTableFine, ChangeKeeps DEF SetPollIntervalAll
<1>5. CASE ClearMappings
  <2>1. job = <<>>
    BY <1>5 DEF ClearMappings, Change, BeginOp
  <2> QED
    BY <1>5, <2>1, ClearingFine, ChangeKeeps DEF ClearMappings
<1>6. CASE Rollback
  BY <1>6, RollbackKeeps
<1>7. CASE \E b \in Imports, replace \in BOOLEAN : Import(b, replace)
  <2>1. PICK b \in Imports, replace \in BOOLEAN : Import(b, replace)
    BY <1>7
  <2> QED
    BY <2>1, ImportKeeps
<1>8. CASE Write
  BY <1>8, WriteKeeps
<1>9. CASE WriteFails \/ RestartAmm
  BY <1>9, FaultKeeps
<1>10. CASE EditDone \/ UNCHANGED ammVars
  <2>1. /\ mappings' = mappings /\ ammNvs' = ammNvs /\ job' = job
        /\ deal' = deal
    BY <1>10 DEF EditDone, ammVars
  <2>2. faulted' = faulted /\ torn' = torn
    BY <1>10 DEF EditDone, ammVars
  <2>3. AmmTyped'
    BY <2>1, <2>2 DEF AmmInv, AmmTyped
  <2>4. StoredInv' /\ SlotInv' /\ DealInv'
    BY <2>1, <2>2 DEF AmmInv, StoredInv, SlotInv, DealInv
  <2> QED
    BY <2>3, <2>4 DEF AmmInv
<1> QED
  BY <1>1, <1>2, <1>3, <1>4, <1>5, <1>6, <1>7, <1>8, <1>9, <1>10 DEF AmmNext

\* The inductive invariant of the mapping table and its copy in NVS, for every
\* capacity, every table of an older firmware and every batch: where the
\* writes under way lead is where a restart finds the table.
THEOREM AmmInvariant == AmmSpec => []AmmInv
<1>1. AmmInit => AmmInv
  BY InitHolds
<1>2. AmmInv /\ [AmmNext]_ammVars => AmmInv'
  BY AmmStep
<1> QED
  BY <1>1, <1>2, PTL DEF AmmSpec

\* The table never grows over its capacity and NVS holds a count within it,
\* through every edit, import, rollback, failed write and power cut.
THEOREM AmmTypeCorrect == AmmSpec => []AmmTypeOK
<1>1. AmmInv => AmmTypeOK
  <2> SUFFICES ASSUME AmmInv PROVE AmmTypeOK
    OBVIOUS
  <2>1. /\ mappings \in Seq(SlotType) /\ Len(mappings) <= Capacity
        /\ NvsOK(ammNvs)
    BY DEF AmmInv, AmmTyped, SlotTables
  <2>2. \A i \in DOMAIN mappings : mappings[i] \in SlotType
    BY <2>1
  <2>3. DOMAIN ammNvs = NvsKeys
    BY <2>1 DEF NvsOK
  <2>4. ammNvs[CountKey] # <<>> => ammNvs[CountKey][1] \in 0..Capacity
    <3>1. ammNvs[CountKey] \in Counts
      BY <2>1, KeysDiffer DEF NvsOK, ValuesOf
    <3> QED
      BY <3>1 DEF Counts
  <2> QED
    BY <2>1, <2>2, <2>3, <2>4 DEF AmmTypeOK
<1> QED
  BY <1>1, AmmInvariant, PTL

\* A reboot finds the table that was running: after every operation that
\* ended without a failed write, amm_load_from_nvs() would load the table that
\* is in RAM.
THEOREM StoredTableIsRunning == AmmSpec => []StoredIsRunning
<1>1. AmmInv => StoredIsRunning
  BY StoredLoads DEF StoredIsRunning
<1> QED
  BY <1>1, AmmInvariant, PTL

\* amm_add_mapping(), amm_import_mappings() and amm_rollback() give a physical
\* point one active slot at most, as long as none of them is broken off.
THEOREM PointsMappedOnce == AmmSpec => []PointMappedOnce
<1>1. AmmInv => PointMappedOnce
  BY DEF AmmInv, SlotInv, OneSlot, PointMappedOnce
<1> QED
  BY <1>1, AmmInvariant, PTL

\* The table that amm_import_mappings() puts in place keeps the user's
\* meaning of every point that it regenerates.
THEOREM UserEditsSurviveImport == AmmSpec => UserSemanticsKept
<1>1. AmmInv /\ deal # <<>> /\ mappings' = deal[2] /\ ~torn =>
        \A i \in Live(mappings), j \in Live(mappings') :
          mappings[i].key = mappings'[j].key /\ mappings[i].by = "user"
            => mappings'[j].by = "user"
  <2> SUFFICES ASSUME AmmInv, deal # <<>>, mappings' = deal[2], ~torn
               PROVE  UserKept(mappings, mappings')
    BY DEF UserKept
  <2>1. UserKept(mappings, deal[2])
    BY DEF AmmInv, DealInv
  <2> QED
    BY <2>1
<1> QED
  BY <1>1, AmmInvariant, PTL DEF UserSemanticsKept
-----------------------------------------------------------------------------
(***************************************************************************)
(* The shape of the rules and of the log.  The invariants above know the   *)
(* order of things; that no table or buffer exceeds its size needs the     *)
(* bounds of the identifiers, of the clock and of the watermarks as well.  *)
(***************************************************************************)
\* The bounds of identifiers and times.
RuleBounds ==
  /\ nextId <= MaxRuleIds + 1 /\ saved.nextId <= MaxRuleIds + 1
  /\ clock <= MaxClock
  /\ holds \in [RuleSlots -> BOOLEAN] /\ level \in [Sources -> Levels]
  /\ \A i \in RuleSlots : last[i] <= now

\* They hold at the first start.
LEMMA RuleBoundsInit == AutomationInit => RuleBounds
<1> SUFFICES ASSUME AutomationInit PROVE RuleBounds
  OBVIOUS
<1>1. /\ nextId = 1 /\ saved.nextId = 1 /\ clock = 1
      /\ now = 0 /\ \A i \in RuleSlots : last[i] = 0
      /\ level \in [Sources -> Levels]
  BY DEF AutomationInit, Zero, Levels
<1>2. holds \in [RuleSlots -> BOOLEAN]
  BY DEF AutomationInit
<1>3. \A i \in RuleSlots : last[i] <= now
  BY <1>1
<1> QED
  BY <1>1, <1>2, <1>3, RuleBoundAssumption DEF RuleBounds

\* An edit numbers within the bounds and takes times back.
LEMMA EditsKeepBounds ==
  ASSUME AutomationInv, RuleBounds, NEW id \in RuleIds \cup {0}, NEW src,
         \/ SlotsOf(id) = {} /\ Insert(id, src)
         \/ SlotsOf(id) # {} /\ Replace(id, src)
         \/ Delete(id)
  PROVE  RuleBounds'
<1>1. nextId' <= MaxRuleIds + 1 /\ nextId' \in Int
  <2>1. nextId \in Int /\ nextId <= MaxRuleIds + 1 /\ MaxRuleIds \in Nat
    BY RuleBoundAssumption DEF AutomationInv, IdsInv, RuleBounds
  <2>2. CASE Insert(id, src)
    BY <2>1, <2>2 DEF Insert
  <2>3. CASE Replace(id, src) \/ Delete(id)
    BY <2>1, <2>3 DEF Replace, Delete
  <2> QED
    BY <2>2, <2>3
<1>2. saved'.nextId <= MaxRuleIds + 1
  <2>1. SaveRules
    BY DEF Insert, Replace, Delete
  <2>2. saved' = [rules |-> rules', nextId |-> nextId'] \/ saved' = saved
    BY <2>1 DEF SaveRules
  <2>3. CASE saved' = [rules |-> rules', nextId |-> nextId']
    BY <1>1, <2>3
  <2>4. CASE saved' = saved
    BY <2>4 DEF RuleBounds
  <2> QED
    BY <2>2, <2>3, <2>4
<1>3. Edited
  BY DEF Insert, Replace, Delete
<1>4. UNCHANGED <<clock, holds, level, now>>
  BY <1>3 DEF Edited, passVars
<1>5. \A i \in RuleSlots : last'[i] <= now
  <2>1. Editing
    BY EditsAreEditing DEF AutomationInv
  <2>2. last \in [RuleSlots -> Nat] /\ now \in Nat
    BY DEF AutomationInv, CooldownInv, PassInv
  <2>3. \A i \in RuleSlots : last'[i] = 0 \/ last'[i] = last[i]
    BY <2>1, <2>2 DEF Editing, Zero
  <2> QED
    BY <2>2, <2>3 DEF RuleBounds
<1> QED
  BY <1>1, <1>2, <1>4, <1>5 DEF RuleBounds

\* A pass stamps with its own time, which is not after the clock.
LEMMA PassKeepsBounds ==
  ASSUME AutomationInv, RuleBounds, PassStep
  PROVE  RuleBounds'
<1>1. UNCHANGED <<nextId, saved, clock, level>>
  BY DEF PassStep, BeginPass, Skip, NoMatch, Match, Finish, ruleVars
<1>2. now \in Nat /\ clock \in Nat /\ now <= clock
      /\ last \in [RuleSlots -> Nat]
  BY DEF AutomationInv, PassInv, CooldownInv
<1>3. holds' \in [RuleSlots -> BOOLEAN]
  <2>1. CASE BeginPass \/ Skip \/ Finish
    BY <2>1 DEF BeginPass, Skip, Finish, timeVars, RuleBounds
  <2>2. CASE NoMatch
    BY <2>2 DEF NoMatch, RuleBounds
  <2>3. CASE Match
    BY <2>3 DEF Match, RuleBounds
  <2> QED
    BY <2>1, <2>2, <2>3 DEF PassStep
<1>4. \A i \in RuleSlots : last'[i] <= now'
  <2>1. CASE BeginPass
    <3>1. now' = clock /\ last' = last
      BY <2>1 DEF BeginPass, timeVars
    <3> QED
      BY <1>2, <3>1 DEF RuleBounds
  <2>2. CASE Skip \/ NoMatch \/ Match
    BY <2>2 DEF Skip, NoMatch, Match, timeVars, RuleBounds
  <2>3. CASE Finish
    <3>1. now' = now /\ last' = [last EXCEPT ![at] = now]
      BY <2>3 DEF Finish
    <3> QED
      BY <1>2, <3>1 DEF RuleBounds
  <2> QED
    BY <2>1, <2>2, <2>3 DEF PassStep
<1> QED
  BY <1>1, <1>3, <1>4 DEF RuleBounds

\* Every other step: the clock, the levels, a restart.
LEMMA RuleBoundsNext ==
  ASSUME AutomationInv, RuleBounds, [AutomationNext]_automationVars
  PROVE  RuleBounds'
<1>1. CASE \E s \in Sources : Upsert(s)
  <2>1. PICK s \in Sources : Upsert(s)
    BY <1>1
  <2>2. PICK id \in RuleIds \cup {0} :
          IF SlotsOf(id) = {} THEN Insert(id, s) ELSE Replace(id, s)
    BY <2>1, IdsSent DEF Upsert
  <2> QED
    BY <2>2, EditsKeepBounds
<1>2. CASE \E id \in 1..MaxRuleIds : Delete(id)
  BY <1>2, EditsKeepBounds DEF RuleIds
<1>3. CASE PassStep
  BY <1>3, PassKeepsBounds
<1>4. CASE Tick
  BY <1>4, RuleBoundAssumption
  DEF Tick, RuleBounds, AutomationInv, PassInv, ruleVars, timeVars, passVars
<1>5. CASE \E s \in Sources : LevelChanges(s)
  BY <1>5 DEF LevelChanges, RuleBounds, ruleVars, timeVars, passVars
<1>6. CASE Restart
  <2>1. /\ nextId' = saved.nextId /\ saved' = saved
        /\ clock' = 1 /\ now' = 0 /\ \A i \in RuleSlots : last'[i] = 0
        /\ level' \in [Sources -> Levels]
    BY <1>6 DEF Restart, Zero, Levels
  <2>2. holds' \in [RuleSlots -> BOOLEAN]
    BY <1>6 DEF Restart
  <2>3. \A i \in RuleSlots : last'[i] <= now'
    BY <2>1
  <2> QED
    BY <2>1, <2>2, <2>3, RuleBoundAssumption DEF RuleBounds
<1>7. CASE UNCHANGED automationVars
  BY <1>7 DEF automationVars, ruleVars, timeVars, passVars, RuleBounds
<1> QED
  BY <1>1, <1>2, <1>3, <1>4, <1>5, <1>6, <1>7 DEF AutomationNext

\* The table never has more rules than slots, the pass is within its copy,
\* and no time of a slot is after the clock.
THEOREM AutomationTypeCorrect == AutomationSpec => []AutomationTypeOK
<1>1. AutomationInv /\ RuleBounds => AutomationTypeOK
  <2> SUFFICES ASSUME AutomationInv, RuleBounds PROVE AutomationTypeOK
    OBVIOUS
  <2>1. \A i \in 1..Len(rules) : rules[i] \in Rule
    <3>1. RuleOf(RuleIds) \subseteq Rule
      BY DEF RuleIds, RuleOf, Rule
    <3> QED
      BY <3>1, TableEntries DEF AutomationInv, IdsInv
  <2>2. now \in Nat /\ now <= MaxClock /\ MaxClock \in Nat
    BY RuleBoundAssumption DEF AutomationInv, PassInv, RuleBounds
  <2>3. since \in [RuleSlots -> 0..MaxClock]
    BY <2>2 DEF AutomationInv, HoldInv
  <2>4. last \in [RuleSlots -> 0..MaxClock]
    BY <2>2 DEF AutomationInv, CooldownInv, RuleBounds
  <2>5. nextId \in 1..(MaxRuleIds + 1)
    BY RuleBoundAssumption DEF AutomationInv, IdsInv, RuleBounds
  <2>6. Len(rules) <= MaxRules /\ at \in 0..Len(copy) /\ (firing => at # 0)
    BY DEF AutomationInv, IdsInv, PassInv
  <2> QED
    BY <2>1, <2>3, <2>4, <2>5, <2>6 DEF AutomationTypeOK, RuleBounds
<1>2. AutomationInv /\ RuleBounds /\ [AutomationNext]_automationVars
        => RuleBounds'
  BY RuleBoundsNext
<1> QED
  BY <1>1, <1>2, AutomationInvariant, RuleBoundsInit, PTL DEF AutomationSpec
-----------------------------------------------------------------------------
\* The buffers within their bounds, the watermarks behind what was logged,
\* the names of the rotated files in order.
LogFiles == [name : Nat, lines : Seq(LogEntries)]
Ascending(files) ==
  \A i \in 1..Len(files) - 1 : files[i].name < files[i + 1].name

LogBounds ==
  /\ Len(ring) <= RingSize /\ Len(pending) <= PendingMax
  /\ Len(writing) <= PendingMax
  /\ (writerStep = "rest") <=> (writing = <<>>)
  /\ \A e \in Buffered : e.up <= logged.up
  /\ flushed \in Nat /\ flushed <= logged.up
  /\ export.mark \in Nat /\ export.mark <= logged.up
  /\ activeFile \in Seq(LogEntries)
  /\ old \in Seq(LogFiles) /\ Ascending(old)

\* They hold when nothing is logged.
LEMMA LogBoundsInit == LogInit => LogBounds
<1> SUFFICES ASSUME LogInit PROVE LogBounds
  OBVIOUS
<1>1. /\ ring = <<>> /\ pending = <<>> /\ writing = <<>> /\ old = <<>>
      /\ activeFile = <<>> /\ flushed = 0 /\ logged.up = 0
      /\ writerStep = "rest" /\ export.mark = 0
  BY DEF LogInit, NoEntry, AtRest
<1>2. Lines(<<>>) = {}
  BY DEF Lines
<1>3. Buffered = {}
  BY <1>1, <1>2 DEF LogInit, Buffered, NoEntry
<1>4. Len(<<>>) = 0 /\ Ascending(<<>>)
  BY DEF Ascending
<1> QED
  BY <1>1, <1>3, <1>4, BuffersAssumption DEF LogBounds

\* Making room takes files from the front of the list.
LEMMA SparedIsTail ==
  ASSUME NEW s \in Seq(LogFiles), Ascending(s)
  PROVE  /\ Spared(s) \in Seq(LogFiles) /\ Ascending(Spared(s))
         /\ Spared(s) # <<>> =>
              /\ s # <<>>
              /\ Latest(Spared(s)).name = Latest(s).name
<1> DEFINE enough == {i \in 0..Len(s) :
                        OnCard(SubSeq(s, i + 1, Len(s))) <= CardMax}
           cut == IF enough = {} THEN Len(s)
                  ELSE CHOOSE i \in enough : \A j \in enough : i <= j
<1>1. Spared(s) = SubSeq(s, cut + 1, Len(s))
  BY DEF Spared
<1>2. cut \in 0..Len(s) /\ Len(s) \in Nat
  <2>1. /\ enough \subseteq Nat /\ enough \subseteq 0..Len(s)
        /\ Len(s) \in 0..Len(s) /\ Len(s) \in Nat
    OBVIOUS
  <2> HIDE DEF enough
  <2>2. CASE enough = {}
    BY <2>2
  <2>3. CASE enough # {}
    <3>1. \E i \in enough : \A j \in enough : i <= j
      BY <2>1, <2>3, LeastExists
    <3>2. (CHOOSE i \in enough : \A j \in enough : i <= j) \in enough
      BY <3>1
    <3>3. cut \in enough
      BY <2>3, <3>2
    <3> HIDE DEF cut
    <3> QED
      BY <2>1, <3>3
  <2> QED
    BY <2>2, <2>3
<1> HIDE DEF cut
<1>3. \A i \in 1..Len(s) : s[i] \in LogFiles
  OBVIOUS
<1>4. /\ Spared(s) \in Seq(LogFiles) /\ Len(Spared(s)) = Len(s) - cut
      /\ \A i \in 1..Len(Spared(s)) : Spared(s)[i] = s[cut + i]
  <2>1. \A i \in (cut + 1)..Len(s) : s[i] \in LogFiles
    BY <1>2, <1>3
  <2>2. /\ SubSeq(s, cut + 1, Len(s)) \in Seq(LogFiles)
        /\ Len(SubSeq(s, cut + 1, Len(s))) = Len(s) - cut
    BY <1>2, <2>1, SubSeqProperties
  <2>3. \A i \in 1..Len(s) - cut :
          SubSeq(s, cut + 1, Len(s))[i] = s[cut + i]
    BY <1>2, <2>1, SubSeqProperties
  <2> QED
    BY <1>1, <2>2, <2>3
<1>5. ASSUME NEW i \in 1..Len(Spared(s)) - 1
      PROVE  Spared(s)[i].name < Spared(s)[i + 1].name
  <2>1. /\ i \in 1..Len(Spared(s)) /\ i + 1 \in 1..Len(Spared(s))
        /\ cut + i \in 1..Len(s) - 1 /\ cut + (i + 1) = (cut + i) + 1
    BY <1>2, <1>4
  <2> QED
    BY <1>4, <2>1 DEF Ascending
<1>6. ASSUME Spared(s) # <<>>
      PROVE  s # <<>> /\ Latest(Spared(s)).name = Latest(s).name
  <2>1. Len(Spared(s)) \in 1..Len(Spared(s))
    BY <1>4, <1>6
  <2>2. cut + Len(Spared(s)) = Len(s) /\ s # <<>>
    BY <1>2, <1>4, <2>1
  <2> QED
    BY <1>4, <2>1, <2>2 DEF Latest
<1> QED
  BY <1>4, <1>5, <1>6 DEF Ascending

\* A file is rotated under a name above all others.
LEMMA RotatedAscends ==
  ASSUME NEW s \in Seq(LogFiles), Ascending(s), NEW l \in Seq(LogEntries)
  PROVE  LET t == Append(Spared(s), [name |-> NewName(s), lines |-> l])
         IN t \in Seq(LogFiles) /\ Ascending(t)
<1> DEFINE r == Spared(s)
           f == [name |-> NewName(s), lines |-> l]
           t == Append(r, f)
<1>1. /\ r \in Seq(LogFiles) /\ Ascending(r)
      /\ r # <<>> => s # <<>> /\ Latest(r).name = Latest(s).name
  BY SparedIsTail
<1>2. /\ NewName(s) \in Nat
      /\ s # <<>> => /\ NewName(s) = Latest(s).name + 1
                     /\ Latest(s).name \in Nat
  <2>1. ASSUME s # <<>> PROVE Latest(s) \in LogFiles
    <3>1. Len(s) \in 1..Len(s)
      BY <2>1
    <3> QED
      BY <3>1 DEF Latest
  <2> QED
    BY <2>1 DEF NewName, LogFiles
<1>3. f \in LogFiles /\ f.name = NewName(s)
  BY <1>2 DEF LogFiles
<1> HIDE DEF r, f
<1>4. /\ t \in Seq(LogFiles) /\ Len(t) = Len(r) + 1 /\ Len(r) \in Nat
      /\ \A i \in 1..Len(r) : t[i] = r[i]
      /\ t[Len(r) + 1] = f
  BY <1>1, <1>3, AppendProperties
<1> HIDE DEF t
<1>5. ASSUME NEW i \in 1..Len(t) - 1 PROVE t[i].name < t[i + 1].name
  <2>1. CASE i \in 1..Len(r) - 1
    <3>1. i \in 1..Len(r) /\ i + 1 \in 1..Len(r)
      BY <1>4, <2>1
    <3> QED
      BY <1>1, <1>4, <2>1, <3>1 DEF Ascending
  <2>2. CASE i = Len(r)
    <3>1. i \in 1..Len(r) /\ r # <<>> /\ t[i] = Latest(r)
      BY <1>1, <1>4, <2>2 DEF Latest
    <3>2. Latest(s).name \in Nat /\ Latest(r).name = Latest(s).name
      BY <1>1, <1>2, <3>1
    <3>3. t[i].name = Latest(s).name /\ t[i + 1].name = Latest(s).name + 1
      BY <1>1, <1>2, <1>3, <1>4, <2>2, <3>1, <3>2
    <3> QED
      BY <3>2, <3>3
  <2> QED
    BY <1>4, <2>1, <2>2
<1> QED
  BY <1>4, <1>5 DEF Ascending, t, r, f

\* Logging keeps the bounds.
LEMMA LoggersKeepBounds ==
  ASSUME KeptInv, LogBounds, NEW t \in Loggers, AddEntry(t) \/ AppendEntry(t)
  PROVE  LogBounds'
<1>1. CASE AddEntry(t)
  <2>1. /\ logged' \in LogEntries /\ logged.up <= logged'.up
        /\ logged \in LogEntries
    BY <1>1 DEF AddEntry, KeptInv, LogEntries
  <2>2. Len(ring') <= RingSize
    <3> DEFINE all == Append(ring, logged')
    <3>1. all \in Seq(LogEntries) /\ Len(all) = Len(ring) + 1
      BY <2>1 DEF KeptInv
    <3>2. all # <<>> /\ Len(Tail(all)) = Len(ring) /\ Len(ring) \in Nat
      <4>1. Len(ring) \in Nat
        BY DEF KeptInv
      <4> HIDE DEF all
      <4>2. all # <<>>
        BY <3>1, <4>1
      <4> QED
        BY <3>1, <4>1, <4>2
    <3>3. ring' = IF Len(all) > RingSize THEN Tail(all) ELSE all
      BY <1>1 DEF AddEntry
    <3> HIDE DEF all
    <3> QED
      BY <3>1, <3>2, <3>3, BuffersAssumption DEF LogBounds
  <2>3. Buffered' \subseteq Buffered \cup {logged'}
    BY <1>1 DEF AddEntry, Buffered, stream, KeptInv
  <2>4. \A e \in Buffered' : e.up <= logged'.up
    <3>1. \A e \in Buffered : e.up \in Nat /\ e.up <= logged.up
      BY DEF KeptInv, LogBounds, LogEntries
    <3> QED
      BY <2>1, <2>3, <3>1 DEF LogEntries
  <2>5. UNCHANGED <<pending, writing, writerStep, flushed, activeFile, old,
                    export>>
    BY <1>1 DEF AddEntry, stream, card, exporting
  <2> QED
    BY <2>1, <2>2, <2>4, <2>5 DEF LogBounds, LogEntries
<1>2. CASE AppendEntry(t)
  <2>1. UNCHANGED <<ring, logged, writing, writerStep, flushed, activeFile,
                    old, export>>
    BY <1>2 DEF AppendEntry, card, exporting
  <2>2. entry[t] \in LogEntries /\ entry[t] \in Buffered
    BY <1>2 DEF AppendEntry, KeptInv, Buffered
  <2>3. /\ Len(pending') <= PendingMax
        /\ Lines(pending') \subseteq Lines(pending) \cup {entry[t]}
    BY <1>2, <2>2, LinesOf, BuffersAssumption
    DEF AppendEntry, KeptInv, LogBounds
  <2>4. Buffered' \subseteq Buffered
    BY <1>2, <2>1, <2>2, <2>3 DEF AppendEntry, Buffered, KeptInv
  <2> QED
    BY <2>1, <2>3, <2>4 DEF LogBounds
<1> QED
  BY <1>1, <1>2

\* So does the writer, whatever it removes, renames or writes in part.
LEMMA WriterKeepsBounds ==
  ASSUME KeptInv, LogBounds,
         SwapBuffers \/ MakeRoom \/ WriteOut \/ CardWriteFails
  PROVE  LogBounds'
<1>1. UNCHANGED <<ring, logged, entry, export>>
  BY DEF SwapBuffers, MakeRoom, WriteOut, CardWriteFails, exporting
<1>2. Lines(<<>>) = {} /\ Len(<<>>) = 0
  BY DEF Lines
<1>3. CASE SwapBuffers
  <2>1. /\ pending # <<>> /\ writing = <<>> /\ writing' = pending
        /\ pending' = <<>> /\ writerStep' = "room"
        /\ UNCHANGED <<flushed, activeFile, old>>
    BY <1>3 DEF SwapBuffers, card
  <2>2. Buffered' \subseteq Buffered
    BY <1>1, <1>2, <2>1 DEF Buffered
  <2> QED
    BY <1>1, <1>2, <2>1, <2>2, BuffersAssumption DEF LogBounds
<1>4. CASE MakeRoom
  <2>1. /\ UNCHANGED <<pending, writing, flushed>>
        /\ writerStep # "rest" /\ writerStep' # "rest"
    BY <1>4 DEF MakeRoom
  <2>2. /\ old' \in Seq(LogFiles) /\ Ascending(old')
        /\ activeFile' \in Seq(LogEntries)
    <3>1. \/ /\ old' = Append(Spared(old), [name |-> NewName(old),
                                            lines |-> activeFile])
             /\ activeFile' = <<>>
          \/ old' = Spared(old) /\ activeFile' = activeFile
      BY <1>4 DEF MakeRoom
    <3>2. <<>> \in Seq(LogEntries)
      OBVIOUS
    <3>3. CASE old' = Spared(old) /\ activeFile' = activeFile
      BY <3>3, SparedIsTail DEF LogBounds
    <3>4. CASE /\ old' = Append(Spared(old), [name |-> NewName(old),
                                              lines |-> activeFile])
               /\ activeFile' = <<>>
      BY <3>2, <3>4, RotatedAscends DEF LogBounds
    <3> QED
      BY <3>1, <3>3, <3>4
  <2>3. Buffered' = Buffered
    BY <1>1, <2>1 DEF Buffered
  <2> QED
    BY <1>1, <2>1, <2>2, <2>3 DEF LogBounds
<1>5. CASE WriteOut \/ CardWriteFails
  <2>1. /\ UNCHANGED <<pending, old>> /\ writing' = <<>>
        /\ writerStep = "write" /\ writerStep' = "rest"
    BY <1>5 DEF WriteOut, CardWriteFails
  <2>2. Buffered' \subseteq Buffered
    BY <1>1, <1>2, <2>1 DEF Buffered
  <2>3. writing \in Seq(LogEntries) /\ writing # <<>>
    BY <2>1 DEF KeptInv, LogBounds
  <2>4. activeFile' \in Seq(LogEntries)
    <3>1. CASE WriteOut
      BY <2>3, <3>1 DEF WriteOut, LogBounds
    <3>2. CASE CardWriteFails
      <4>1. PICK k \in 0..(Len(writing) - 1) :
              activeFile' = activeFile \o SubSeq(writing, 1, k)
        BY <3>2 DEF CardWriteFails
      <4>2. SubSeq(writing, 1, k) \in Seq(LogEntries)
        <5>1. \A i \in 1..k : writing[i] \in LogEntries
          BY <2>3
        <5> QED
          BY <2>3, <5>1, SubSeqProperties
      <4> QED
        BY <4>1, <4>2 DEF LogBounds
    <3> QED
      BY <1>5, <3>1, <3>2
  <2>5. flushed' \in Nat /\ flushed' <= logged.up
    <3>1. Latest(writing) \in Lines(writing)
          /\ Latest(writing) \in LogEntries
      BY <2>3 DEF Latest, Lines
    <3>2. Latest(writing).up \in Nat /\ Latest(writing).up <= logged.up
      BY <3>1 DEF Buffered, LogBounds, LogEntries
    <3> QED
      BY <1>5, <3>2 DEF WriteOut, CardWriteFails, LogBounds
  <2> QED
    BY <1>1, <1>2, <2>1, <2>2, <2>4, <2>5, BuffersAssumption DEF LogBounds
<1> QED
  BY <1>3, <1>4, <1>5

\* An export changes its own state, and its mark is the watermark.
LEMMA ExportKeepsBounds ==
  ASSUME KeptInv, LogBounds,
         ExportBegins \/ ListFiles \/ ReadFile \/ ReadActive \/ SendTail
           \/ LeaveTailOut \/ ExportEnds
  PROVE  LogBounds'
<1>1. UNCHANGED <<ring, logged, entry, pending, writing, writerStep, flushed,
                  activeFile, old>>
  BY DEF ExportBegins, ListFiles, ReadFile, ReadActive, SendTail,
         LeaveTailOut, ExportEnds, Exporting, stream, card
<1>2. Buffered' = Buffered
  BY <1>1 DEF Buffered
<1>3. export'.mark \in {0, flushed, export.mark}
  <2>1. CASE ExportBegins \/ ExportEnds
    <3>1. \/ export' = [at |-> "list", mark |-> flushed, names |-> <<>>,
                        sent |-> {}]
          \/ export' = [at |-> "rest", mark |-> 0, names |-> <<>>,
                        sent |-> {}]
      BY <2>1 DEF ExportBegins, ExportEnds, AtRest
    <3> QED
      BY <3>1
  <2>2. CASE ListFiles \/ ReadFile \/ ReadActive \/ SendTail \/ LeaveTailOut
    BY <2>2 DEF ListFiles, ReadFile, ReadActive, SendTail, LeaveTailOut,
                Exporting, KeptInv
  <2> QED
    BY <2>1, <2>2
<1>4. export'.mark \in Nat /\ export'.mark <= logged.up
  BY <1>3 DEF KeptInv, LogBounds, LogEntries
<1> QED
  BY <1>1, <1>2, <1>4 DEF LogBounds

\* The ring and the two buffers never exceed the sizes of the code, the
\* writer's buffer is empty between its rounds, the names that
\* rotate_stream() gives ascend, and no export looks above what was logged.
THEOREM LogTypeCorrect == LogSpec => []LogTypeOK
<1>1. KeptInv /\ LogBounds /\ [LogNext]_logVars => LogBounds'
  <2> SUFFICES ASSUME KeptInv, LogBounds, [LogNext]_logVars PROVE LogBounds'
    OBVIOUS
  <2>1. CASE UNCHANGED logVars
    BY <2>1 DEF logVars, LogBounds, Buffered, stream, card, exporting
  <2> QED
    BY <2>1, LoggersKeepBounds, WriterKeepsBounds, ExportKeepsBounds
    DEF LogNext
<1>2. KeptInv /\ [LogNext]_logVars => KeptInv'
  BY KeptInvNext
<1>3. LogBounds => LogTypeOK
  BY DEF LogBounds, LogTypeOK, Ascending
<1> QED
  BY <1>1, <1>2, <1>3, LogBoundsInit, KeptInvInit, PTL DEF LogSpec

=============================================================================
