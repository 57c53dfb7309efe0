--------------------------- MODULE RuntimeConfig ---------------------------
(***************************************************************************)
(* The runtime configuration of config/runtime_config.c: the copy in RAM   *)
(* that every task reads, two NVS slots written in turn, the flag that     *)
(* names the slot last completed, and the start-up that picks a slot by    *)
(* generation or migrates the store of an older firmware.                  *)
(*                                                                         *)
(* A configuration is one value.  An older layout lacks fields, which its  *)
(* migration sets to their defaults; it therefore stores the value that    *)
(* has the defaults there, and migrating keeps the value.  s_mutex is held *)
(* across a whole runtime_config_set(), so no task sees it half done; only *)
(* a reset does.                                                           *)
(*                                                                         *)
(* Not modelled: an NVS read that fails at start-up although the slot is   *)
(* good, the wrap of the 32-bit generation, and a migrated configuration   *)
(* that no longer passes runtime_config_validate().                        *)
(***************************************************************************)
EXTENDS Integers

CONSTANTS
  Configs,        \* configurations that pass runtime_config_validate()
  Default,        \* the one load_defaults() builds
  Off,            \* not a configuration: see ConfigRegister
  Faults,         \* the ways save_locked() may return an error
  MaxGeneration   \* bound: saves stop at this generation

Slots == {"A", "B"}    \* runtime_a and runtime_b

\* How far a save gets before it fails or loses power.
\*   none     nothing was written
\*   corrupt  the target slot no longer holds a valid configuration
\*   blob     the target slot is written, the flag still names the other
\*   flagged  the flag is moved too, and the second commit reports an error
\*            (as a fault; a power cut can always come at this point)
Stages == {"none", "corrupt", "blob", "flagged"}

\* What a slot or key holds: nothing valid, one of the older layouts, or the
\* current one.
Layouts == {"none", "v1", "v2", "v3", "now"}

\* A record of an older layout stands for the configuration its migration
\* makes of it: its settings, and defaults for the fields it has not.
Stored == [layout : Layouts, gen : Nat, cfg : Configs]

\* A slot or key that is absent or fails its checks.
Blank == [layout |-> "none", gen |-> 0, cfg |-> Default]

FoundGeneration == 2   \* bound: the newest generation of an older firmware

ASSUME ConfigAssumption ==
  /\ Default \in Configs
  /\ Off \notin Configs
  /\ Faults \subseteq Stages
  /\ MaxGeneration \in Nat

VARIABLES
  slots,       \* NVS blobs runtime_a and runtime_b
  active,      \* NVS flag runtime_active
  legacy,      \* NVS blob runtime, layout v1; never written nor erased
  up,          \* runtime_config_init() has returned ESP_OK
  ram,         \* s_config
  generation,  \* s_generation
  origin,      \* history: where ram came from
  newest,      \* history: what the older firmware last ran with
  may          \* history: what a restart may come up with

store == <<slots, active, legacy>>
configVars == <<slots, active, legacy, up, ram, generation, origin, newest,
                may>>

Origins == {"none", "stored", "migrated", "defaults", "set"}

ConfigTypeOK ==
  /\ slots \in [Slots -> Stored]
  /\ active \in Slots
  /\ legacy \in Stored /\ legacy.layout \in {"none", "v1"}
  /\ up \in BOOLEAN
  /\ ram \in Configs
  /\ generation \in Nat
  /\ origin \in Origins
  /\ newest \in Configs
  /\ may \subseteq Configs
-----------------------------------------------------------------------------
(***************************************************************************)
(* Start-up: which stored configuration runtime_config_init() selects.     *)
(***************************************************************************)
Holding(n, layout) == {s \in Slots : n[s].layout = layout}

FirstOf(S) == IF "A" \in S THEN "A" ELSE "B"

\* Mutant: the comparison of the generations is turned round.
OlderSlot(n) ==
  IF "B" \in Holding(n, "now")
     /\ ("A" \notin Holding(n, "now") \/ n["B"].gen < n["A"].gen)
  THEN "B" ELSE "A"

\* valid_b && (!valid_a || slots[1].generation > slots[0].generation)
Newer(n) ==
  IF "B" \in Holding(n, "now")
     /\ ("A" \notin Holding(n, "now") \/ n["B"].gen > n["A"].gen)
  THEN "B" ELSE "A"

\* A current slot by generation; else the first slot of layout v2, the first
\* of layout v3, the blob of layout v1; else the defaults.
Selected(n, old) ==
  IF Holding(n, "now") # {} THEN n[Newer(n)]
  ELSE IF Holding(n, "v2") # {} THEN n[FirstOf(Holding(n, "v2"))]
  ELSE IF Holding(n, "v3") # {} THEN n[FirstOf(Holding(n, "v3"))]
  ELSE old

-----------------------------------------------------------------------------
(***************************************************************************)
(* save_locked(): write the slot the flag does not name, read it back,     *)
(* then move the flag.                                                     *)
(***************************************************************************)
Other(s) == IF s = "A" THEN "B" ELSE "A"

\* Mutant: the save overwrites the slot in use.
SameTarget == active

Target == Other(active)

\* Mutant: the generation is counted down.
WrittenBehind(how, c, g) ==
  IF how = "none" THEN slots
  ELSE IF how = "corrupt" THEN [slots EXCEPT ![Target] = Blank]
  ELSE [slots EXCEPT ![Target] = [layout |-> "now", gen |-> g - 1, cfg |-> c]]

Written(how, c, g) ==
  IF how = "none" THEN slots
  ELSE IF how = "corrupt" THEN [slots EXCEPT ![Target] = Blank]
  ELSE [slots EXCEPT ![Target] = [layout |-> "now", gen |-> g + 1, cfg |-> c]]

SaveLocked(how, c, g) ==
  /\ slots' = Written(how, c, g)
  /\ active' = IF how \in {"flagged", "ok"} THEN Target ELSE active
  /\ UNCHANGED legacy

\* History: a save that got as far as its slot can be found by a restart.
MayFind(how, c) == IF how \in {"blob", "flagged"} THEN may \cup {c} ELSE may

-----------------------------------------------------------------------------
\* The store of a gateway that never saved, or only with the first firmware.
FoundEmptyOrV1 ==
  /\ slots = [s \in Slots |-> Blank]
  /\ active = "A"
  /\ legacy \in {Blank} \cup [layout : {"v1"}, gen : {0}, cfg : Configs]
  /\ newest = legacy.cfg
  /\ may = {legacy.cfg}

\* The store of an older firmware that wrote the slots in turn: the slot the
\* flag names is the newest; when that is a migration, the other is its source.
FoundOlder ==
  \E live \in [layout : {"v2", "v3"}, gen : {FoundGeneration}, cfg : Configs] :
  \E prev \in [layout : {"v2", "v3"}, gen : {FoundGeneration - 1}, cfg : Configs]
              \cup {Blank} :
    /\ prev.layout = "v3" => live.layout = "v3"
    /\ prev.layout = "v2" /\ live.layout = "v3" => prev.cfg = live.cfg
    /\ active \in Slots
    /\ slots = [s \in Slots |-> IF s = active THEN live ELSE prev]
    /\ legacy \in {Blank} \cup [layout : {"v1"}, gen : {0}, cfg : Configs]
    /\ newest = live.cfg
    /\ may = {live.cfg} \cup (IF prev = Blank THEN {} ELSE {prev.cfg})

ConfigInit ==
  /\ FoundEmptyOrV1 \/ FoundOlder
  /\ up = FALSE
  /\ ram = Default
  /\ generation = 0
  /\ origin = "none"

\* runtime_config_init() finds a current slot.
BootLoads ==
  LET found == Selected(slots, legacy) IN
  /\ ~up
  /\ found.layout = "now"
  /\ up' = TRUE
  /\ ram' = found.cfg
  /\ generation' = found.gen
  /\ origin' = "stored"
  /\ UNCHANGED <<store, newest, may>>

\* It finds an older layout, or nothing, and saves what it makes of it.
BootSaves ==
  LET found == Selected(slots, legacy) IN
  /\ ~up
  /\ found.layout # "now"
  /\ SaveLocked("ok", found.cfg, found.gen)
  /\ up' = TRUE
  /\ ram' = found.cfg
  /\ generation' = found.gen + 1
  /\ origin' = IF found.layout = "none" THEN "defaults" ELSE "migrated"
  /\ may' = {found.cfg}
  /\ UNCHANGED newest

\* That save fails: ESP_ERROR_CHECK() restarts the gateway.  Or the power goes.
BootAborts(how) ==
  LET found == Selected(slots, legacy) IN
  /\ ~up
  /\ found.layout # "now"
  /\ SaveLocked(how, found.cfg, found.gen)
  /\ UNCHANGED <<up, ram, generation, origin, newest, may>>

\* runtime_config_set(), runtime_config_reset() with c = Default.
SaveSucceeds(c) ==
  /\ up
  /\ generation < MaxGeneration
  /\ SaveLocked("ok", c, generation)
  /\ ram' = c
  /\ generation' = generation + 1
  /\ origin' = "set"
  /\ may' = {c}
  /\ UNCHANGED <<up, newest>>

\* runtime_config_set() restores s_config when the save fails.
SetFails(c, how) ==
  /\ up
  /\ generation < MaxGeneration
  /\ SaveLocked(how, c, generation)
  /\ may' = MayFind(how, c)
  /\ UNCHANGED <<up, ram, generation, origin, newest>>

\* runtime_config_reset() does not.
ResetFails(how) ==
  /\ up
  /\ generation < MaxGeneration
  /\ SaveLocked(how, Default, generation)
  /\ ram' = Default
  /\ origin' = "set"
  /\ may' = MayFind(how, Default)
  /\ UNCHANGED <<up, generation, newest>>

\* The power goes, at rest ("none") or inside a save of c.
PowerCut(c, how) ==
  /\ up
  /\ how = "none" \/ generation < MaxGeneration
  /\ SaveLocked(how, c, generation)
  /\ up' = FALSE
  /\ ram' = Default
  /\ generation' = 0
  /\ origin' = "none"
  /\ may' = MayFind(how, c)
  /\ UNCHANGED newest

ConfigNext ==
  \/ BootLoads
  \/ BootSaves
  \/ \E how \in Stages : BootAborts(how)
  \/ \E c \in Configs : SaveSucceeds(c)
  \/ \E c \in Configs, how \in Faults : SetFails(c, how)
  \/ \E how \in Faults : ResetFails(how)
  \/ \E c \in Configs, how \in Stages : PowerCut(c, how)

ConfigSpec == ConfigInit /\ [][ConfigNext]_configVars
-----------------------------------------------------------------------------
(***************************************************************************)
(* Properties                                                              *)
(***************************************************************************)
\* Whatever save or power cut comes next, a restart finds the configuration
\* acknowledged last, or one whose save was begun later: acknowledged
\* configurations are never lost and older ones never return
\* (save_locked(), runtime_config_init()).
Recoverable == Selected(slots, legacy).cfg \in may

\* The configuration in effect behaves as a register that restarts keep:
\* save_locked() and the selection at start-up implement ConfigRegister.
Register == INSTANCE ConfigRegister WITH
  running <- IF up THEN ram ELSE Off

RegisterSpec == Register!Spec

\* "Preserves every existing setting": a migration brings up what the older
\* firmware ran with (runtime_config_init(), migrate_v2_to_v3(),
\* migrate_v3_to_current()).
UpgradeKeepsSettings == origin = "migrated" => ram = newest

(***************************************************************************)
(* The inductive strengthening of Recoverable: a save writes only the slot *)
(* the flag does not name, so what a restart finds without that slot must  *)
(* be acceptable too, and the slot the flag names is never ahead of        *)
(* s_generation, or the next save would not outrank it.                    *)
(***************************************************************************)
Fallback == Selected([slots EXCEPT ![Target] = Blank], legacy)

FallbackRecoverable == Fallback.cfg \in may

FlagNotAhead ==
  up /\ slots[active].layout = "now" => slots[active].gen <= generation

ConfigInv == ConfigTypeOK /\ Recoverable /\ FallbackRecoverable /\ FlagNotAhead
=============================================================================
