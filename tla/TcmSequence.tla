---------------------------- MODULE TcmSequence ----------------------------
(***************************************************************************)
(* The source of TCM sequence identifiers (main/tcm/tcm_context.c).        *)
(*                                                                         *)
(* Every TCM context carries a sequence_id, the key under which UIF stores *)
(* and replays it, so an identifier must never be issued twice, not even   *)
(* after a power cut.  The code writes NVS once per Reservation            *)
(* identifiers: the NVS cell holds an upper bound of what may have been    *)
(* issued, and a boot continues above that bound.                          *)
(*                                                                         *)
(* next_sequence() and tcm_init() run under a mutex, but a power cut can   *)
(* fall between any two of their statements; `pc' is the statement the     *)
(* power cut would fall before.                                            *)
(***************************************************************************)
EXTENDS Naturals

CONSTANTS Reservation,   \* TCM_SEQUENCE_RESERVATION
          MaxSequence    \* bound of the model: no identifier above it is issued

ASSUME ReservationAssumption == Reservation \in Nat \ {0}
ASSUME BoundAssumption == MaxSequence \in Nat

VARIABLES nvs,         \* the seq_reserved cell of NVS namespace tcm_state
          counter,     \* s_sequence_counter
          reservedTo,  \* s_sequence_reserved_to
          pc,          \* "off", "boot", "ready" or "reserved"
          issued,      \* history: every identifier ever handed to a context
          stale,       \* history: the latest persist_sequence() failed
          tainted      \* history: a reset happened while stale, or NVS was lost

tcmVars == <<nvs, counter, reservedTo, pc, issued, stale, tainted>>

Phases == {"off", "boot", "ready", "reserved"}

\* A gateway leaves the factory with no seq_reserved key, which reads as 0.
TcmInit ==
  /\ nvs = 0
  /\ counter = 0
  /\ reservedTo = 0
  /\ pc = "off"
  /\ issued = {}
  /\ stale = FALSE
  /\ tainted = FALSE

(***************************************************************************)
(* persist_sequence(): its errors are ignored, so NVS keeps the old value  *)
(* and the caller carries on.                                              *)
(***************************************************************************)
PersistOk(value) == nvs' = value /\ stale' = FALSE

PersistFails == UNCHANGED nvs /\ stale' = TRUE

\* Mutant: the bound in NVS is taken for the next identifier to hand out.
BootOneBelow ==
  /\ pc = "off"
  /\ nvs + Reservation <= MaxSequence
  /\ counter' = nvs - 1
  /\ reservedTo' = nvs + Reservation
  /\ pc' = "boot"
  /\ UNCHANGED <<nvs, issued, stale, tainted>>

(***************************************************************************)
(* tcm_init() up to its call of persist_sequence().  init_nvs() may have   *)
(* erased the NVS partition before, and an NVS that cannot be opened or    *)
(* read counts as 0: either way identifiers start over.                    *)
(***************************************************************************)
Boot ==
  /\ pc = "off"
  /\ \E kept \in {nvs, 0} : \E reserved \in {kept, 0} :
       /\ reserved + Reservation <= MaxSequence
       /\ nvs' = kept
       /\ counter' = reserved
       /\ reservedTo' = reserved + Reservation
       /\ tainted' = (tainted \/ reserved # nvs)
  /\ pc' = "boot"
  /\ UNCHANGED <<issued, stale>>

\* Mutant: tcm_init() that leaves the reservation it makes in RAM.
BootWithoutPersist ==
  /\ pc = "boot"
  /\ pc' = "ready"
  /\ UNCHANGED <<nvs, counter, reservedTo, issued, stale, tainted>>

\* The persist_sequence() of tcm_init(), after which contexts can be built.
BootPersist ==
  /\ pc = "boot"
  /\ PersistOk(reservedTo) \/ PersistFails
  /\ pc' = "ready"
  /\ UNCHANGED <<counter, reservedTo, issued, tainted>>

\* Mutant: the reservation in NVS lags one block behind the one in RAM.
ReserveOldBound ==
  /\ pc = "ready"
  /\ counter >= reservedTo
  /\ reservedTo + Reservation <= MaxSequence
  /\ reservedTo' = reservedTo + Reservation
  /\ PersistOk(reservedTo) \/ PersistFails
  /\ pc' = "reserved"
  /\ UNCHANGED <<counter, issued, tainted>>

\* next_sequence() with the reservation used up: extend it and write it out.
Reserve ==
  /\ pc = "ready"
  /\ counter >= reservedTo
  /\ reservedTo + Reservation <= MaxSequence
  /\ reservedTo' = reservedTo + Reservation
  /\ PersistOk(reservedTo + Reservation) \/ PersistFails
  /\ pc' = "reserved"
  /\ UNCHANGED <<counter, issued, tainted>>

\* next_sequence() handing out an identifier inside the reservation.
Issue ==
  /\ pc = "reserved" \/ (pc = "ready" /\ counter < reservedTo)
  /\ counter' = counter + 1
  /\ issued' = issued \cup {counter + 1}
  /\ pc' = "ready"
  /\ UNCHANGED <<nvs, reservedTo, stale, tainted>>

\* A power cut or watchdog reset: the RAM state is gone, NVS stays.
TcmPowerCut ==
  /\ pc # "off"
  /\ pc' = "off"
  /\ counter' = 0
  /\ reservedTo' = 0
  /\ stale' = FALSE
  /\ tainted' = (tainted \/ stale)
  /\ UNCHANGED <<nvs, issued>>

TcmNext == Boot \/ BootPersist \/ Reserve \/ Issue \/ TcmPowerCut

TcmSpec == TcmInit /\ [][TcmNext]_tcmVars
----------------------------------------------------------------------------
(* Type invariant: the counters are naturals and pc is a known statement.  *)
TcmTypeOK ==
  /\ nvs \in Nat
  /\ counter \in Nat
  /\ reservedTo \in Nat
  /\ pc \in Phases
  /\ issued \subseteq Nat
  /\ stale \in BOOLEAN
  /\ tainted \in BOOLEAN

(***************************************************************************)
(* next_sequence() hands out identifiers in ascending order, across any    *)
(* number of resets at any statement, unless a reset followed an NVS write *)
(* that failed or NVS was erased or unreadable at a boot: UIF files,   *)
(* replay order and the removal by sequence_id all rest on this.           *)
(***************************************************************************)
AscendingIssue ==
  [][Issue /\ ~tainted => \A id \in issued : id < counter']_tcmVars

(***************************************************************************)
(* At every instant at which power could fail, the value in NVS is at      *)
(* least every identifier handed out, so that the next tcm_init() starts   *)
(* above all of them (while the latest NVS write succeeded).               *)
(***************************************************************************)
ReservationCoversIssued ==
  ~tainted /\ ~stale => \A id \in issued : id <= nvs

(***************************************************************************)
(* The inductive strengthening of both: in RAM the counter stays within    *)
(* the reservation and above everything issued, and NVS is the             *)
(* reservation itself once the latest write succeeded.                     *)
(***************************************************************************)
SeqInv ==
  /\ TcmTypeOK
  /\ ReservationCoversIssued
  /\ pc = "off" => ~stale
  /\ pc = "boot" => ~stale /\ reservedTo = counter + Reservation
  /\ pc = "boot" /\ ~tainted => counter = nvs
  /\ pc \in {"ready", "reserved"} => counter <= reservedTo
  /\ pc \in {"ready", "reserved"} /\ ~stale => nvs = reservedTo
  /\ pc = "reserved" => counter < reservedTo
  /\ pc # "off" /\ ~tainted => \A id \in issued : id <= counter
============================================================================
