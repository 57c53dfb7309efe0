--------------------------- MODULE TrackedReplay ---------------------------
(***************************************************************************)
(* Replay of cached records to a custom MQTT platform:                     *)
(*   - replay_task (main/scheduler/scheduler.c) calls uif_replay_all()     *)
(*     (main/uif/uif_persistence.c), which peeks at the oldest record of   *)
(*     the offline store and publishes it with QoS 1;                      *)
(*   - mqtt_publish_tracked() (main/mqtt_comm/mqtt_handler.c) remembers    *)
(*     which message id carries which record in a table of slots;          *)
(*   - the MQTT task handles the PUBACK: it frees the slot and calls       *)
(*     replay_acknowledged(), which removes the record;                    *)
(*   - the main loop polls the connection every five seconds and tells UIF *)
(*     when it was lost.                                                   *)
(* The four run in tasks of their own and share s_replay_outstanding and   *)
(* s_replay_sequence without a lock, so every access is a step.            *)
(*                                                                         *)
(* The store is the queue of records that module OfflineStore implements,  *)
(* with a capacity; ESP-MQTT and the broker are external.                  *)
(***************************************************************************)
EXTENDS Integers, FiniteSets

CONSTANTS Seqs,       \* sequence identifiers
          Capacity,   \* records that the store holds
          Slots,      \* MQTT_MAX_TRACKED_PUBLISHES
          Ids,        \* message ids in use at a time
          MaxFaults   \* bound: losses, failures and overtaking PUBACKs

ASSUME SeqsAssumption == Seqs \subseteq Nat \ {0} /\ IsFiniteSet(Seqs)
ASSUME CapacityAssumption == Capacity \in Nat \ {0}
ASSUME SlotsAssumption == Slots \in Nat \ {0}
ASSUME IdsAssumption == Ids \subseteq Nat \ {0} /\ IsFiniteSet(Ids)
ASSUME MaxFaultsAssumption == MaxFaults \in Nat

None == 0

VARIABLES
  held,         \* the records of the offline store
  outstanding,  \* s_replay_outstanding
  rseq,         \* s_replay_sequence
  backoff,      \* s_replay_retry_after_ms lies in the future
  fresh,        \* the gateway booted less than 20 s ago
  rpc, cur, mid,    \* replay_task: where it is, its record, its message id
  tracked,          \* s_tracked: the active slots, message id and token
  apc, token,       \* the PUBACK handler: where it is, its token
  conn, stable,     \* s_conn_state, and connected for 10 s or more
  net,              \* s_network_state is NET_ONLINE
  outbox, acks,     \* external: unacknowledged messages, PUBACKs under way
  faults,           \* how often something went wrong
  handed, lost, late, removed, delivered  \* history, sets of records

uif     == <<outstanding, rseq, backoff, fresh>>
replay  == <<rpc, cur, mid>>
handler == <<tracked, apc, token>>
link    == <<conn, stable, net>>
wire    == <<outbox, acks>>
cache   == <<held, handed, lost, late, removed>>
vars    == <<uif, replay, handler, link, wire, cache, faults, delivered>>

Fault == faults < MaxFaults /\ faults' = faults + 1
-----------------------------------------------------------------------------
(***************************************************************************)
(* uif_cache_record() and mqtt_publish_task() store what could not be      *)
(* published; a full store gives up its oldest record.  Two tasks put, so  *)
(* sequence identifiers come in any order: `late' are those that arrive    *)
(* when a higher one is already on its way.                                *)
(***************************************************************************)
Oldest(S) == CHOOSE s \in S : \A t \in S : s <= t

OnItsWay == delivered \cup {p[2] : p \in outbox} \cup {cur}

Put(s) ==
  /\ s \notin handed
  /\ LET gone == IF Cardinality(held) >= Capacity THEN {Oldest(held)} ELSE {}
     IN /\ held' = (held \ gone) \cup {s}
        /\ lost' = lost \cup gone
  /\ handed' = handed \cup {s}
  /\ late' = IF \E t \in OnItsWay : s < t THEN late \cup {s} ELSE late
  /\ UNCHANGED <<uif, replay, handler, link, wire, faults, removed, delivered>>
-----------------------------------------------------------------------------
(***************************************************************************)
(* replay_task, every 500 ms: online, connected for ten seconds, something *)
(* cached; then uif_replay_all().                                          *)
(***************************************************************************)
MayReplay == rpc = "idle" /\ net /\ conn /\ stable /\ held # {}

\* The custom-platform branch never sets s_replay_sent_ms: once the gateway
\* is up for 20 s, an outstanding record times out at the next pass.
ReplayTimeout ==
  /\ MayReplay
  /\ outstanding
  /\ ~fresh
  /\ outstanding' = FALSE
  /\ backoff' = TRUE
  /\ UNCHANGED <<rseq, fresh, replay, handler, link, wire, cache, faults,
                 delivered>>

\* Mutant: the newest record is replayed first.
PeekNewest ==
  /\ MayReplay
  /\ ~outstanding
  /\ ~backoff
  /\ cur' = CHOOSE s \in held : \A t \in held : t <= s
  /\ rpc' = "peeked"
  /\ UNCHANGED <<mid, uif, handler, link, wire, cache, faults, delivered>>

\* offline_store_peek_oldest()
ReplayPeek ==
  /\ MayReplay
  /\ ~outstanding
  /\ ~backoff
  /\ cur' = Oldest(held)
  /\ rpc' = "peeked"
  /\ UNCHANGED <<mid, uif, handler, link, wire, cache, faults, delivered>>

ReplayMarkSequence ==
  /\ rpc = "peeked"
  /\ rseq' = cur
  /\ rpc' = "marked"
  /\ UNCHANGED <<outstanding, backoff, fresh, cur, mid, handler, link, wire,
                 cache, faults, delivered>>

ReplayMarkOutstanding ==
  /\ rpc = "marked"
  /\ outstanding' = TRUE
  /\ rpc' = "publish"
  /\ UNCHANGED <<rseq, backoff, fresh, cur, mid, handler, link, wire, cache,
                 faults, delivered>>

\* Message ids not carried by an unacknowledged message or an active slot: the
\* client counts through 65535 of them before it comes back to one.
FreeIds == Ids \ {p[1] : p \in outbox \cup tracked}

\* esp_mqtt_client_publish(): a QoS 1 message goes to the outbox, connected
\* or not.
ReplayPublish ==
  /\ rpc = "publish"
  /\ FreeIds # {}
  /\ mid' = CHOOSE m \in FreeIds : TRUE
  /\ outbox' = outbox \cup {<<mid', cur>>}
  /\ rpc' = "sent"
  /\ UNCHANGED <<cur, acks, uif, handler, link, cache, faults, delivered>>

\* It returns -1, and uif_replay_all() the error.
ReplayPublishFails ==
  /\ rpc = "publish"
  /\ Fault
  /\ outstanding' = FALSE
  /\ rpc' = "idle"
  /\ cur' = None
  /\ UNCHANGED <<rseq, backoff, fresh, mid, handler, link, wire, cache,
                 delivered>>

Returned == rpc' = "idle" /\ cur' = None /\ mid' = None

\* Mutant: a slot is taken without looking for a free one.
RegisterUnchecked ==
  /\ rpc = "sent"
  /\ tracked' = tracked \cup {<<mid, cur>>}
  /\ Returned
  /\ UNCHANGED <<uif, apc, token, link, wire, cache, faults, delivered>>

\* Mutant: the record is removed once it is published.
RegisterAndRemove ==
  /\ rpc = "sent"
  /\ Cardinality(tracked) < Slots
  /\ tracked' = tracked \cup {<<mid, cur>>}
  /\ held' = held \ {cur}
  /\ removed' = removed \cup ({cur} \cap held)
  /\ Returned
  /\ UNCHANGED <<uif, apc, token, link, wire, handed, lost, late, faults,
                 delivered>>

\* mqtt_publish_tracked() finds a free slot for the message it has sent ...
ReplayRegister ==
  /\ rpc = "sent"
  /\ Cardinality(tracked) < Slots
  /\ tracked' = tracked \cup {<<mid, cur>>}
  /\ Returned
  /\ UNCHANGED <<uif, apc, token, link, wire, cache, faults, delivered>>

\* ... or not, and returns ESP_ERR_NO_MEM for a message that was sent.
ReplayNoSlot ==
  /\ rpc = "sent"
  /\ Cardinality(tracked) >= Slots
  /\ outstanding' = FALSE
  /\ Returned
  /\ UNCHANGED <<rseq, backoff, fresh, handler, link, wire, cache, faults,
                 delivered>>
-----------------------------------------------------------------------------
(***************************************************************************)
(* MQTT_EVENT_PUBLISHED.  ESP-MQTT has taken the message off its outbox.   *)
(* A PUBACK handled before the publisher has registered its slot finds     *)
(* none; that counts as a fault.                                           *)
(***************************************************************************)
Overtakes(m) == rpc = "sent" /\ mid = m

Acknowledged(m) ==
  /\ apc = "idle"
  /\ conn
  /\ m \in acks
  /\ acks' = acks \ {m}
  /\ outbox' = {p \in outbox : p[1] # m}

\* Mutant: the slot stays active.
AckKeepingSlot(m) ==
  /\ Acknowledged(m)
  /\ \E p \in tracked : p[1] = m /\ token' = p[2]
  /\ apc' = "remove"
  /\ UNCHANGED <<uif, replay, tracked, link, cache, faults, delivered>>

AckSlot(m) ==
  /\ Acknowledged(m)
  /\ \E p \in tracked : /\ p[1] = m
                        /\ token' = p[2]
                        /\ tracked' = tracked \ {p}
  /\ apc' = "remove"
  /\ UNCHANGED <<uif, replay, link, cache, faults, delivered>>

AckUnknown(m) ==
  /\ Acknowledged(m)
  /\ \A p \in tracked : p[1] # m
  /\ IF Overtakes(m) THEN Fault ELSE UNCHANGED faults
  /\ UNCHANGED <<uif, replay, handler, link, cache, delivered>>

\* replay_acknowledged(): first the record ...
AckRemove ==
  /\ apc = "remove"
  /\ held' = held \ {token}
  /\ removed' = removed \cup ({token} \cap held)
  /\ apc' = "clear"
  /\ UNCHANGED <<uif, replay, tracked, token, link, wire, handed, lost, late,
                 faults, delivered>>

\* ... then the flags, if they are still about this record.
AckClear ==
  /\ apc = "clear"
  /\ IF rseq = token THEN outstanding' = FALSE /\ rseq' = None
                     ELSE UNCHANGED <<outstanding, rseq>>
  /\ apc' = "idle"
  /\ token' = None
  /\ UNCHANGED <<backoff, fresh, replay, tracked, link, wire, cache, faults,
                 delivered>>
-----------------------------------------------------------------------------
\* MQTT_EVENT_CONNECTED and MQTT_EVENT_DISCONNECTED, in the task that also
\* handles PUBACKs.  PUBACKs under way are gone with the connection.
Connected ==
  /\ apc = "idle"
  /\ ~conn
  /\ conn' = TRUE
  /\ UNCHANGED <<uif, replay, handler, stable, net, wire, cache, faults,
                 delivered>>

Disconnected ==
  /\ apc = "idle"
  /\ conn
  /\ Fault
  /\ conn' = FALSE
  /\ stable' = FALSE
  /\ acks' = {}
  /\ UNCHANGED <<uif, replay, handler, net, outbox, cache, delivered>>

\* Time passes: ten seconds of connection, 20 s since boot, the back-off.
Stabilised ==
  /\ conn
  /\ ~stable
  /\ stable' = TRUE
  /\ UNCHANGED <<uif, replay, handler, conn, net, wire, cache, faults,
                 delivered>>

BootAges ==
  /\ fresh
  /\ fresh' = FALSE
  /\ UNCHANGED <<outstanding, rseq, backoff, replay, handler, link, wire,
                 cache, faults, delivered>>

BackoffEnds ==
  /\ backoff
  /\ backoff' = FALSE
  /\ UNCHANGED <<outstanding, rseq, fresh, replay, handler, link, wire, cache,
                 faults, delivered>>

\* The main loop compares the connection with what it saw five seconds ago;
\* scheduler_set_network_state() calls uif_replay_connection_lost().
NetworkPoll ==
  /\ net' = conn
  /\ IF net /\ ~conn THEN outstanding' = FALSE /\ rseq' = None
                     ELSE UNCHANGED <<outstanding, rseq>>
  /\ UNCHANGED <<backoff, fresh, replay, handler, conn, stable, wire, cache,
                 faults, delivered>>

\* A reset: only the store survives.
PowerCut ==
  /\ Fault
  /\ outstanding' = FALSE /\ rseq' = None /\ backoff' = FALSE /\ fresh' = TRUE
  /\ Returned
  /\ tracked' = {} /\ apc' = "idle" /\ token' = None
  /\ conn' = FALSE /\ stable' = FALSE /\ net' = FALSE
  /\ outbox' = {} /\ acks' = {}
  /\ UNCHANGED <<cache, delivered>>
-----------------------------------------------------------------------------
\* External: the broker receives a message, perhaps again, and answers.
Deliver(m) ==
  /\ conn
  /\ m \notin acks
  /\ \E p \in outbox : p[1] = m /\ delivered' = delivered \cup {p[2]}
  /\ acks' = acks \cup {m}
  /\ UNCHANGED <<uif, replay, handler, link, outbox, cache, faults>>

\* External: ESP-MQTT gives up a message that is not acknowledged in 30 s.
Expire(m) ==
  /\ \E p \in outbox : p[1] = m
  /\ Fault
  /\ outbox' = {p \in outbox : p[1] # m}
  /\ acks' = acks \ {m}
  /\ UNCHANGED <<uif, replay, handler, link, cache, delivered>>
-----------------------------------------------------------------------------
Init ==
  /\ held = {} /\ handed = {} /\ lost = {} /\ late = {} /\ removed = {}
  /\ outstanding = FALSE /\ rseq = None /\ backoff = FALSE /\ fresh = TRUE
  /\ rpc = "idle" /\ cur = None /\ mid = None
  /\ tracked = {} /\ apc = "idle" /\ token = None
  /\ conn = FALSE /\ stable = FALSE /\ net = FALSE
  /\ outbox = {} /\ acks = {}
  /\ faults = 0
  /\ delivered = {}

ReplayStep ==
  \/ ReplayTimeout \/ ReplayPeek \/ ReplayMarkSequence
  \/ ReplayMarkOutstanding \/ ReplayPublish \/ ReplayRegister \/ ReplayNoSlot

HandlerStep ==
  \/ \E m \in Ids : AckSlot(m) \/ AckUnknown(m)
  \/ AckRemove \/ AckClear
  \/ Connected

Next ==
  \/ \E s \in Seqs : Put(s)
  \/ ReplayStep
  \/ ReplayPublishFails
  \/ HandlerStep
  \/ Disconnected
  \/ Stabilised \/ BootAges \/ BackoffEnds
  \/ NetworkPoll
  \/ PowerCut
  \/ \E m \in Ids : Deliver(m) \/ Expire(m)

Spec == Init /\ [][Next]_vars

(***************************************************************************)
(* Fairness: the tasks run, time passes, the broker can be reached again   *)
(* and answers.  Nothing is asked of faults.                               *)
(***************************************************************************)
Fairness ==
  /\ WF_vars(ReplayStep)
  /\ WF_vars(AckRemove \/ AckClear)
  /\ WF_vars(Connected)
  /\ WF_vars(Stabilised)
  /\ WF_vars(BootAges)
  /\ WF_vars(BackoffEnds)
  /\ WF_vars(NetworkPoll)
  /\ \A m \in Ids : /\ WF_vars(Deliver(m))
                    /\ WF_vars(AckSlot(m) \/ AckUnknown(m))

FairSpec == Spec /\ Fairness
-----------------------------------------------------------------------------
\* Type invariant.  The slots never outnumber the table.
TypeOK ==
  /\ {held, handed, lost, late, removed, delivered} \subseteq SUBSET Seqs
  /\ {outstanding, backoff, fresh, conn, stable, net} \subseteq BOOLEAN
  /\ {rseq, cur, token} \subseteq Seqs \cup {None}
  /\ rpc \in {"idle", "peeked", "marked", "publish", "sent"}
  /\ mid \in Ids \cup {None}
  /\ tracked \subseteq Ids \X Seqs
  /\ Cardinality(tracked) <= Slots
  /\ apc \in {"idle", "remove", "clear"}
  /\ outbox \subseteq Ids \X Seqs
  /\ acks \subseteq Ids
  /\ faults \in 0..MaxFaults

(***************************************************************************)
(* A record leaves the store on an acknowledgement only if the broker has  *)
(* received it, whatever duplicates, late PUBACKs, evictions, reconnects   *)
(* and resets there were.                                                  *)
(***************************************************************************)
RemovedOnlyIfDelivered == removed \subseteq delivered

(***************************************************************************)
(* Records arrive at the broker in sequence: none overtakes a lower one    *)
(* that was stored before it was sent, unless the store gave it up.        *)
(***************************************************************************)
ReplayedInSequence ==
  \A s \in delivered, t \in handed :
    t < s => t \in delivered \cup lost \cup late

(***************************************************************************)
(* Every cached record is eventually sent and acknowledged or given up, in *)
(* spite of MaxFaults faults.  It holds only as long as the table has more *)
(* slots than there are faults: a message that expires, a PUBACK that      *)
(* overtakes its registration keep their slot until the next reset.        *)
(***************************************************************************)
CacheDrains == \A s \in Seqs : s \in held ~> s \notin held
=============================================================================
