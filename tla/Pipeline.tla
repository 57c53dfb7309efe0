------------------------------ MODULE Pipeline ------------------------------
(***************************************************************************)
(* The way of a reading through the gateway (main/scheduler/scheduler.c,   *)
(* main/main.c, main/tcm/tcm_state_pool.c).  Five tasks hand it on over    *)
(* four bounded FreeRTOS queues:                                           *)
(*                                                                         *)
(*   modbus_poll -raw-> ctx_build -context-> publish -out-> mqtt_out       *)
(*                                              \-cache-> cache_writer     *)
(*                                                                         *)
(* A task holds one item at a time; a full queue makes it wait for a set   *)
(* time and then give the item up.  A reading is [n, p, good]: its place   *)
(* in the order of polling, its point, and whether the poll succeeded.     *)
(* tcm_build_context() numbers contexts in the order in which they are     *)
(* built, which is the order of n.                                         *)
(*                                                                         *)
(* The offline store is a set here (module OfflineStore has it in detail), *)
(* the platforms' answers belong to TrackedReplay and CloudReplay, and     *)
(* eval_increment_metric() gets its mutex within its 50 ms.                *)
(***************************************************************************)
EXTENDS Integers, Sequences, FiniteSets

CONSTANTS Points,       \* points that are or were mapped
          UnfitPoints,  \* those whose contexts tcm_validate() refuses
          PoolCap,      \* s_capacity of the state pool
          RawCap, ContextCap, OutCap, CacheCap,  \* queue lengths
          MaxReadings,  \* bound: polls
          MaxUpsets     \* bound: connection and configuration changes,
                        \* refused publishes and failing writes

ASSUME PipelineAssumption ==
  /\ Points # {} /\ PoolCap \in Nat \ {0}
  /\ {RawCap, ContextCap, OutCap, CacheCap} \subseteq Nat
  /\ MaxReadings \in Nat /\ MaxUpsets \in Nat

Hands     == {"poll", "build", "publish", "out", "cache"}
Queues    == {"raw", "context", "out", "cache"}
Platforms == {"none", "custom", "cloud"}
Routes    == {"none", "wait", "mqtt", "cloud", "cache"}
Nobody    == [n |-> 0, p |-> CHOOSE p \in Points : TRUE, good |-> FALSE]

VARIABLES
  polled,      \* readings taken
  hand,        \* per task: the item it holds, or Nobody
  queue,       \* per queue: its items, oldest first
  route,       \* publish_task: what it decided for its item
  linked,      \* mqtt_is_connected()
  platform,    \* the configured platform; "none": not configured
  pool,        \* s_states: the last context of a point, or Nobody
  loss,        \* data_loss_count
  failed,      \* mqtt_failed
  cached,      \* readings handed to the offline store and kept
  published,   \* readings that mqtt_out handed to the MQTT client
  clouded,     \* readings that the ThingsCloud adapter took
  kept,        \* readings that stop here by design: rejected, or local only
  upsets

pipelineVars == <<polled, hand, queue, route, linked, platform, pool, loss,
                  failed, cached, published, clouded, kept, upsets>>

Busy(t)  == hand[t] # Nobody
Upset    == upsets < MaxUpsets /\ upsets' = upsets + 1
CapOf    == [raw |-> RawCap, context |-> ContextCap, out |-> OutCap,
             cache |-> CacheCap]
Full(q)  == Len(queue[q]) >= CapOf[q]

PipelineInit ==
  /\ polled = 0
  /\ hand = [t \in Hands |-> Nobody]
  /\ queue = [q \in Queues |-> <<>>]
  /\ route = "none"
  /\ linked = FALSE /\ platform = "custom"
  /\ pool = [p \in Points |-> Nobody]
  /\ loss = 0 /\ failed = 0
  /\ cached = {} /\ published = {} /\ clouded = {} /\ kept = {}
  /\ upsets = 0
-----------------------------------------------------------------------------
(***************************************************************************)
(* The state pool.  A point has one slot; a new point takes a free slot,   *)
(* or that of the entry with the lowest time stamp.  modbus_poll stamps a  *)
(* failure with the uptime, tcm_build_context() a reading with the wall    *)
(* clock, so the entries of failing points go first.                       *)
(***************************************************************************)
Stamp(r)   == IF r.good THEN MaxReadings + r.n ELSE r.n
Pooled     == {p \in Points : pool[p] # Nobody}
OldestSlot == CHOOSE p \in Pooled :
                \A o \in Pooled : Stamp(pool[p]) <= Stamp(pool[o])

(* Mutant: a new point takes a slot beyond the last one. *)
PoolUpdateBeyond(r) == pool' = [pool EXCEPT ![r.p] = r]

PoolUpdate(r) ==
  LET gone == IF r.p \in Pooled \/ Cardinality(Pooled) < PoolCap
              THEN {} ELSE {OldestSlot}
  IN pool' = [p \in Points |-> IF p = r.p THEN r
                               ELSE IF p \in gone THEN Nobody ELSE pool[p]]

\* tcm_state_pool_clear(): the mapping table was reset over the web
PoolClear ==
  /\ Upset
  /\ pool' = [p \in Points |-> Nobody]
  /\ UNCHANGED <<polled, hand, queue, route, linked, platform, loss, failed,
                 cached, published, clouded, kept>>
-----------------------------------------------------------------------------
(* Mutants: a queue read from the wrong end, an uncounted loss, mqtt_out
   waiting for the connection. *)
TakeNewest(q, t) ==
  /\ ~Busy(t) /\ queue[q] # <<>>
  /\ hand' = [hand EXCEPT ![t] = queue[q][Len(queue[q])]]
  /\ queue' = [queue EXCEPT ![q] = SubSeq(@, 1, Len(@) - 1)]

GiveUpSilently(t) ==
  /\ hand' = [hand EXCEPT ![t] = Nobody]
  /\ UNCHANGED loss

OutStoreConnected ==
  /\ Busy("out") /\ linked /\ Upset
  /\ cached' = cached \cup {hand["out"].n}
  /\ failed' = failed + 1
  /\ hand' = [hand EXCEPT !["out"] = Nobody]
  /\ UNCHANGED <<polled, queue, route, linked, platform, pool, loss,
                 published, clouded, kept>>

(* What a task does with its item: pass it on, or give it up. *)
Pass(t, q) ==
  /\ queue' = [queue EXCEPT ![q] = Append(@, hand[t])]
  /\ hand' = [hand EXCEPT ![t] = Nobody]

GiveUp(t) ==
  /\ hand' = [hand EXCEPT ![t] = Nobody]
  /\ loss' = loss + 1

Take(q, t) ==
  /\ ~Busy(t) /\ queue[q] # <<>>
  /\ hand' = [hand EXCEPT ![t] = Head(queue[q])]
  /\ queue' = [queue EXCEPT ![q] = Tail(@)]

(***************************************************************************)
(* modbus_poll_task: a poll of a point succeeds or fails; a failure goes   *)
(* to the state pool at once, overtaking what the queues still hold of the *)
(* point.  Success and failure alike are queued, for at most 50 ms.        *)
(***************************************************************************)
Poll(p, good) ==
  /\ polled < MaxReadings /\ ~Busy("poll")
  /\ LET r == [n |-> polled + 1, p |-> p, good |-> good]
     IN /\ hand' = [hand EXCEPT !["poll"] = r]
        /\ IF good THEN UNCHANGED pool ELSE PoolUpdate(r)
  /\ polled' = polled + 1
  /\ UNCHANGED <<queue, route, linked, platform, loss, failed, cached,
                 published, clouded, kept, upsets>>

PollEnqueue ==
  /\ Busy("poll")
  /\ IF Full("raw") THEN GiveUp("poll") /\ UNCHANGED queue
                    ELSE Pass("poll", "raw") /\ UNCHANGED loss
  /\ UNCHANGED <<polled, route, linked, platform, pool, failed, cached,
                 published, clouded, kept, upsets>>

(***************************************************************************)
(* context_build_task: failed reads and contexts that do not validate are  *)
(* rejected; the others reach the state pool and the history, then the     *)
(* context queue, for at most 100 ms.                                      *)
(***************************************************************************)
BuildReject ==
  /\ ~Busy("build") /\ queue["raw"] # <<>>
  /\ LET r == Head(queue["raw"])
     IN /\ ~r.good \/ r.p \in UnfitPoints
        /\ kept' = kept \cup {r.n}
  /\ queue' = [queue EXCEPT !["raw"] = Tail(@)]
  /\ UNCHANGED <<polled, hand, route, linked, platform, pool, loss, failed,
                 cached, published, clouded, upsets>>

BuildContext ==
  /\ Take("raw", "build")
  /\ LET r == hand'["build"]
     IN r.good /\ r.p \notin UnfitPoints /\ PoolUpdate(r)
  /\ UNCHANGED <<polled, route, linked, platform, loss, failed, cached,
                 published, clouded, kept, upsets>>

BuildEnqueue ==
  /\ Busy("build")
  /\ IF Full("context") THEN GiveUp("build") /\ UNCHANGED queue
                        ELSE Pass("build", "context") /\ UNCHANGED loss
  /\ UNCHANGED <<polled, route, linked, platform, pool, failed, cached,
                 published, clouded, kept, upsets>>
-----------------------------------------------------------------------------
(***************************************************************************)
(* publish_task takes a context, reads the configuration and the state of  *)
(* the connection, and acts on them; both may have changed by then.        *)
(***************************************************************************)
PublishTake ==
  /\ Take("context", "publish")
  /\ route' = "wait"
  /\ UNCHANGED <<polled, linked, platform, pool, loss, failed, cached,
                 published, clouded, kept, upsets>>

\* not configured: the reading stays local; no loss, no counter
PublishLocal ==
  /\ route = "wait" /\ platform = "none"
  /\ kept' = kept \cup {hand["publish"].n}
  /\ hand' = [hand EXCEPT !["publish"] = Nobody]
  /\ route' = "none"
  /\ UNCHANGED <<polled, queue, linked, platform, pool, loss, failed, cached,
                 published, clouded, upsets>>

PublishRoute ==
  /\ route = "wait" /\ platform # "none"
  /\ route' = IF ~linked THEN "cache"
              ELSE IF platform = "cloud" THEN "cloud" ELSE "mqtt"
  /\ UNCHANGED <<polled, hand, queue, linked, platform, pool, loss, failed,
                 cached, published, clouded, kept, upsets>>

\* the non-blocking send to cache_writer_task; a full queue loses the item
PublishCache ==
  /\ route = "cache"
  /\ IF Full("cache") THEN GiveUp("publish") /\ UNCHANGED queue
                      ELSE Pass("publish", "cache") /\ UNCHANGED loss
  /\ route' = "none"
  /\ UNCHANGED <<polled, linked, platform, pool, failed, cached, published,
                 clouded, kept, upsets>>

\* thingscloud_publish_context() takes the point into its aggregate ...
PublishCloud ==
  /\ route = "cloud"
  /\ clouded' = clouded \cup {hand["publish"].n}
  /\ hand' = [hand EXCEPT !["publish"] = Nobody]
  /\ route' = "none"
  /\ UNCHANGED <<polled, queue, linked, platform, pool, loss, failed, cached,
                 published, kept, upsets>>

\* ... or refuses it: cached, if its queue has room
PublishCloudRefused ==
  /\ route = "cloud" /\ Upset
  /\ IF Full("cache")
     THEN GiveUp("publish") /\ UNCHANGED <<queue, failed>>
     ELSE Pass("publish", "cache") /\ failed' = failed + 1 /\ UNCHANGED loss
  /\ route' = "none"
  /\ UNCHANGED <<polled, linked, platform, pool, cached, published, clouded,
                 kept>>

\* a custom platform: to mqtt_out for at most 100 ms, else to the cache
PublishMqtt ==
  /\ route = "mqtt"
  /\ \/ /\ ~Full("out")
        /\ Pass("publish", "out") /\ UNCHANGED loss
        /\ route' = "none"
     \/ /\ Full("out")
        /\ route' = "cache" /\ UNCHANGED <<hand, queue, loss>>
  /\ UNCHANGED <<polled, linked, platform, pool, failed, cached, published,
                 clouded, kept, upsets>>

\* the context does not serialise: dropped, counted as a failed publish
PublishUnserialised ==
  /\ route = "mqtt" /\ Upset
  /\ failed' = failed + 1
  /\ hand' = [hand EXCEPT !["publish"] = Nobody]
  /\ route' = "none"
  /\ UNCHANGED <<polled, queue, linked, platform, pool, loss, cached,
                 published, clouded, kept>>

(***************************************************************************)
(* cache_writer_task and mqtt_publish_task                                 *)
(***************************************************************************)
CacheTake ==
  /\ Take("cache", "cache")
  /\ UNCHANGED <<polled, route, linked, platform, pool, loss, failed, cached,
                 published, clouded, kept, upsets>>

CacheWrite ==
  /\ Busy("cache")
  /\ \/ /\ cached' = cached \cup {hand["cache"].n}
        /\ hand' = [hand EXCEPT !["cache"] = Nobody]
        /\ UNCHANGED <<loss, upsets>>
     \/ Upset /\ GiveUp("cache") /\ UNCHANGED cached
  /\ UNCHANGED <<polled, queue, route, linked, platform, pool, failed,
                 published, clouded, kept>>

OutTake ==
  /\ Take("out", "out")
  /\ UNCHANGED <<polled, route, linked, platform, pool, loss, failed, cached,
                 published, clouded, kept, upsets>>

OutPublish ==
  /\ Busy("out") /\ linked
  /\ published' = published \cup {hand["out"].n}
  /\ hand' = [hand EXCEPT !["out"] = Nobody]
  /\ UNCHANGED <<polled, queue, route, linked, platform, pool, loss, failed,
                 cached, clouded, kept, upsets>>

\* not connected, or mqtt_publish() failed: stored, the result is ignored
OutStore ==
  /\ Busy("out")
  /\ IF linked THEN Upset ELSE UNCHANGED upsets
  /\ \/ cached' = cached \cup {hand["out"].n}
     \/ UNCHANGED cached
  /\ failed' = failed + 1
  /\ hand' = [hand EXCEPT !["out"] = Nobody]
  /\ UNCHANGED <<polled, queue, route, linked, platform, pool, loss,
                 published, clouded, kept>>
-----------------------------------------------------------------------------
LinkChanges ==
  /\ Upset
  /\ linked' = ~linked
  /\ UNCHANGED <<polled, hand, queue, route, platform, pool, loss, failed,
                 cached, published, clouded, kept>>

Reconfigured ==
  /\ Upset
  /\ platform' \in Platforms \ {platform}
  /\ UNCHANGED <<polled, hand, queue, route, linked, pool, loss, failed,
                 cached, published, clouded, kept>>

PollStep    == PollEnqueue
BuildStep   == BuildReject \/ BuildContext \/ BuildEnqueue
PublishTaskStep ==
               \/ PublishTake \/ PublishLocal \/ PublishRoute \/ PublishCache
               \/ PublishCloud \/ PublishCloudRefused
               \/ PublishMqtt \/ PublishUnserialised
CacheStep   == CacheTake \/ CacheWrite
OutStep     == OutTake \/ OutPublish \/ OutStore

PipelineNext ==
  \/ \E p \in Points, good \in BOOLEAN : Poll(p, good)
  \/ PollStep \/ BuildStep \/ PublishTaskStep \/ CacheStep \/ OutStep
  \/ PoolClear \/ LinkChanges \/ Reconfigured

\* no task waits for ever on a queue, so each is scheduled again
PipelineSpec ==
  /\ PipelineInit /\ [][PipelineNext]_pipelineVars
  /\ WF_pipelineVars(PollStep)  /\ WF_pipelineVars(BuildStep)
  /\ WF_pipelineVars(PublishTaskStep)
  /\ WF_pipelineVars(CacheStep) /\ WF_pipelineVars(OutStep)
-----------------------------------------------------------------------------
Item == [n : 0..MaxReadings, p : Points, good : BOOLEAN]

PipelineTypeOK ==
  /\ polled \in 0..MaxReadings
  /\ hand \in [Hands -> Item]
  /\ \A q \in Queues : Len(queue[q]) <= CapOf[q]
                       /\ \A i \in 1..Len(queue[q]) : queue[q][i] \in Item
  /\ route \in Routes /\ (route # "none" <=> Busy("publish"))
  /\ linked \in BOOLEAN /\ platform \in Platforms
  /\ pool \in [Points -> Item] /\ Cardinality(Pooled) <= PoolCap
  /\ loss \in Nat /\ failed \in Nat /\ upsets \in 0..MaxUpsets
  /\ cached \subseteq 1..MaxReadings /\ kept \subseteq 1..MaxReadings
  /\ clouded \subseteq 1..MaxReadings

Underway == {hand[t].n : t \in Hands} \cup
            UNION {{queue[q][i].n : i \in 1..Len(queue[q])} : q \in Queues}
Sent     == clouded \cup published
Vanished == (1..polled) \ (Underway \cup cached \cup Sent \cup kept)

(***************************************************************************)
(* Every reading taken is accounted for once: it is in one hand or queue,  *)
(* or sent, or cached, or stops by design, so none is published a second   *)
(* time; and one that is nowhere any more was counted, as lost by whoever  *)
(* gave it up at a full queue or a failed write, or as a failed publish    *)
(* where mqtt_publish_task and the serialisation count nothing else.       *)
(***************************************************************************)
HeldOnce ==
  /\ Sent \cap (cached \cup kept \cup Underway) = {}
  /\ cached \cap (Underway \cup kept) = {}
  /\ Cardinality(Underway \ {0}) =
       Cardinality({t \in Hands : Busy(t)}) + Len(queue["raw"])
         + Len(queue["context"]) + Len(queue["out"]) + Len(queue["cache"])

LossAccounted == HeldOnce /\ Cardinality(Vanished) <= loss + failed

(***************************************************************************)
(* A good reading of a point is never replaced in the state pool by an     *)
(* older good one, whatever the queues hold and whatever was evicted.      *)
(***************************************************************************)
PoolForward ==
  [][\A p \in Points :
       pool[p].good /\ pool'[p].good => pool'[p].n >= pool[p].n]_pool

(***************************************************************************)
(* Every reading leaves the pipeline: no task keeps one for ever, whatever *)
(* is full.                                                                *)
(***************************************************************************)
ReadingsSettle ==
  \A n \in 1..MaxReadings : (n \in Underway) ~> (n \notin Underway)
=============================================================================
