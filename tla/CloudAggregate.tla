--------------------------- MODULE CloudAggregate ---------------------------
(***************************************************************************)
(* Live telemetry to ThingsCloud (main/thingscloud/thingscloud_adapter.c   *)
(* and the maintenance of publish_task in main/scheduler/scheduler.c).     *)
(*                                                                         *)
(* publish_task collects the newest value of each point in an aggregate,   *)
(* and every 10 s, or when the aggregate is full, publishes it in packets  *)
(* of at most THINGSCLOUD_MAX_PAYLOAD_BYTES.  Every packet needs a token,  *)
(* and so do the gateway's status and slave status (every 60 s): there is  *)
(* one token, refilled every 30 s.  CloudReplay.tla has the replay that    *)
(* holds all of this back; here it is a switch.                            *)
(*                                                                         *)
(* A packet holds PackSize points, whatever their names.  One tick of the  *)
(* refill stands for 30 s.  publish_task alone adds points; the session    *)
(* and the configuration change beside it.  A flush reads the mode and     *)
(* takes the lock in one step: in between nothing can be added.  A point   *)
(* whose key is invalid is none of CloudPoints.                            *)
(***************************************************************************)
EXTENDS Integers, Sequences, FiniteSets

CONSTANTS CloudPoints,  \* points: address and property key
          AggMax,       \* THINGSCLOUD_AGG_BUFFER_MAX
          PackSize,     \* points in a packet
          MaxTokens,    \* TC_RATE_BUCKET_TOKENS
          MaxSwitches   \* bound: what the network, the platform, the heap,
                        \* the slaves and the user do to live telemetry

VARIABLES
  aggMode,    \* runtime.mqtt.report_mode
  lastMode,   \* s_last_report_mode
  adding,     \* thingscloud_publish_context(): its next step, point and rt
  aggregate,  \* s_agg or s_gw_agg, the one of lastMode: a slot holds a set
              \* of one point, or is empty
  bucket,     \* s_rate_tokens
  guarded,    \* 403: s_rate_block_until_ms; 413: s_upload_suspended
  ticks,      \* ticks since the last gateway status, up to 2
  sessionUp,  \* mqtt_is_connected()
  stable,     \* ... for THINGSCLOUD_CONNECTION_STABLE_MS
  replaying,  \* a record is cached or awaits its answer
  unsent,     \* history: points whose newest value was not published
  forgone,    \* history: ... and may be lost: it was collected for another
              \* mode, its packet had no memory, or no number came after it
  burst,      \* history: packets since the last tick, less the tokens that
              \* a reconnect or another endpoint gave
  switches    \* bound

ASSUME BufferAssumption == AggMax \in Nat /\ PackSize \in Nat \ {0}
ASSUME TokensAssumption == MaxTokens \in Nat

aggVars == <<aggMode, lastMode, adding, aggregate, bucket, guarded, ticks,
             sessionUp, stable, replaying, unsent, forgone, burst, switches>>
session == <<sessionUp, stable>>
budget  == <<bucket, burst>>
owing   == <<unsent, forgone>>

ReportModes == {"GATEWAY", "SUBDEVICE"}
Least(a, b) == IF a < b THEN a ELSE b

AggInit ==
  /\ aggMode = "SUBDEVICE" /\ lastMode = "SUBDEVICE"
  /\ adding = <<>> /\ aggregate = <<>>
  /\ bucket = MaxTokens /\ guarded = {} /\ ticks = 2
  /\ sessionUp = FALSE /\ stable = FALSE /\ replaying = FALSE
  /\ unsent = {} /\ forgone = {} /\ burst = 0 /\ switches = 0

Switch == switches < MaxSwitches /\ switches' = switches + 1
-----------------------------------------------------------------------------
\* check_mode_change(): what was collected for another mode is discarded
Kept(mode, buffer) == IF mode = lastMode THEN buffer ELSE <<>>

PointsIn(buffer) == UNION {buffer[i] : i \in DOMAIN buffer}

\* The packet that slot i goes into; publish_gw_attr_chunked() passes over
\* empty slots, publish_subdevice_aggregated() sends them.
PacketOf(mode, buffer, i) ==
  (Cardinality({j \in 1..i : mode = "GATEWAY" => buffer[j] # {}})
     + PackSize - 1) \div PackSize
Packets(mode, buffer) == PacketOf(mode, buffer, Len(buffer))

\* the points in some of the packets
Carried(mode, buffer, packets) ==
  UNION {buffer[i] : i \in {j \in DOMAIN buffer :
                              PacketOf(mode, buffer, j) \in packets}}

(* What may become of a packet that the limiter lets through: mqtt_publish *)
(* takes it or fails; or there was no memory, and the function gives up,   *)
(* or (publish_gw_attr_chunked(), where cJSON_PrintUnformatted() fails for *)
(* a full packet) goes on as if it had been sent.                          *)
Fates(mode) == {"sent", "failed", "unmade"} \cup
               (IF mode = "GATEWAY" THEN {"skipped"} ELSE {})

\* an error ends the packets of a flush in sub-device mode, and want of
\* memory in either
Ends(mode, fate) ==
  fate = "unmade" \/ (fate = "failed" /\ mode = "SUBDEVICE")
Tried(mode, fate) ==
  {k \in DOMAIN fate :
     /\ fate[k] \in {"sent", "failed"}
     /\ \A j \in DOMAIN fate : j < k => ~Ends(mode, fate[j])}

(* Mutant: the last token of the bucket is never spent. *)
AllowanceButOne == IF guarded = {} /\ bucket > 0 THEN bucket - 1 ELSE 0

\* tc_rate_allow(): the guard of a 403 or 413 comes before the bucket
Allowance == IF guarded = {} THEN bucket ELSE 0

\* one packet after another, until the limiter refuses one
Passed(mode, fate) ==
  {k \in Tried(mode, fate) :
     Cardinality({j \in Tried(mode, fate) : j <= k}) <= Allowance}
Delivered(mode, fate) == {k \in Passed(mode, fate) : fate[k] = "sent"}
Skipped(fate) == {k \in DOMAIN fate : fate[k] = "skipped"}

NoError(mode, fate) ==
  DOMAIN fate \subseteq Delivered(mode, fate) \cup Skipped(fate)

(* Mutant: the aggregate is emptied although the limiter refused it. *)
AfterFlushEmptied(mode, buffer, fate) == <<>>

\* Keep the buffer if throttled so the data is retried later.
AfterFlush(mode, buffer, fate) ==
  IF NoError(mode, fate) THEN <<>> ELSE buffer

Spend(n) == bucket' = bucket - n /\ burst' = burst + n

Send(mode, buffer, fate) ==
  LET arrived == Carried(mode, buffer, Delivered(mode, fate))
      lost    == IF NoError(mode, fate)
                 THEN Carried(mode, buffer, Skipped(fate)) ELSE {}
  IN /\ aggregate' = AfterFlush(mode, buffer, fate)
     /\ Spend(Cardinality(Passed(mode, fate)))
     /\ unsent' = unsent \ arrived
     /\ forgone' = (forgone \ arrived) \cup lost
     /\ IF \A k \in DOMAIN fate : fate[k] = "sent"
        THEN UNCHANGED switches ELSE Switch

(* thingscloud_flush(): nothing during a replay; else the change of mode,  *)
(* and the packets while connected.                                        *)
FlushOf(mode, buffer) ==
  /\ lastMode' = mode
  /\ \/ /\ sessionUp /\ buffer # <<>>
        /\ \E fate \in [1..Packets(mode, buffer) -> Fates(mode)] :
             Send(mode, buffer, fate)
     \/ /\ ~(sessionUp /\ buffer # <<>>)
        /\ aggregate' = buffer /\ UNCHANGED <<budget, owing, switches>>

Flush(mode) ==
  \/ ~replaying /\ FlushOf(mode, Kept(mode, aggregate))
  \/ replaying /\ UNCHANGED <<lastMode, aggregate, budget, owing, switches>>
-----------------------------------------------------------------------------
(* thingscloud_publish_context(): rt is read once; a full aggregate is     *)
(* flushed before and after the point is added; a point that finds no room *)
(* is dropped and reported as published.                                   *)
CollectPoint(p) ==
  /\ adding = <<>> /\ sessionUp
  /\ adding' = <<"test", p, aggMode>>
  /\ UNCHANGED <<aggMode, lastMode, aggregate, budget, guarded, ticks,
                 session, replaying, owing, switches>>

At(stage) == adding # <<>> /\ adding[1] = stage

TestRoom ==
  LET rt == adding[3]
  IN /\ At("test")
     /\ lastMode' = rt /\ aggregate' = Kept(rt, aggregate)
     /\ adding' = <<IF Len(aggregate') >= AggMax THEN "room" ELSE "add",
                    adding[2], rt>>
     /\ UNCHANGED <<aggMode, budget, guarded, ticks, session, replaying, owing,
                    switches>>

MakeRoom ==
  /\ At("room") /\ adding' = <<"add", adding[2], adding[3]>>
  /\ Flush(aggMode)
  /\ UNCHANGED <<aggMode, guarded, ticks, session, replaying>>

\* add_context_to_agg(), add_context_to_gw_agg(): fill_property_value()
\* clears the slot of the older value, or a new one, before it looks at the
\* value, and a value that is not finite leaves it so
Collected(p, slot, buffer) ==
  IF p \in PointsIn(buffer)
  THEN [i \in DOMAIN buffer |-> IF p \in buffer[i] THEN slot ELSE buffer[i]]
  ELSE Append(buffer, slot)

AddPoint ==
  LET p    == adding[2]
      rt   == adding[3]
      kept == Kept(rt, aggregate)
  IN /\ At("add")
     /\ lastMode' = rt
     /\ \/ /\ Len(kept) >= AggMax
           /\ aggregate' = kept /\ adding' = <<>>
           /\ UNCHANGED <<owing, switches>>
        \/ /\ Len(kept) < AggMax
           /\ \/ /\ aggregate' = Collected(p, {p}, kept)
                 /\ unsent' = unsent \cup {p}
                 /\ forgone' = IF rt = aggMode THEN forgone \ {p}
                               ELSE forgone \cup {p}
                 /\ UNCHANGED switches
              \/ /\ Switch
                 /\ aggregate' = Collected(p, {}, kept)
                 /\ forgone' = forgone \cup {p} /\ UNCHANGED unsent
           /\ adding' = IF Len(aggregate') >= AggMax
                        THEN <<"flush", p, rt>> ELSE <<>>
     /\ UNCHANGED <<aggMode, budget, guarded, ticks, session, replaying>>

FlushFull ==
  /\ At("flush") /\ adding' = <<>>
  /\ Flush(aggMode)
  /\ UNCHANGED <<aggMode, guarded, ticks, session, replaying>>

AddStep == TestRoom \/ MakeRoom \/ AddPoint \/ FlushFull

\* adapter_lock() times out: the point goes to the cache queue, or the flush
\* that follows it is left out
NotLocked ==
  /\ adding # <<>> /\ ~At("room") /\ adding' = <<>>
  /\ UNCHANGED <<aggMode, lastMode, aggregate, budget, guarded, ticks,
                 session, replaying, owing, switches>>
-----------------------------------------------------------------------------
\* every THINGSCLOUD_FLUSH_INTERVAL_MS
FlushTick ==
  /\ stable /\ adding = <<>>
  /\ Flush(aggMode)
  /\ UNCHANGED <<adding, aggMode, guarded, ticks, session, replaying>>

(* thingscloud_publish_gateway_status(), and in gateway mode right after   *)
(* it thingscloud_publish_gateway_slave_status(): a packet each.           *)
StatusPackets == IF aggMode = "GATEWAY" THEN 2 ELSE 1

\* every 60 s; whichever the limiter refuses waits for the next turn
StatusTick ==
  /\ stable /\ ~replaying /\ adding = <<>> /\ ticks = 2
  /\ ticks' = 0
  /\ Spend(Least(Allowance, StatusPackets))
  /\ UNCHANGED <<adding, aggMode, lastMode, aggregate, guarded, session,
                 replaying, owing, switches>>

\* a slave changed its state: slave status out of turn
SlaveChanged ==
  /\ sessionUp /\ aggMode = "GATEWAY" /\ Allowance > 0
  /\ Switch /\ Spend(1)
  /\ UNCHANGED <<adding, aggMode, lastMode, aggregate, guarded, ticks, session,
                 replaying, owing>>

(* Mutant: tokens add up. *)
RefillUncapped ==
  /\ bucket' = Least(bucket + 1, MaxTokens + 1) /\ burst' = 0
  /\ ticks' = Least(ticks + 1, 2)
  /\ UNCHANGED <<adding, aggMode, lastMode, aggregate, guarded, session,
                 replaying, owing, switches>>

\* tc_rate_refill(), and the clock of the status
RefillTick ==
  /\ bucket' = Least(bucket + 1, MaxTokens) /\ burst' = 0
  /\ ticks' = Least(ticks + 1, 2)
  /\ UNCHANGED <<adding, aggMode, lastMode, aggregate, guarded, session,
                 replaying, owing, switches>>

\* thingscloud_record_publish_response(): the platform answers 403 or 413
Refused(code) ==
  /\ sessionUp /\ Switch
  /\ guarded' = guarded \cup {code}
  /\ bucket' = IF code = 403 THEN 0 ELSE bucket
  /\ UNCHANGED <<adding, aggMode, lastMode, aggregate, ticks, session,
                 replaying, owing, burst>>

\* 60 s after a 403
RateBlockEnds ==
  /\ 403 \in guarded /\ guarded' = guarded \ {403}
  /\ UNCHANGED <<adding, aggMode, lastMode, aggregate, budget, ticks, session,
                 replaying, owing, switches>>

\* a full bucket, and what it did not hold before is owed to nobody
Replenish == bucket' = MaxTokens /\ burst' = burst - (MaxTokens - bucket)

\* thingscloud_clear_publish_guard(): the user selected another endpoint
GuardCleared ==
  /\ Switch /\ guarded' = {} /\ Replenish
  /\ UNCHANGED <<adding, aggMode, lastMode, aggregate, ticks, session,
                 replaying, owing>>
-----------------------------------------------------------------------------
\* thingscloud_on_mqtt_connected(): one token, after a change of mode
SessionUp ==
  /\ ~sessionUp /\ sessionUp' = TRUE
  /\ aggregate' = Kept(aggMode, aggregate) /\ lastMode' = aggMode
  /\ Replenish
  /\ UNCHANGED <<adding, aggMode, guarded, ticks, stable, replaying, owing,
                 switches>>

SessionStable ==
  /\ sessionUp /\ ~stable /\ stable' = TRUE
  /\ UNCHANGED <<adding, aggMode, lastMode, aggregate, budget, guarded, ticks,
                 sessionUp, replaying, owing, switches>>

SessionLost ==
  /\ sessionUp /\ Switch
  /\ sessionUp' = FALSE /\ stable' = FALSE
  /\ UNCHANGED <<adding, aggMode, lastMode, aggregate, budget, guarded, ticks,
                 replaying, owing>>

\* CloudReplay: a record is cached; the last one is answered
ReplayStarts ==
  /\ ~replaying /\ Switch /\ replaying' = TRUE
  /\ UNCHANGED <<adding, aggMode, lastMode, aggregate, budget, guarded, ticks,
                 session, owing>>
ReplayEnds ==
  /\ replaying /\ replaying' = FALSE
  /\ UNCHANGED <<adding, aggMode, lastMode, aggregate, budget, guarded, ticks,
                 session, owing, switches>>

\* PUT /api/mqtt/config; what was collected so far is given up
ReportMode ==
  /\ Switch
  /\ aggMode' \in ReportModes \ {aggMode}
  /\ forgone' = forgone \cup unsent
  /\ UNCHANGED <<adding, lastMode, aggregate, budget, guarded, ticks, session,
                 replaying, unsent>>

AggNext ==
  \/ (\E p \in CloudPoints : CollectPoint(p)) \/ AddStep \/ NotLocked
  \/ FlushTick \/ StatusTick \/ SlaveChanged \/ RefillTick
  \/ (\E code \in {403, 413} : Refused(code))
  \/ RateBlockEnds \/ GuardCleared
  \/ SessionUp \/ SessionStable \/ SessionLost
  \/ ReplayStarts \/ ReplayEnds \/ ReportMode

(* A flush is due three times in a tick and comes before the status; the   *)
(* ticks come with time; the client reconnects by itself; CloudReplay      *)
(* shows when a replay ends.  The fairness of FlushTick assumes a load     *)
(* that leaves publish_task's queue empty for 200 ms now and then: only    *)
(* then does the task do its maintenance.                                  *)
AggFairness ==
  /\ WF_aggVars(AddStep) /\ SF_aggVars(FlushTick)
  /\ WF_aggVars(RefillTick) /\ WF_aggVars(RateBlockEnds)
  /\ WF_aggVars(SessionUp) /\ WF_aggVars(SessionStable)
  /\ WF_aggVars(ReplayEnds)
AggSpec == AggInit /\ [][AggNext]_aggVars /\ AggFairness
-----------------------------------------------------------------------------
AggTypeOK ==
  /\ aggMode \in ReportModes /\ lastMode \in ReportModes
  /\ Len(aggregate) <= AggMax
  /\ PointsIn(aggregate) \subseteq CloudPoints
  /\ bucket \in 0..MaxTokens /\ guarded \subseteq {403, 413}
  /\ ticks \in 0..2 /\ burst \in Int
  /\ unsent \subseteq CloudPoints /\ forgone \subseteq CloudPoints

(* "To stay safely under the limit": between two refills the platform gets *)
(* no more packets than the bucket holds, whoever sends them: aggregate,   *)
(* status or slave status; and one more for every reconnect and every      *)
(* endpoint that the user selects.                                         *)
RateKept == burst <= MaxTokens

(* "the caller must KEEP its aggregation buffer so the data is retried":   *)
(* the newest value of a point is in the aggregate until it is published,  *)
(* whatever of throttling, failed packets, replays and lost sessions comes *)
(* between.  Three ways to lose it are excepted (forgone): the mode        *)
(* changed after it was collected, or while it was, rt being read before;  *)
(* gateway mode had no memory to print its packet and took it for sent;    *)
(* and a later value of the point that is no number cleared its slot.      *)
KeptUntilSent == unsent \ forgone \subseteq PointsIn(Kept(aggMode, aggregate))

(* "Keep the buffer if throttled so the data is retried later" (adapter,   *)
(* thingscloud_flush): a point that was collected is published eventually, *)
(* unless it is lost as above or the platform suspended uploads (413),     *)
(* given that failures and slave status out of turn come to an end.        *)
EveryPointPublished ==
  \A p \in CloudPoints :
    p \in unsent ~> p \notin unsent \/ p \in forgone \/ 413 \in guarded
=============================================================================
