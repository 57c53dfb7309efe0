---------------------------- MODULE CloudReplay ----------------------------
(***************************************************************************)
(* Replay of cached records to ThingsCloud, which answers every telemetry  *)
(* message on a response topic; a record is removed on the platform's      *)
(* answer, not on a PUBACK:                                                *)
(*   - replay_task sends the oldest record, one at a time                  *)
(*     (main/uif/uif_persistence.c);                                       *)
(*   - publish_task sends live aggregates and gateway status through the   *)
(*     same rate limiter (main/thingscloud/thingscloud_adapter.c), but     *)
(*     holds them back while a record is cached or awaits its answer;      *)
(*   - the MQTT task handles the answers                                   *)
(*     (main/thingscloud/thingscloud_command.c).                           *)
(* An answer names no message: what it is about is inferred from its topic *)
(* and from what the gateway believes to be in flight.                     *)
(***************************************************************************)
EXTENDS Integers, FiniteSets

CONSTANTS Seqs,       \* sequence identifiers
          Unfit,      \* records that thingscloud_replay_context() rejects
          Modes,      \* report modes under consideration
          Codes,      \* errcodes the platform answers with, 0 for accepted
          MaxFaults   \* bound: lost connections and answers, failed publishes

ASSUME CloudSeqsAssumption ==
  Seqs \subseteq Nat \ {0} /\ IsFiniteSet(Seqs) /\ Unfit \subseteq Seqs
ASSUME ModesAssumption == Modes \subseteq {"GATEWAY", "SUBDEVICE"}
ASSUME CodesAssumption == Codes \subseteq Nat
ASSUME CloudFaultsAssumption == MaxFaults \in Nat

None == 0

Attributes == "attributes"
GatewayAttributes == "gateway/attributes"

VARIABLES
  mode,         \* runtime.mqtt.report_mode
  held,         \* the records of the offline store
  outstanding,  \* s_replay_outstanding
  rseq,         \* s_replay_sequence
  gatewayTopic, \* s_replay_gateway_topic
  recent,       \* s_replay_sent_ms is less than 20 s ago
  backoff,      \* s_replay_retry_after_ms lies in the future
  rpc, cur,     \* replay_task: idle, or about to publish record cur
  agg,          \* live points are buffered
  ppc,          \* publish_task: idle, or past the check of a flush or status
  tokens,       \* s_rate_tokens, with refills that are due
  blocked,      \* s_rate_block_until_ms lies in the future (403)
  suspended,    \* s_upload_suspended (413)
  online,       \* connected for 10 s
  wire,         \* external: messages to the platform and their answers
  faults,       \* how many connections, answers and publishes failed
  handed, removed, answered  \* history: records put, removed, and settled
                             \* by an answer to a message of their own

uif     == <<outstanding, rseq, gatewayTopic, recent, backoff>>
limiter == <<tokens, blocked, suspended>>
live    == <<agg, ppc>>
replay  == <<rpc, cur>>
link    == <<online, faults>>
store   == <<held, handed, removed>>
cloudVars    == <<mode, uif, replay, live, limiter, link, wire, store,
                  answered>>

Oldest(S) == CHOOSE s \in S : \A t \in S : s <= t

\* The topic that carries telemetry in the current mode.
TelemetryTopic == IF mode = "GATEWAY" THEN Attributes ELSE GatewayAttributes

Permanent == {402, 406, 413}
-----------------------------------------------------------------------------
\* cache_writer_task stores a record, also one queued before the connection
\* came back.
Put(s) ==
  /\ s \notin handed
  /\ held' = held \cup {s}
  /\ handed' = handed \cup {s}
  /\ UNCHANGED <<mode, uif, replay, live, limiter, link, wire, removed,
                 answered>>
-----------------------------------------------------------------------------
MayReplay == rpc = "idle" /\ online /\ held # {}

\* Mutant: the timeout backs off and leaves the record in flight.
TimeoutKeepingFlag ==
  /\ MayReplay
  /\ outstanding
  /\ ~recent
  /\ backoff' = TRUE
  /\ UNCHANGED <<mode, outstanding, rseq, gatewayTopic, recent, replay, live,
                 limiter, link, wire, store, answered>>

\* uif_replay_all(): 20 s without an answer, retry in 60 s.
ReplayTimeout ==
  /\ MayReplay
  /\ outstanding
  /\ ~recent
  /\ outstanding' = FALSE
  /\ backoff' = TRUE
  /\ UNCHANGED <<mode, rseq, gatewayTopic, recent, replay, live, limiter, link,
                 wire, store, answered>>

\* Mark the oldest record as in flight, with the topic its answer will name.
ReplayMark ==
  /\ MayReplay
  /\ ~outstanding
  /\ ~backoff
  /\ cur' = Oldest(held)
  /\ rseq' = cur'
  /\ gatewayTopic' = (mode = "GATEWAY")
  /\ recent' = TRUE
  /\ outstanding' = TRUE
  /\ rpc' = "publish"
  /\ UNCHANGED <<mode, backoff, live, limiter, link, wire, store, answered>>

\* tc_rate_allow()
RateAllows == ~suspended /\ ~blocked /\ tokens > 0

Message(topic, seq) == [topic |-> topic, seq |-> seq]

\* Mutant: a message goes out without a token.
ReplayPublishUnlimited ==
  /\ rpc = "publish"
  /\ online
  /\ cur \notin Unfit
  /\ tokens' = tokens - 1
  /\ wire' = wire \cup {Message(TelemetryTopic, cur)}
  /\ rpc' = "idle"
  /\ cur' = None
  /\ UNCHANGED <<mode, uif, live, blocked, suspended, link, store, answered>>

\* thingscloud_replay_context() publishes, if the limiter lets it ...
ReplayPublish ==
  /\ rpc = "publish"
  /\ online
  /\ cur \notin Unfit
  /\ RateAllows
  /\ tokens' = tokens - 1
  /\ wire' = wire \cup {Message(TelemetryTopic, cur)}
  /\ rpc' = "idle"
  /\ cur' = None
  /\ UNCHANGED <<mode, uif, live, blocked, suspended, link, store, answered>>

\* mqtt_publish() fails, and the token is spent all the same
PublishFails ==
  /\ online
  /\ RateAllows
  /\ faults < MaxFaults
  /\ tokens' = tokens - 1
  /\ faults' = faults + 1

\* ... and else the record is tried again in 30 s.
ReplayDeferred ==
  /\ rpc = "publish"
  /\ \/ /\ ~online \/ cur \in Unfit \/ ~RateAllows
        /\ UNCHANGED <<tokens, faults>>
     \/ cur \notin Unfit /\ PublishFails
  /\ outstanding' = FALSE
  /\ backoff' = TRUE
  /\ rpc' = "idle"
  /\ cur' = None
  /\ UNCHANGED <<mode, rseq, gatewayTopic, recent, live, blocked, suspended,
                 online, wire, store, answered>>
-----------------------------------------------------------------------------
(***************************************************************************)
(* publish_task.  thingscloud_flush() and the status maintenance of the    *)
(* scheduler first check that no replay is pending, and publish later.     *)
(***************************************************************************)
LivePoint ==
  /\ ~agg
  /\ agg' = TRUE
  /\ UNCHANGED <<mode, uif, replay, ppc, limiter, link, wire, store, answered>>

ReplayPending == outstanding \/ held # {}

\* Mutant: a flush does not mind a pending replay.
FlushUnchecked ==
  /\ ppc = "idle"
  /\ online
  /\ agg
  /\ ppc' = "flush"
  /\ UNCHANGED <<mode, uif, replay, agg, limiter, link, wire, store, answered>>

FlushCheck ==
  /\ ppc = "idle"
  /\ online
  /\ agg
  /\ ~ReplayPending
  /\ ppc' = "flush"
  /\ UNCHANGED <<mode, uif, replay, agg, limiter, link, wire, store, answered>>

StatusCheck ==
  /\ ppc = "idle"
  /\ online
  /\ ~ReplayPending
  /\ ppc' = "status"
  /\ UNCHANGED <<mode, uif, replay, agg, limiter, link, wire, store, answered>>

\* The aggregate is dropped once sent.  Status always goes to "attributes".
LivePublish ==
  /\ ppc # "idle"
  /\ online
  /\ RateAllows
  /\ tokens' = tokens - 1
  /\ wire' = wire \cup
       {Message(IF ppc = "flush" THEN TelemetryTopic ELSE Attributes, None)}
  /\ agg' = (agg /\ ppc = "status")
  /\ ppc' = "idle"
  /\ UNCHANGED <<mode, uif, replay, blocked, suspended, link, store, answered>>

\* Throttled, disconnected or failed: the aggregate is kept.
LiveHeld ==
  /\ ppc # "idle"
  /\ \/ /\ ~online \/ ~RateAllows
        /\ UNCHANGED <<tokens, faults>>
     \/ PublishFails
  /\ ppc' = "idle"
  /\ UNCHANGED <<mode, uif, replay, agg, blocked, suspended, online, wire,
                 store, answered>>

SlaveStatusSent ==
  /\ mode = "GATEWAY"
  /\ wire' = wire \cup {Message(Attributes, None)}

\* A slave changes its state: in gateway mode its status goes out at once,
\* whatever is in flight or due (subdev_report_transition()).
SlaveStatus ==
  /\ online
  /\ RateAllows
  /\ tokens' = tokens - 1
  /\ SlaveStatusSent
  /\ UNCHANGED <<mode, uif, replay, live, blocked, suspended, link, store,
                 answered>>
-----------------------------------------------------------------------------
(***************************************************************************)
(* The platform answers message m, and handle_attributes_response() passes *)
(* the answer to the limiter and to uif_replay_cloud_response().           *)
(***************************************************************************)
RecordPublishResponse(code) ==
  /\ tokens' = IF code = 403 THEN 0 ELSE tokens
  /\ blocked' = (blocked \/ code = 403)
  /\ suspended' = (suspended \/ code = 413)

CloudResponse(onGatewayTopic, code) ==
  IF outstanding /\ onGatewayTopic = gatewayTopic
  THEN LET gone == IF code = 0 \/ code \in Permanent THEN {rseq} ELSE {}
       IN /\ held' = held \ gone
          /\ removed' = removed \cup (gone \cap held)
          /\ outstanding' = FALSE
          /\ rseq' = None
          /\ recent' = FALSE
          /\ backoff' = (code # 0)
          /\ UNCHANGED gatewayTopic
  ELSE UNCHANGED <<held, removed, uif>>

Answer(m, code) ==
  /\ online
  /\ m \in wire
  /\ wire' = wire \ {m}
  /\ RecordPublishResponse(code)
  /\ CloudResponse(m.topic = GatewayAttributes, code)
  /\ answered' = IF m.seq # None /\ (code = 0 \/ code \in Permanent)
                 THEN answered \cup {m.seq} ELSE answered
  /\ UNCHANGED <<mode, replay, live, link, handed>>

\* External: a message or its answer, both QoS 0, is lost.
Lose(m) ==
  /\ m \in wire
  /\ faults < MaxFaults
  /\ faults' = faults + 1
  /\ wire' = wire \ {m}
  /\ UNCHANGED <<mode, uif, replay, live, limiter, online, store, answered>>
-----------------------------------------------------------------------------
\* Time passes: 30 s refill the bucket, 20 s make an answer overdue, 403
\* blocks for 60 s.
Refill ==
  /\ tokens < 1
  /\ tokens' = 1
  /\ UNCHANGED <<mode, uif, replay, live, blocked, suspended, link, wire,
                 store, answered>>

AnswerOverdue ==
  /\ recent
  /\ recent' = FALSE
  /\ UNCHANGED <<mode, outstanding, rseq, gatewayTopic, backoff, replay, live,
                 limiter, link, wire, store, answered>>

BackoffEnds ==
  /\ backoff
  /\ backoff' = FALSE
  /\ UNCHANGED <<mode, outstanding, rseq, gatewayTopic, recent, replay, live,
                 limiter, link, wire, store, answered>>

BlockEnds ==
  /\ blocked
  /\ blocked' = FALSE
  /\ UNCHANGED <<mode, uif, replay, live, tokens, suspended, link, wire, store,
                 answered>>

\* thingscloud_clear_publish_guard(): the user selected another endpoint.
ClearPublishGuard ==
  /\ suspended
  /\ suspended' = FALSE
  /\ blocked' = FALSE
  /\ tokens' = 1
  /\ UNCHANGED <<mode, uif, replay, live, link, wire, store, answered>>

\* thingscloud_on_mqtt_connected(), and ten seconds, in which a slave's
\* status may already have taken the token.
Connected ==
  /\ ~online
  /\ online' = TRUE
  /\ \/ tokens' = 1 /\ UNCHANGED wire
     \/ ~suspended /\ ~blocked /\ tokens' = 0 /\ SlaveStatusSent
  /\ UNCHANGED <<mode, uif, replay, live, blocked, suspended, faults, store,
                 answered>>

Disconnected ==
  /\ online
  /\ faults < MaxFaults
  /\ faults' = faults + 1
  /\ online' = FALSE
  /\ wire' = {}
  /\ UNCHANGED <<mode, uif, replay, live, limiter, store, answered>>

\* uif_replay_connection_lost(), if the five-second poll of the main loop
\* notices.
ConnectionLost ==
  /\ ~online
  /\ outstanding' = FALSE
  /\ rseq' = None
  /\ recent' = FALSE
  /\ UNCHANGED <<mode, gatewayTopic, backoff, replay, live, limiter, link,
                 wire, store, answered>>
-----------------------------------------------------------------------------
CloudInit ==
  /\ mode \in Modes
  /\ held = {} /\ handed = {} /\ removed = {} /\ answered = {}
  /\ outstanding = FALSE /\ rseq = None /\ gatewayTopic = FALSE
  /\ recent = FALSE /\ backoff = FALSE
  /\ rpc = "idle" /\ cur = None
  /\ agg = FALSE /\ ppc = "idle"
  /\ tokens = 1 /\ blocked = FALSE /\ suspended = FALSE
  /\ online = FALSE /\ faults = 0
  /\ wire = {}

ReplayStep == ReplayTimeout \/ ReplayMark \/ ReplayPublish \/ ReplayDeferred

PublishStep == LivePublish \/ LiveHeld

Time == AnswerOverdue \/ BackoffEnds \/ BlockEnds \/ Refill

Answers == \E m \in wire, code \in Codes : Answer(m, code)

CloudNext ==
  \/ \E s \in Seqs : Put(s)
  \/ ReplayStep
  \/ LivePoint \/ FlushCheck \/ StatusCheck \/ PublishStep \/ SlaveStatus
  \/ Answers
  \/ \E m \in wire : Lose(m)
  \/ Time
  \/ ClearPublishGuard
  \/ Connected \/ Disconnected \/ ConnectionLost

CloudSpec == CloudInit /\ [][CloudNext]_cloudVars

(***************************************************************************)
(* Fairness: the tasks run, time passes, the connection comes back and the *)
(* platform answers.                                                       *)
(***************************************************************************)
Fairness ==
  /\ WF_cloudVars(ReplayStep)
  /\ WF_cloudVars(PublishStep)
  /\ WF_cloudVars(Refill)
  /\ WF_cloudVars(AnswerOverdue)
  /\ WF_cloudVars(BackoffEnds)
  /\ WF_cloudVars(BlockEnds)
  /\ WF_cloudVars(Connected)
  /\ WF_cloudVars(Answers)

CloudFairSpec == CloudSpec /\ Fairness
-----------------------------------------------------------------------------
Messages == [topic : {Attributes, GatewayAttributes}, seq : Seqs \cup {None}]

\* Type invariant.  The bucket is never overdrawn.
CloudTypeOK ==
  /\ mode \in Modes
  /\ {held, handed, removed, answered} \subseteq SUBSET Seqs
  /\ {outstanding, gatewayTopic, recent, backoff, agg, blocked, suspended,
      online} \subseteq BOOLEAN
  /\ {rseq, cur} \subseteq Seqs \cup {None}
  /\ rpc \in {"idle", "publish"}
  /\ ppc \in {"idle", "flush", "status"}
  /\ tokens \in {0, 1}
  /\ wire \subseteq Messages
  /\ faults \in 0..MaxFaults

(***************************************************************************)
(* No attempt hangs: a record in flight is released, by its answer, by the *)
(* 20 s timeout or by the loss of the connection.                          *)
(***************************************************************************)
AttemptEnds == outstanding ~> ~outstanding

(***************************************************************************)
(* Replay is not starved: as long as records are cached, the oldest is     *)
(* sent again and again, in spite of rejections, throttling and live       *)
(* telemetry that wants the same tokens; unless the platform suspended     *)
(* uploads (413), the record is one that cannot be sent, or slaves change  *)
(* their state for ever: their status is not held back by a replay, and    *)
(* can take every token.                                                   *)
(***************************************************************************)
ReplayKeepsTrying ==
  \/ []<><<SlaveStatus>>_cloudVars
  \/ []<>(\/ held = {}
          \/ suspended
          \/ Oldest(held) \in Unfit
          \/ \E m \in wire : m.seq # None)

(***************************************************************************)
(* README: records accumulated while disconnected are replayed after the   *)
(* cloud session recovers.  The code does not do it: it awaits the answer  *)
(* of a record sent to "attributes" on the topic of "gateway/attributes",  *)
(* and the other way round, so no answer to a record ever removes it.      *)
(***************************************************************************)
CacheDrains == \A s \in Seqs : s \in held ~> s \notin held

(***************************************************************************)
(* thingscloud_flush(): live telemetry is held back so that an unrelated   *)
(* answer is not mistaken for that of the record in flight.  The code      *)
(* mistakes the answer to a gateway status for it in sub-device mode.      *)
(***************************************************************************)
RemovedOnOwnAnswer == removed \subseteq answered
=============================================================================
