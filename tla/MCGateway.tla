----------------------------- MODULE MCGateway -----------------------------
(***************************************************************************)
(* One model for TLC of three components that run as tasks of their own:   *)
(* the pipeline of readings, the discovery of devices and the life cycle   *)
(* of the MQTT client.  A behaviour is that of one of them, its `part',    *)
(* and the others stay where they began; each has the others' effect on it *)
(* as actions of its own.                                                  *)
(***************************************************************************)
EXTENDS Pipeline, Discovery, MqttLifecycle

VARIABLE part

\* two register blocks for the first device of a profile, none for a second
MCProfile == <<<< <<1, 2>>, <<2, 1>> >>, << >> >>

\* a point of the user's on each slave
MCTables == {[k \in {<<1, 2>>, <<2, 1>>} |-> "user"]}

gatewayVars == <<part, pipelineVars, scanVars, mqttVars>>

InPipeline(A)  == /\ part = "pipeline" /\ A
                  /\ UNCHANGED <<part, scanVars, mqttVars>>
InDiscovery(A) == /\ part = "discovery" /\ A
                  /\ UNCHANGED <<part, pipelineVars, mqttVars>>
InMqtt(A)      == /\ part = "mqtt" /\ A
                  /\ UNCHANGED <<part, pipelineVars, scanVars>>

\* a part that is not looked at begins in one state
GatewayInit ==
  /\ part \in {"pipeline", "discovery", "mqtt"}
  /\ PipelineInit /\ DiscoveryInit
  /\ MqttInit /\ (part # "mqtt" => ~started)

GatewayNext ==
  InPipeline(PipelineNext) \/ InDiscovery(DiscoveryNext) \/ InMqtt(MqttNext)

(* The fairness of PipelineSpec, DiscoverySpec and MqttSpec.  As only one  *)
(* part moves, one condition can serve a step of each.                     *)
Fair1 == InPipeline(PollStep) \/ InDiscovery(ScanStep) \/ InMqtt(WebStep)
Fair2 == InPipeline(BuildStep) \/ InMqtt(RestartStep)
Fair3 == InPipeline(PublishTaskStep) \/ InMqtt(SupervisorStep)
Fair4 == InPipeline(CacheStep)
Fair5 == InPipeline(OutStep)

GatewaySpec ==
  /\ GatewayInit /\ [][GatewayNext]_gatewayVars
  /\ WF_gatewayVars(Fair1) /\ WF_gatewayVars(Fair2)
  /\ WF_gatewayVars(Fair3) /\ WF_gatewayVars(Fair4)
  /\ WF_gatewayVars(Fair5)

(* Every component's variables keep the shape that its module gives them:  *)
(* the ranges and lengths of the code's queues, tables and counters.       *)
GatewayTypeOK == PipelineTypeOK /\ DiscoveryTypeOK /\ MqttTypeOK
=============================================================================
