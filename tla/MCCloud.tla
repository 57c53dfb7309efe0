------------------------------ MODULE MCCloud ------------------------------
(***************************************************************************)
(* One model for TLC of what the ThingsCloud adapter does with live        *)
(* telemetry and with the records it replays.  A behaviour is that of one  *)
(* of the two, its `part', and the other stays where it began; each has    *)
(* the other's effect on it as actions of its own.                         *)
(***************************************************************************)
EXTENDS CloudAggregate, CloudReplay

VARIABLE part

cloudSideVars == <<part, aggVars, cloudVars>>

InAggregate(A) == part = "aggregate" /\ A /\ UNCHANGED <<part, cloudVars>>
InReplay(A)    == part = "replay" /\ A /\ UNCHANGED <<part, aggVars>>

\* a part that is not looked at begins in one state
CloudSideInit ==
  /\ part \in {"aggregate", "replay"}
  /\ AggInit
  /\ CloudInit /\ (part # "replay" => mode = CHOOSE m \in Modes : TRUE)

CloudSideNext == InAggregate(AggNext) \/ InReplay(CloudNext)

(* The fairness of AggSpec and CloudFairSpec.  As only one part moves, one *)
(* condition can serve a step of each.                                     *)
Fair1 == InAggregate(AddStep) \/ InReplay(ReplayStep)
Fair2 == InAggregate(RateBlockEnds) \/ InReplay(PublishStep)
Fair3 == InAggregate(RefillTick) \/ InReplay(Refill)
Fair4 == InAggregate(SessionUp) \/ InReplay(AnswerOverdue)
Fair5 == InAggregate(SessionStable) \/ InReplay(BackoffEnds)
Fair6 == InAggregate(ReplayEnds) \/ InReplay(BlockEnds)
Fair7 == InReplay(Connected)
Fair8 == InReplay(Answers)

CloudSideSpec ==
  /\ CloudSideInit /\ [][CloudSideNext]_cloudSideVars
  /\ WF_cloudSideVars(Fair1) /\ WF_cloudSideVars(Fair2)
  /\ WF_cloudSideVars(Fair3) /\ WF_cloudSideVars(Fair4)
  /\ WF_cloudSideVars(Fair5) /\ WF_cloudSideVars(Fair6)
  /\ WF_cloudSideVars(Fair7) /\ WF_cloudSideVars(Fair8)
  /\ SF_cloudSideVars(InAggregate(FlushTick))

(* Both components' variables keep the shape that their modules give them: *)
(* the ranges and lengths of the code's buffers, buckets and windows.      *)
CloudSideTypeOK == AggTypeOK /\ CloudTypeOK
=============================================================================
