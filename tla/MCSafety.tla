------------------------------ MODULE MCSafety ------------------------------
(***************************************************************************)
(* One model for TLC of the components whose properties are about safety.  *)
(* They share no state: a behaviour is that of one of them, its `part',    *)
(* and the others stay where they began.                                   *)
(***************************************************************************)
EXTENDS TcmSequence, RuntimeConfig, PollPlan, ModbusBus, Northbound,
        AmmStore, Automation, LogExport

VARIABLE part

\* AMM: a holding and an input register at the same address, and a second
\* device; the older table begins with a demonstration point
Holding1 == [dev |-> 1, reg |-> 1, fc |-> 3]
Input1   == [dev |-> 1, reg |-> 1, fc |-> 4]
Holding2 == [dev |-> 2, reg |-> 1, fc |-> 3]
MCKeys    == {Holding1, Input1, Holding2}
MCImports == {<<Input1, Holding1>>, <<Holding2>>}
MCOld     == <<Holding2, Holding1>>
MCDemo    == {Holding2}

\* Northbound: bytes of two values; every type, and each order of the words
\* and bytes at least once; the command 1 sets the BOOL, a quarter of its 1
Model(type, order, scale, offset) ==
  [type |-> type, order |-> order, scale |-> scale, offset |-> offset,
   min |-> -2, max |-> 4]
MCModels ==
  {Model("BOOL", "ABCD", 4, 0),   Model("BITFIELD16", "ABCD", 1, 0),
   Model("UINT16", "CDAB", 1, 1), Model("INT16", "BADC", 1, 0),
   Model("INT16", "ABCD", 2, 0),  Model("UINT32", "CDAB", 1, 0),
   Model("INT32", "DCBA", 2, 0)}
MCCommands == {-1, 1, 4}

Parts == {"sequence", "config", "poll", "bus", "north", "amm", "automation",
          "log"}

\* a part that is not looked at begins in one state
SafetyInit ==
  /\ part \in Parts
  /\ TcmInit /\ PollPlanInit /\ AutomationInit /\ LogInit
  /\ ConfigInit
  /\ part # "config" => FoundEmptyOrV1 /\ legacy = Blank
  /\ BusInit
  /\ part # "bus" => ~rtu
  /\ NorthInit
  /\ part # "north" => point = CHOOSE p \in PointModels : TRUE
  /\ AmmInit
  /\ part # "amm" => mappings = <<>>

SafetyNext ==
  /\ UNCHANGED part
  /\ \/ /\ part = "sequence" /\ TcmNext
        /\ UNCHANGED <<configVars, pollVars, busVars, northVars, ammVars,
                       automationVars, logVars>>
     \/ /\ part = "config" /\ ConfigNext
        /\ UNCHANGED <<tcmVars, pollVars, busVars, northVars, ammVars,
                       automationVars, logVars>>
     \/ /\ part = "poll" /\ PollPlanNext
        /\ UNCHANGED <<tcmVars, configVars, busVars, northVars, ammVars,
                       automationVars, logVars>>
     \/ /\ part = "bus" /\ BusNext
        /\ UNCHANGED <<tcmVars, configVars, pollVars, northVars, ammVars,
                       automationVars, logVars>>
     \/ /\ part = "north" /\ NorthNext
        /\ UNCHANGED <<tcmVars, configVars, pollVars, busVars, ammVars,
                       automationVars, logVars>>
     \/ /\ part = "amm" /\ AmmNext
        /\ UNCHANGED <<tcmVars, configVars, pollVars, busVars, northVars,
                       automationVars, logVars>>
     \/ /\ part = "automation" /\ AutomationNext
        /\ UNCHANGED <<tcmVars, configVars, pollVars, busVars, northVars,
                       ammVars, logVars>>
     \/ /\ part = "log" /\ LogNext
        /\ UNCHANGED <<tcmVars, configVars, pollVars, busVars, northVars,
                       ammVars, automationVars>>

SafetySpec ==
  SafetyInit
    /\ [][SafetyNext]_<<part, tcmVars, configVars, pollVars, busVars,
                        northVars, ammVars, automationVars, logVars>>

(* Every component's variables keep the shape that its module gives them:  *)
(* the ranges and lengths of the code's tables, buffers and counters.      *)
SafetyTypeOK ==
  /\ TcmTypeOK /\ ConfigTypeOK /\ PollPlanTypeOK /\ BusTypeOK
  /\ NorthTypeOK /\ AmmTypeOK /\ AutomationTypeOK /\ LogTypeOK
=============================================================================
