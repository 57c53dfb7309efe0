--------------------------- MODULE ConfigRegister ---------------------------
(***************************************************************************)
(* What the runtime configuration promises its users, without slots,       *)
(* generations or flags: one register that a restart must not lose.        *)
(*                                                                         *)
(* `may' holds what a restart may come up with.  A save that succeeds      *)
(* leaves one candidate, the saved configuration; one that fails or is     *)
(* cut off may add its configuration, and never takes a candidate away.    *)
(***************************************************************************)
CONSTANTS Configs,  \* configurations that pass validation
          Off       \* the gateway is not running; not one of Configs

VARIABLES running,  \* the configuration in effect, or Off
          may       \* the configurations a restart may come up with

Init == running = Off /\ may \in (SUBSET Configs) \ {{}}

\* A save is acknowledged: from now on it is what every restart finds.
Settle(c) ==
  /\ running # Off
  /\ running' = c
  /\ may' = {c}

\* A save is refused: the old configuration stays in effect (a reset leaves
\* the defaults in effect), and a restart may still find the new one.
Refuse(c) ==
  /\ running # Off
  /\ running' \in {running, c}
  /\ may' \in {may, may \cup {c}}

\* The power goes, perhaps in the middle of a save.
PowerCut(c) ==
  /\ running # Off
  /\ running' = Off
  /\ may' \in {may, may \cup {c}}

\* A restart comes up with one of the candidates, and may settle on it.
Restart(c) ==
  /\ running = Off
  /\ c \in may
  /\ running' = c
  /\ may' \in {may, {c}}

Next == \E c \in Configs : Settle(c) \/ Refuse(c) \/ PowerCut(c) \/ Restart(c)

Spec == Init /\ [][Next]_<<running, may>>
=============================================================================
