------------------------------ MODULE PollPlan ------------------------------
(***************************************************************************)
(* Which mapping modbus_poll_task polls next (main/scheduler/scheduler.c). *)
(* Each round copies the AMM entries, reads the model version, forgets the *)
(* poll times if the version is new, and polls the due entry that waited   *)
(* longest; a higher priority decides between equals.  A poll takes its    *)
(* time: a silent slave costs timeouts and retries.  The web server edits  *)
(* the table and discovery pauses polling at any moment.  Poll times are   *)
(* kept by position in the table.                                          *)
(***************************************************************************)
EXTENDS Integers, FiniteSets

CONSTANTS Entries,          \* positions in the table, 1 .. n
          Intervals,        \* values of poll_interval_ms, 0: not set
          DefaultInterval,  \* amm_get_default_poll_interval()
          Durations,        \* how long a poll can take
          MaxUptime, MaxTableEdits  \* bounds

VARIABLES
  uptime,      \* esp_timer_get_time()
  pollTable,   \* the AMM: the mapped positions, their interval, priority
  version,     \* amm_get_model_version()
  plan,        \* `mappings', the task's copy of the table
  observed,    \* observed_model_version
  lastPoll,    \* last_poll_ms
  pollStep,    \* "copy", "select" or "poll"
  paused,      \* s_modbus_poll_paused
  overtaken    \* history: per entry, who was polled while it was due

pollVars == <<uptime, pollTable, version, plan, observed, lastPoll, pollStep,
              paused, overtaken>>

ASSUME EntriesAssumption == /\ IsFiniteSet(Entries)
                            /\ Entries = 1..Cardinality(Entries)
ASSUME IntervalAssumption == /\ Intervals \subseteq Nat /\ 0 \in Intervals
                             /\ DefaultInterval \in Nat \ {0}
ASSUME DurationAssumption == Durations \subseteq Nat
ASSUME PollBoundAssumption == /\ MaxUptime \in Nat \ {0}
                              /\ MaxTableEdits \in Nat

Mapping == [interval : Intervals, priority : {1, 2}]
Tables  == UNION {[1..k -> Mapping] : k \in 0..Cardinality(Entries)}
Never   == [i \in Entries |-> 0]

\* the table that amm_init() found in NVS: defaults for every entry
Loaded  == [i \in Entries |-> [interval |-> 0, priority |-> 1]]

PollPlanInit ==
  /\ uptime = 1
  /\ pollTable = Loaded /\ plan = << >> /\ version = 0 /\ observed = 0
  /\ lastPoll = Never
  /\ pollStep = "copy" /\ paused = FALSE
  /\ overtaken = [i \in Entries |-> {}]
-----------------------------------------------------------------------------
IntervalOf(i) == IF plan[i].interval = 0 THEN DefaultInterval
                                         ELSE plan[i].interval
DueAt(i, times) == uptime - times[i] >= IntervalOf(i)

(* Mutant: priority before age. *)
BeforeByPriority(i, j, times) ==
  \/ plan[i].priority > plan[j].priority
  \/ plan[i].priority = plan[j].priority /\ times[i] < times[j]

Before(i, j, times) ==
  \/ times[i] < times[j]
  \/ times[i] = times[j] /\ plan[i].priority > plan[j].priority

\* the scan replaces its choice only by a better one, so the first of the
\* best is selected
OldestFirst(i, due, times) ==
  \A j \in due : ~Before(j, i, times) /\ (~Before(i, j, times) => i <= j)

\* amm_get_entries()
CopyEntries ==
  /\ pollStep = "copy" /\ ~paused
  /\ plan' = pollTable
  /\ pollStep' = "select"
  /\ UNCHANGED <<uptime, pollTable, version, observed, lastPoll, paused,
                 overtaken>>

Forgotten == version # observed

\* amm_get_model_version() and the selection; nothing due: 10 ms of sleep
SelectEntry ==
  /\ pollStep = "select"
  /\ observed' = version
  /\ LET times == IF Forgotten THEN Never ELSE lastPoll
         due   == {i \in DOMAIN plan : DueAt(i, times)}
     IN IF due = {}
        THEN /\ lastPoll' = times /\ pollStep' = "copy"
             /\ overtaken' = [i \in Entries |-> {}]
        ELSE \E s \in due :
               /\ OldestFirst(s, due, times)
               /\ lastPoll' = [times EXCEPT ![s] = uptime]
               /\ pollStep' = "poll"
               /\ overtaken' = [i \in Entries |->
                    IF i = s \/ i \notin due THEN {}
                    ELSE {s} \cup (IF Forgotten THEN {} ELSE overtaken[i])]
  /\ UNCHANGED <<uptime, pollTable, version, plan, paused>>

\* the reads and retries of one poll
PollEnds ==
  /\ pollStep = "poll"
  /\ \E d \in Durations : uptime + d <= MaxUptime /\ uptime' = uptime + d
  /\ pollStep' = "copy"
  /\ UNCHANGED <<pollTable, version, plan, observed, lastPoll, paused,
                 overtaken>>

Sleep ==
  /\ pollStep = "copy" /\ uptime < MaxUptime
  /\ uptime' = uptime + 1
  /\ UNCHANGED <<pollTable, version, plan, observed, lastPoll, pollStep,
                 paused, overtaken>>

EditTable ==
  /\ version < MaxTableEdits
  /\ pollTable' \in Tables \ {pollTable}
  /\ version' = version + 1
  /\ UNCHANGED <<uptime, plan, observed, lastPoll, pollStep, paused,
                 overtaken>>

\* scheduler_pause_modbus_polling(): seen at the next round
Pause ==
  /\ paused' = ~paused
  /\ UNCHANGED <<uptime, pollTable, version, plan, observed, lastPoll,
                 pollStep, overtaken>>

PollPlanNext == \/ CopyEntries \/ SelectEntry \/ PollEnds \/ Sleep
                \/ EditTable \/ Pause

PollPlanSpec == PollPlanInit /\ [][PollPlanNext]_pollVars
-----------------------------------------------------------------------------
PollPlanTypeOK ==
  /\ uptime \in 1..MaxUptime
  /\ pollTable \in Tables /\ plan \in Tables
  /\ version \in 0..MaxTableEdits /\ observed \in 0..version
  /\ lastPoll \in [Entries -> 0..MaxUptime]
  /\ pollStep \in {"copy", "select", "poll"} /\ paused \in BOOLEAN

(***************************************************************************)
(* "Oldest-first selection guarantees that every mapping receives a poll   *)
(* even when a full bus sweep takes longer than its interval" (comment in  *)
(* modbus_poll_task): while an entry is due no other is polled twice, no   *)
(* matter how long polls take, what the priorities are and when the table  *)
(* changes.                                                                *)
(***************************************************************************)
NoStarvation ==
  [][\A i, j \in Entries :
       j \in overtaken[i] /\ lastPoll'[j] > lastPoll[j] /\ observed' = observed
         => j \notin overtaken'[i]]_pollVars
=============================================================================
