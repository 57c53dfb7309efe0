----------------------------- MODULE Automation -----------------------------
(***************************************************************************)
(* The offline rule engine (main/automation/automation_engine.c).          *)
(* automation_task copies the rules under the mutex, then walks over its   *)
(* copy without it, keeping hold and cooldown times in arrays indexed by   *)
(* the POSITION of a rule.  The web server adds, replaces and deletes      *)
(* rules meanwhile, and saves the table in NVS; a save may fail.           *)
(*                                                                         *)
(* The level of a rule's source relative to its threshold is all that      *)
(* condition_matches() depends on: "high" is beyond the threshold, "band"  *)
(* within the hysteresis, "gone" a point that the state pool does not      *)
(* have.  Time is in units of one pass; execute_rule() may take any time.  *)
(***************************************************************************)
EXTENDS Integers, Sequences, FiniteSets, Arrays

CONSTANTS Sources,     \* points that rules watch
          MaxRules,    \* AUTOMATION_MAX_RULES
          Hold, Cooldown,  \* hold_ms and cooldown_ms of every rule
          MaxClock, MaxRuleIds, MaxEdits, MaxSaveFaults  \* bounds

\* The table has a size, and times are numbers of passes.
ASSUME RulesAssumption == MaxRules \in Nat
ASSUME DelaysAssumption == Hold \in Nat /\ Cooldown \in Nat
ASSUME RuleBoundAssumption == MaxClock \in Nat \ {0} /\ MaxRuleIds \in Nat

RuleSlots  == 1..MaxRules
Levels == {"gone", "low", "band", "high"}

VARIABLES
  rules,        \* s_rules[0 .. s_count-1]: [id, src]
  nextId,       \* s_next_id
  since, last,  \* s_condition_since, s_last_trigger; 0: unset
  holds,       \* s_condition_active
  saved,        \* the NVS blob: rules and next_id
  clock,        \* esp_timer_get_time()
  level,        \* the state pool: the level of each source
  copy, now,    \* automation_task: its copy of the rules and its time
  at,           \* the slot it looks at, 0 between passes
  firing,       \* execute_rule() is under way for slot at
  edits, saveFaults,
  ahead,        \* history: identifiers that a client chose before s_next_id
                \* had reached them
  touched,      \* history: slots that an edit gave another rule during the
                \* pass under way, which looks at the rule of before
  matching,     \* history: when the rule of a slot was first seen to match,
                \* by the clock; 0: it did not match when looked at last
  stamp,        \* history: when the pass began that first saw it match
  fired, late   \* history: when a slot fired last since the last edit, by
                \* the clock, and how long its pass had then been running

ruleVars  == <<rules, nextId, saved, edits, saveFaults, ahead>>
timeVars  == <<since, last, holds>>
passVars  == <<copy, now, at, firing>>
traceVars == <<matching, stamp, fired, late>>
automationVars ==
  <<ruleVars, timeVars, passVars, touched, traceVars, clock, level>>

Zero == [i \in RuleSlots |-> 0]

AutomationInit ==
  /\ rules = <<>> /\ nextId = 1 /\ saved = [rules |-> <<>>, nextId |-> 1]
  /\ since = Zero /\ last = Zero /\ holds = [i \in RuleSlots |-> FALSE]
  /\ clock = 1
  /\ level = [s \in Sources |-> "gone"]
  /\ copy = <<>> /\ now = 0 /\ at = 0 /\ firing = FALSE
  /\ edits = 0 /\ saveFaults = 0 /\ ahead = {} /\ touched = {}
  /\ matching = Zero /\ stamp = Zero /\ fired = Zero /\ late = Zero
-----------------------------------------------------------------------------
(***************************************************************************)
(* Editing.  save_locked() writes the table and next_id; when it fails the *)
(* caller gets the error but the table in RAM stays changed.               *)
(***************************************************************************)
SaveRules ==
  \/ /\ saved' = [rules |-> rules', nextId |-> nextId']
     /\ UNCHANGED saveFaults
  \/ /\ saveFaults < MaxSaveFaults /\ saveFaults' = saveFaults + 1
     /\ UNCHANGED saved

Edited ==
  /\ edits < MaxEdits /\ edits' = edits + 1
  /\ UNCHANGED <<holds, passVars, clock, level>>

SlotsOf(id) == {i \in 1..Len(rules) : rules[i].id = id}

\* slots S get another rule: a pass under way still has the one of before
Touched(S) == touched' = IF at = 0 THEN touched ELSE touched \cup S

\* slot i gets a new rule; the rules after a deleted one move up
Redefined(i) == /\ matching' = [matching EXCEPT ![i] = 0]
                /\ stamp' = [stamp EXCEPT ![i] = 0]
                /\ fired' = [fired EXCEPT ![i] = 0]
                /\ late' = [late EXCEPT ![i] = 0]
                /\ Touched({i})
Shifted(f, i) == [j \in RuleSlots |-> IF j < i THEN f[j]
                                     ELSE IF j = MaxRules THEN 0
                                     ELSE f[j + 1]]
Closed(i)   == /\ matching' = Shifted(matching, i)
               /\ stamp' = Shifted(stamp, i)
               /\ fired' = Zero /\ late' = Zero
               /\ Touched(i..MaxRules)
First(S)    == CHOOSE i \in S : \A j \in S : i <= j

(* Mutant: a delete that leaves the hold times where they are. *)
DeleteKeepsTimes(id) ==
  /\ SlotsOf(id) # {}
  /\ LET i == First(SlotsOf(id))
     IN /\ rules' = Without(rules, i)
        /\ Closed(i)
  /\ last' = Zero
  /\ UNCHANGED <<nextId, ahead, since>>
  /\ SaveRules /\ Edited

\* automation_upsert_rule() of a rule that the table does not have: without
\* an identifier it gets the next one; with one it keeps it, and s_next_id is
\* not raised above it
Insert(id, src) ==
  /\ Len(rules) < MaxRules
  /\ id = 0 => nextId <= MaxRuleIds
  /\ rules' = Append(rules, [id  |-> IF id = 0 THEN nextId ELSE id,
                             src |-> src])
  /\ nextId' = IF id = 0 THEN nextId + 1 ELSE nextId
  /\ ahead' = IF id >= nextId THEN ahead \cup {id} ELSE ahead
  /\ since' = [since EXCEPT ![Len(rules) + 1] = 0]
  /\ last' = [last EXCEPT ![Len(rules) + 1] = 0]
  /\ Redefined(Len(rules) + 1)
  /\ SaveRules /\ Edited

\* ... and of one that it has: the first with that identifier is replaced
Replace(id, src) ==
  /\ LET i == First(SlotsOf(id))
     IN /\ rules' = [rules EXCEPT ![i] = [id |-> id, src |-> src]]
        /\ since' = [since EXCEPT ![i] = 0]
        /\ last' = [last EXCEPT ![i] = 0]
        /\ Redefined(i)
  /\ UNCHANGED <<nextId, ahead>>
  /\ SaveRules /\ Edited

\* a client sends no identifier, or any number
Upsert(src) ==
  \E id \in 0..MaxRuleIds :
    IF SlotsOf(id) = {} THEN Insert(id, src) ELSE Replace(id, src)

Delete(id) ==
  /\ SlotsOf(id) # {}
  /\ LET i == First(SlotsOf(id))
     IN /\ rules' = Without(rules, i)
        /\ Closed(i)
  /\ since' = Zero /\ last' = Zero
  /\ UNCHANGED <<nextId, ahead>>
  /\ SaveRules /\ Edited
-----------------------------------------------------------------------------
(***************************************************************************)
(* automation_task: a pass over the copy, one rule at a time               *)
(***************************************************************************)
BeginPass ==
  /\ at = 0 /\ rules # <<>>
  /\ copy' = rules /\ now' = clock /\ at' = 1
  /\ UNCHANGED <<ruleVars, timeVars, touched, traceVars, firing, clock,
                 level>>

\* the next rule of the copy, or the end of the pass
Advanced ==
  IF at < Len(copy) THEN at' = at + 1 /\ UNCHANGED touched
                    ELSE at' = 0 /\ touched' = {}

Matches(src) == level[src] = "high" \/ (level[src] = "band" /\ holds[at])

\* slot at still belongs to the rule that the pass looks at
Own == at \notin touched

\* the rule is disabled, or its source is not in the state pool: its
\* times stay as they are
Skip ==
  /\ at # 0 /\ ~firing /\ level[copy[at].src] = "gone"
  /\ Advanced
  /\ UNCHANGED <<ruleVars, timeVars, traceVars, copy, now, firing, clock,
                 level>>

NoMatch ==
  /\ at # 0 /\ ~firing
  /\ level[copy[at].src] # "gone" /\ ~Matches(copy[at].src)
  /\ holds' = [holds EXCEPT ![at] = FALSE]
  /\ since' = [since EXCEPT ![at] = 0]
  /\ matching' = [matching EXCEPT ![at] = IF Own THEN 0 ELSE @]
  /\ stamp' = [stamp EXCEPT ![at] = 0]
  /\ Advanced
  /\ UNCHANGED <<ruleVars, last, fired, late, copy, now, firing, clock,
                 level>>

\* `now' was read at the beginning of the pass, whose earlier rules may have
\* been executed since
Begun(t) == IF t[at] = 0 THEN now ELSE t[at]
Due      == now - Begun(since) >= Hold /\ now - last[at] >= Cooldown

\* a match: the rule waits out its hold time and its cooldown, or fires
Match ==
  /\ at # 0 /\ ~firing
  /\ level[copy[at].src] # "gone" /\ Matches(copy[at].src)
  /\ holds' = [holds EXCEPT ![at] = TRUE]
  /\ since' = [since EXCEPT ![at] = Begun(since)]
  /\ matching' = [matching EXCEPT
                   ![at] = IF Own /\ @ = 0 THEN clock ELSE @]
  /\ stamp' = [stamp EXCEPT ![at] = Begun(stamp)]
  /\ firing' = Due
  /\ IF Due THEN /\ UNCHANGED <<at, touched>>
                 /\ fired' = [fired EXCEPT ![at] = clock]
                 /\ late' = [late EXCEPT ![at] = clock - now]
            ELSE Advanced /\ UNCHANGED <<fired, late>>
  /\ UNCHANGED <<ruleVars, last, copy, now, clock, level>>

(* Mutant: the cooldown starts only after an action that succeeded. *)
FinishKeepsLast ==
  /\ firing
  /\ firing' = FALSE
  /\ \/ last' = [last EXCEPT ![at] = now]
     \/ UNCHANGED last
  /\ Advanced
  /\ UNCHANGED <<ruleVars, since, holds, traceVars, copy, now, clock, level>>

\* the interlock or execute_rule() has answered, whatever the answer
Finish ==
  /\ firing
  /\ firing' = FALSE
  /\ last' = [last EXCEPT ![at] = now]
  /\ Advanced
  /\ UNCHANGED <<ruleVars, since, holds, traceVars, copy, now, clock, level>>
-----------------------------------------------------------------------------
Tick ==
  /\ clock < MaxClock /\ clock' = clock + 1
  /\ UNCHANGED <<ruleVars, timeVars, passVars, touched, traceVars, level>>

LevelChanges(s) ==
  /\ level' \in {[level EXCEPT ![s] = l] : l \in Levels \ {level[s]}}
  /\ UNCHANGED <<ruleVars, timeVars, passVars, touched, traceVars, clock>>

(* Mutant: next_id is not part of what is saved. *)
RestartNumbersAgain ==
  /\ rules' = saved.rules /\ nextId' = 1
  /\ since' = Zero /\ last' = Zero /\ holds' = [i \in RuleSlots |-> FALSE]
  /\ clock' = 1 /\ level' = [s \in Sources |-> "gone"]
  /\ copy' = <<>> /\ now' = 0 /\ at' = 0 /\ firing' = FALSE
  /\ touched' = {} /\ matching' = Zero /\ stamp' = Zero
  /\ fired' = Zero /\ late' = Zero
  /\ edits < MaxEdits /\ edits' = edits + 1
  /\ UNCHANGED <<saved, saveFaults, ahead>>

\* automation_init() after a restart: the table of the last good save
Restart ==
  /\ rules' = saved.rules /\ nextId' = saved.nextId
  /\ since' = Zero /\ last' = Zero /\ holds' = [i \in RuleSlots |-> FALSE]
  /\ clock' = 1 /\ level' = [s \in Sources |-> "gone"]
  /\ copy' = <<>> /\ now' = 0 /\ at' = 0 /\ firing' = FALSE
  /\ touched' = {} /\ matching' = Zero /\ stamp' = Zero
  /\ fired' = Zero /\ late' = Zero
  /\ edits < MaxEdits /\ edits' = edits + 1
  /\ UNCHANGED <<saved, saveFaults, ahead>>

PassStep == BeginPass \/ Skip \/ NoMatch \/ Match \/ Finish

AutomationNext ==
  \/ \E s \in Sources : Upsert(s) \/ LevelChanges(s)
  \/ \E id \in 1..MaxRuleIds : Delete(id)
  \/ PassStep \/ Tick \/ Restart

AutomationSpec == AutomationInit /\ [][AutomationNext]_automationVars
-----------------------------------------------------------------------------
Rule == [id : 1..MaxRuleIds, src : Sources]

AutomationTypeOK ==
  /\ Len(rules) <= MaxRules /\ \A i \in 1..Len(rules) : rules[i] \in Rule
  /\ nextId \in 1..(MaxRuleIds + 1)
  /\ {since, last} \subseteq [RuleSlots -> 0..MaxClock]
  /\ holds \in [RuleSlots -> BOOLEAN]
  /\ level \in [Sources -> Levels]
  /\ at \in 0..Len(copy) /\ (firing => at # 0)

(***************************************************************************)
(* Two rules have the same identifier only if it is one that a client      *)
(* chose before s_next_id had reached it; so never when clients send no    *)
(* identifiers but those they were given, whatever save fails and whatever *)
(* rules were deleted before a restart.                                    *)
(***************************************************************************)
IdsUnique ==
  \A i, j \in 1..Len(rules) :
    rules[i].id = rules[j].id => i = j \/ rules[i].id \in ahead

(***************************************************************************)
(* A rule fires only when it matched in every evaluation of the last       *)
(* hold_ms, by the clock; less the time by which the pass that first saw   *)
(* it match had begun before it got to the rule, since the engine takes    *)
(* the time once per pass.  That pass may have executed other rules first, *)
(* or, for a rule put into its slot during the pass, still have looked at  *)
(* the one of before.  That other rules are deleted and this one moves to  *)
(* another slot makes no difference.  A rule replaced or deleted during    *)
(* the pass fires only if it has no hold time.                             *)
(***************************************************************************)
HoldRespected ==
  [][~firing /\ firing' =>
       IF at \in touched THEN Hold = 0
       ELSE /\ matching'[at] # 0
            /\ clock - matching'[at] >= Hold - (matching'[at] - stamp'[at])
    ]_firing

(***************************************************************************)
(* Two firings from one slot with no edit between them are at least        *)
(* cooldown_ms apart, by the clock and whatever the interlock or the write *)
(* answered; less the time by which the pass of the first had begun        *)
(* before, since it is the pass's time that is kept.                       *)
(***************************************************************************)
CooldownRespected ==
  [][~firing /\ firing' /\ fired[at] # 0
       => clock - fired[at] >= Cooldown - late[at]]_firing
=============================================================================
