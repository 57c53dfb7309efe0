\* sequence: blocks of two identifiers and identifiers up to 8: several
\* reservations, resets and failed NVS writes in one behaviour.
\* config: the defaults, the configuration in effect and the next one; five
\* generations: two of an older firmware, its migration and two saves more,
\* with power cuts at every stage.  nvs_commit() of ESP-IDF writes nothing,
\* so no save fails after moving the flag: "flagged" is no fault.
\* poll: three entries, a poll longer than any interval, one table edit.
\* bus: as many tasks as a mutex and a waiting queue need, one of which runs
\* before modbus_rtu_init(), five requests.
\* north: bytes of two values, so that a type overflows; a BOOL by its unrounded
\* value.
\* amm: three points and slots, a snapshot of two, three operations, a fault.
\* automation: two rules, identifiers up to two, of the engine's or the client's
\* choice, three edits or restarts, also during a pass, one failed save.
\* log: two loggers, buffers of two, an export against every card operation,
\* with and without its tail.
CONSTANTS
  Reservation = 2
  MaxSequence = 8
  Default = d
  Configs = {d, c1, c2}
  Off = off
  Faults = {"none", "corrupt", "blob"}
  MaxGeneration = 5
  Entries = {1, 2, 3}
  Intervals = {0, 2}
  DefaultInterval = 1
  Durations = {1, 3}
  MaxUptime = 6
  MaxTableEdits = 1
  Tasks = {poll, scan, control}
  Early = {control}
  MaxRequests = 5
  Base = 2
  PointModels <- MCModels
  Commands <- MCCommands
  MaxClients = 1
  MaxPolls = 2
  MaxConnects = 1
  Keys <- MCKeys
  Imports <- MCImports
  OldImage <- MCOld
  DemoKeys <- MCDemo
  Capacity = 3
  RollbackMax = 2
  MaxOps = 3
  MaxAmmFaults = 1
  Sources = {s1}
  MaxRules = 2
  Hold = 1
  Cooldown = 1
  MaxClock = 3
  MaxRuleIds = 2
  MaxEdits = 3
  MaxSaveFaults = 1
  Loggers = {l1, l2}
  RingSize = 2
  PendingMax = 2
  FileMax = 1
  CardMax = 1
  MaxEntries = 3
  MaxCardFaults = 1
  MaxExports = 1
SPECIFICATION SafetySpec
INVARIANTS
  SafetyTypeOK
  ReservationCoversIssued
  Recoverable
  IdsUnique
  StoredIsRunning
  PointMappedOnce
  WriteReadsBack
  ExclusiveUnlessRaced
  FlushedMeanwhileKept
PROPERTIES
  AscendingIssue
  RegisterSpec
  HoldRespected
  CooldownRespected
  NoStarvation
  UserSemanticsKept
\* The bounded parts stop at their bounds; the code does not.
CHECK_DEADLOCK FALSE
