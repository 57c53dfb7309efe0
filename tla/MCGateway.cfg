\* pipeline: two points of which one is unfit, queues of one and two, three
\* readings and three upsets of the connection, configuration or storage.
\* discovery: two slaves of two registers, lists that overflow, a table with
\* a point of the user's on each slave, two scans and two calls of the web
\* interface.
\* mqtt: two saves, two dials, one failing call, suspension after two.
CONSTANTS
  Points = {p1, p2}
  UnfitPoints = {p2}
  PoolCap = 1
  RawCap = 2
  ContextCap = 1
  OutCap = 1
  CacheCap = 1
  MaxReadings = 3
  MaxUpsets = 3
  LastSlave = 2
  LastRegister = 2
  ListCapacity = 2
  MaxRegisters = 3
  MaxEmptyGap = 1
  Profile <- MCProfile
  AmmCapacity = 3
  Tables <- MCTables
  MaxScans = 2
  MaxWebCalls = 2
  MaxSaves = 2
  MaxDials = 2
  MaxMqttFaults = 1
  AuthLimit = 2
SPECIFICATION GatewaySpec
INVARIANTS
  GatewayTypeOK
  LossAccounted
  ListSettled
  TopicsAtBroker
PROPERTIES
  PoolForward
  ReadingsSettle
  PollingResumes
  EditsSurviveApply
  StopHolds
  RestartFinishes
\* The bounded parts stop at their bounds; the code does not.
CHECK_DEADLOCK FALSE
