\* aggregate: two points and an aggregate of two that fits one packet, three
\* switches: of the session, the mode, the replay, the platform's answers, the
\* slaves, a packet or a value.
\* replay: both report modes, one record that cannot be sent, an answer of
\* each kind and one fault.
CONSTANTS
  CloudPoints = {p1, p2}
  AggMax = 2
  PackSize = 2
  MaxTokens = 1
  MaxSwitches = 3
  Seqs = {1, 2}
  Unfit = {2}
  Modes = {"GATEWAY", "SUBDEVICE"}
  Codes = {0, 402, 403, 413}
  MaxFaults = 1
SPECIFICATION CloudSideSpec
INVARIANTS
  CloudSideTypeOK
  RateKept
  KeptUntilSent
PROPERTIES
  EveryPointPublished
  AttemptEnds
  ReplayKeepsTrying
\* The bounded parts stop at their bounds; the code does not.
CHECK_DEADLOCK FALSE
