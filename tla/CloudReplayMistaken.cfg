\* The platform accepts every message and nothing is lost.
CONSTANTS
  Seqs = {1}
  Unfit = {}
  Modes = {"SUBDEVICE"}
  Codes = {0}
  MaxFaults = 0
SPECIFICATION CloudSpec
INVARIANT RemovedOnOwnAnswer
