\* As many faults as slots: one of each.
CONSTANTS
  Seqs = {1}
  Capacity = 1
  Slots = 1
  Ids = {1, 2, 3}
  MaxFaults = 1
SPECIFICATION FairSpec
PROPERTY CacheDrains
