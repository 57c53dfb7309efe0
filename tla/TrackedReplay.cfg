\* Two records, one more slot than faults, and an id for every slot, the
\* message being sent and one more.
CONSTANTS
  Seqs = {1, 2}
  Capacity = 2
  Slots = 2
  Ids = {1, 2, 3}
  MaxFaults = 1
SPECIFICATION FairSpec
PROPERTY CacheDrains
