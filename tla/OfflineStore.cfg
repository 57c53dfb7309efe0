\* Two records per medium and four sequence identifiers: both media fill up,
\* overflow and evict, and records arrive out of order.
CONSTANTS
  Seqs = {1, 2, 3, 4}
  MaxRecords = 2
  Headed = {2}
SPECIFICATION Spec
INVARIANTS
  TypeOK
  NoSilentLoss
  IndexExact
  FlashBounded
  PeekIsOldest
PROPERTY QueueSpec
