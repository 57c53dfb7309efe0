\* One medium of two records is enough: the file of the first does not reach
\* it completely, without its header lines, and counts as stored all the same;
\* the second is stored behind it.
CONSTANTS
  Seqs = {1, 2, 3}
  MaxRecords = 2
  Headed = {}
SPECIFICATION Spec
INVARIANT InterruptedWriteRecovered
