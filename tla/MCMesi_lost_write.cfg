\* Two cores and one L2 way: shared lines are evicted.
SPECIFICATION Spec
CONSTANTS
  Cores = {c0, c1}
  NumLines = 2
  L1_SETS = 1
  L2_SETS = 1
  NUM_L1_WAYS = 1
  NUM_L2_WAYS = 1
  Words = {w0}
  Vals = {0, 1}
  Zero = 0
\* A fetch of a MODIFIED line aborts the process.
CHECK_DEADLOCK FALSE
PROPERTIES
  CoherentMemorySpec
