\* Two cores, two ways at both levels and two stream slots: snoops, evictions from
\* both levels and bursts of two lines.
SPECIFICATION Spec
CONSTANTS
  NUM_CORES = 2
  NumLines = 20
  L1_SETS = 4
  L2_SETS = 8
  NUM_L1_WAYS = 2
  NUM_L2_WAYS = 2
  NUM_STREAMS = 2
  PREFETCH_DISTANCE = 2
  Words = {w0}
  Vals = {1}
  Zero = 0
  Workloads <- MCWorkloads
\* A fetch of a MODIFIED line aborts the process.
CHECK_DEADLOCK FALSE
INVARIANTS
  OneWayPerLine
PROPERTIES
  MesiProtocolSpec
