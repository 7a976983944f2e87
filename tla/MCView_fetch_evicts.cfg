\* One core whose code does not fit its L1I.
SPECIFICATION VisualizerSpec
CONSTANTS
  NUM_CORES = 1
  NumLines = 5
  L1_SETS = 2
  L2_SETS = 2
  NUM_L1_WAYS = 1
  NUM_L2_WAYS = 2
  NUM_STREAMS = 1
  PREFETCH_DISTANCE = 1
  Words = {w0}
  Vals = {1}
  Zero = 0
  Workloads <- EvictedCode
  Keys = {"right"}
  MaxAccesses = 4
  MAX_SPEED = 1
  FLASH = 1
\* Escape ends the visualizer.
CHECK_DEADLOCK FALSE
INVARIANTS
  ShadowL1dTrue
