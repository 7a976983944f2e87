\* Four accesses of two cores, recorded and then played back with every key.
SPECIFICATION FairVisualizerSpec
CONSTANTS
  NUM_CORES = 2
  NumLines = 5
  L1_SETS = 2
  L2_SETS = 2
  NUM_L1_WAYS = 1
  NUM_L2_WAYS = 2
  NUM_STREAMS = 1
  PREFETCH_DISTANCE = 1
  Words = {w0}
  Vals = {1}
  Zero = 0
  Workloads <- MCWorkloads
  Keys = {"space", "right", "left", "up", "down", "escape"}
  MaxAccesses = 4
  MAX_SPEED = 2
  FLASH = 2
\* Escape ends the visualizer.
CHECK_DEADLOCK FALSE
INVARIANTS
  ShadowL1dTrue
  CountersTrue
  ShadowL2Filled
PROPERTIES
  ForwardKeepsBytesTrue
  PlaybackFinishes
  FlashesFade
