\* Two threads, blocks with room for two events, memory for two blocks.
SPECIFICATION Spec
CONSTANTS
  Threads = {t0, t1}
  NoThread = nobody
  Bytes = {zero, one}
  ZeroBytes = zero
  NoData = null
  EVENT_SIZE = 5
  ALIGN = 2
  BLOCK_SIZE = 13
  MaxBlocks = 2
  MaxSteps = 3
  MaxEvents = 5
\* The process ends.
CHECK_DEADLOCK FALSE
INVARIANTS
  TypeOK
  NodesDisjoint
  ListInPushOrder
  StepsContiguous
  LoadedIsRecorded
