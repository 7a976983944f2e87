\* Three slots on two lines; each L1 set holds one line, each L2 set two.
SPECIFICATION QueueFairSpec
CONSTANTS
  Cores = {0, 1}
  NumLines = 8
  L1_SETS = 2
  L2_SETS = 2
  NUM_L1_WAYS = 1
  NUM_L2_WAYS = 2
  Words = {0, 1}
  Vals = {0, 1, 2, 3, 4}
  Zero = 0
  BUF_SIZE = 3
  ITEMS = 5
  SLOTS_PER_LINE = 2
  queue_line <- MCLines
PROPERTIES
  QueueOverFlatMemory
  QueueDrains
