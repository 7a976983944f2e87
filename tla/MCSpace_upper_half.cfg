\* One process, pages with indices in the upper half of their page table.
SPECIFICATION Spec
CONSTANTS
  Cores = {c0}
  Procs = {p0}
  Pages = {2, 3}
  PAGE_TABLE_ENTRIES = 4
  FRAME_ENTRIES = 2
  size = 8
  limit = 7
  L1_DTLB_SETS = 2
  L2_DTLB_SETS = 2
  ITLB_SETS = 2
  NUM_TLB_WAYS = 1
  Stored = {}
PROPERTIES
  VirtualMemorySpec
