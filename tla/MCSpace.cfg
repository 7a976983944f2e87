\* Two processes, two pages that compete for one way of a TLB; memory for some of
\* the pages only, up to its last frame, as in every program; pages mapped again,
\* stores that look like entries.
SPECIFICATION Spec
CONSTANTS
  Cores = {c0}
  Procs = {p0, p1}
  Pages = {0, 4}
  PAGE_TABLE_ENTRIES = 4
  FRAME_ENTRIES = 2
  size = 9
  limit = 9
  L1_DTLB_SETS = 1
  L2_DTLB_SETS = 2
  ITLB_SETS = 1
  NUM_TLB_WAYS = 1
  Stored = {3}
SYMMETRY ProcSymmetry
INVARIANTS
  TypeOK
  TranslationsStayInProcess
  FramesExclusive
PROPERTIES
  VirtualMemorySpec
