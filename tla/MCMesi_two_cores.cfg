\* Two cores, three lines that compete for one L1 way and two L2 ways.
SPECIFICATION Spec
CONSTANTS
  Cores = {c0, c1}
  NumLines = 3
  L1_SETS = 1
  L2_SETS = 1
  NUM_L1_WAYS = 1
  NUM_L2_WAYS = 2
  Words = {w0}
  Vals = {0, 1}
  Zero = 0
SYMMETRY CoreSymmetry
\* A fetch of a MODIFIED line aborts the process.
CHECK_DEADLOCK FALSE
INVARIANTS
  TypeOK
  DirectoryExact
  SingleWriter
  LevelsAgree
  CleanCopiesAgree
  Inclusion
  NoInternalAbort
PROPERTIES
  ReadsDeliverCurrentValue
  ValueChangesOnlyByStoreOrCleanEviction
