\* Three slots, so hits reorder the slots before one is replaced; two pages, so
\* a burst reaches the end of one.
SPECIFICATION Spec
CONSTANTS
  NumLines = 10
  PAGE_LINES = 5
  NUM_STREAMS = 3
  PREFETCH_DISTANCE = 2
INVARIANTS
  TypeOK
  SteadyRunsAhead
  BurstOnMissedPage
PROPERTIES
  StreamTableSpec
