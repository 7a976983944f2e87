\* The L1 caches: eight ways.
SPECIFICATION Spec
CONSTANTS
  WAYS = 8
INVARIANTS
  TypeOK
  RecentWaysAreSafe
  MissesSweepTheSet
