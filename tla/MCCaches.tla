------------------------------ MODULE MCCaches ------------------------------
(***************************************************************************)
(* Programs for the caches.  A page has four lines, one per L1 set, and    *)
(* the L2 has twice as many sets: lines 0, 8 and 16 compete for two ways   *)
(* of both levels, line 4 for the L1 only, and the prefetched lines 2, 10, *)
(* 18 and 3, 11, 19 for two sets of the L2.                                *)
(***************************************************************************)
EXTENDS CacheHierarchy

pair(first_core, second_core) ==
  [c \in Cores |-> IF c = 0 THEN first_core ELSE second_core]

reads(lines) == {"read"} \X lines
writes(lines) == {"write"} \X lines
fetches(lines) == {"fetch"} \X lines

MCWorkloads ==
  {\* a burst fills lines 10 and 11 over code, lines prefetched for it and a
   \* dirty line of the other core
   pair(reads({8, 9}), fetches({2, 18}) \cup writes({19})),
   \* a burst downwards, to the end of the page
   pair(reads({10, 11}), writes({0, 16})),
   \* two streams of one core and a dirty line in the set both fill
   pair(reads({8, 9, 16, 17}), writes({2})),
   \* three streams for two slots; the other core takes a prefetched line
   pair(reads({0, 8, 16, 17}), reads({18})),
   \* the tree of an L1 set picks among dirty, shared and clean lines
   pair(writes({0}) \cup reads({0, 4, 8}), reads({0})),
   \* two writers, one of which overfills both levels
   pair(writes({0}), writes({0}) \cup reads({8, 16})),
   \* code that is modified and evicted
   pair(writes({0}) \cup reads({0, 8}), fetches({0, 4, 8}))}
=============================================================================
