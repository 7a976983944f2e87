-------------------------------- MODULE Plru --------------------------------
(***************************************************************************)
(* One set of a cache or TLB under any sequence of hits and replacements,  *)
(* to see what the tree of PlruTree promises about the victims it picks.   *)
(* The histories are not in the code; the bits do not depend on them.      *)
(***************************************************************************)
EXTENDS PlruTree, Sequences, FiniteSets

levels(w) == Cardinality(path[WAYS - 1 + w])

\* A power of two: the tree is complete, with all ways on its last level.
ASSUME WaysAssumption ==
  /\ WAYS \in Nat \ {0, 1}
  /\ \E d \in 1 .. WAYS : WAYS = 2 ^ d
  /\ \A w \in Ways : levels(w) = levels(0)

VARIABLES
  plru_bits,   (* the tree of the set                                      *)
  since,       (* since[w]: the ways used after the last use of way w      *)
  victims      (* the victims since the last hit, the first WAYS of them   *)

vars == <<plru_bits, since, victims>>

used(w) == since' = [v \in Ways |-> IF v = w THEN {} ELSE since[v] \cup {w}]

\* A hit, or a fill of an INVALID way: the set is told which way was used.
touch(w) ==
  /\ plru_bits' = plru_update(plru_bits, w)
  /\ used(w)
  /\ victims' = <<>>

\* Evict and fill the way the tree points at.
replace ==
  LET w == plru_victim(plru_bits)
  IN  /\ plru_bits' = plru_update(plru_bits, w)
      /\ used(w)
      /\ victims' = IF Len(victims) = WAYS THEN <<w>> ELSE Append(victims, w)

Init == plru_bits = NoBits /\ since = [w \in Ways |-> Ways \ {w}] /\ victims = <<>>

Next == replace \/ \E w \in Ways : touch(w)

Spec == Init /\ [][Next]_vars

(***************************************************************************)
(* Properties.                                                             *)
(***************************************************************************)

\* The victim of any reachable tree is a way of the set.
TypeOK ==
  /\ plru_bits \in PlruBits
  /\ plru_victim(plru_bits) \in Ways
  /\ since \in [Ways -> SUBSET Ways]

\* A way survives until as many other ways as the tree has levels were used
\* after it: the line just filled is never the next victim, and two lines used
\* in turn (a copy loop) never evict each other when there are four ways.
RecentWaysAreSafe ==
  \A w \in Ways :
    Cardinality(since[w]) < levels(w) => plru_victim(plru_bits) # w

\* Replacements without a hit in between sweep the set: no way is given up a
\* second time before every other way has been given up.
MissesSweepTheSet ==
  \A a, b \in 1 .. Len(victims) : victims[a] = victims[b] => a = b
=============================================================================
