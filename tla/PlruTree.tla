------------------------------ MODULE PlruTree ------------------------------
(***************************************************************************)
(* Tree pseudo-LRU (plru.h): a complete binary tree with one bit per inner *)
(* node over the ways of a set.  plru_bits is the function from inner      *)
(* nodes to bits that the code packs into a uint8_t or uint16_t.           *)
(***************************************************************************)
EXTENDS Naturals

CONSTANT WAYS   (* a power of two: the leaves are nodes WAYS-1 .. 2*WAYS-2 *)

Ways == 0 .. WAYS - 1
InnerNodes == 0 .. WAYS - 2
PlruBits == [InnerNodes -> {0, 1}]
NoBits == [n \in InnerNodes |-> 0]

parent(n) == (n - 1) \div 2

\* The nodes below the root on the way from a node to the root.
path[n \in 0 .. 2 * WAYS - 2] == IF n = 0 THEN {} ELSE {n} \cup path[parent(n)]

\* Mutant: the bits on the path point at the way that was used.
plru_update_towards(bits, way) ==
  [k \in InnerNodes |->
     IF \E n \in path[WAYS - 1 + way] : parent(n) = k
       THEN 1 - ((CHOOSE n \in path[WAYS - 1 + way] : parent(n) = k) % 2)
       ELSE bits[k]]

\* Mutant: only the parent of the leaf is updated.
plru_update_one_level(bits, way) ==
  [k \in InnerNodes |->
     IF parent(WAYS - 1 + way) = k THEN (WAYS - 1 + way) % 2 ELSE bits[k]]

\* Every ancestor's bit is set to node & 1: a left child is odd, so the bit
\* points away from the way that was used.
plru_update(bits, way) ==
  [k \in InnerNodes |->
     IF \E n \in path[WAYS - 1 + way] : parent(n) = k
       THEN (CHOOSE n \in path[WAYS - 1 + way] : parent(n) = k) % 2
       ELSE bits[k]]

\* Mutant: the number of the leaf is returned, not that of its way.
plru_victim_leaf(bits) ==
  LET walk[n \in 0 .. 2 * WAYS - 2] ==
        IF n < WAYS - 1 THEN walk[2 * n + 1 + bits[n]] ELSE n
  IN  walk[0]

\* Follow the bits from the root to a leaf.
plru_victim(bits) ==
  LET walk[n \in 0 .. 2 * WAYS - 2] ==
        IF n < WAYS - 1 THEN walk[2 * n + 1 + bits[n]] ELSE n - (WAYS - 1)
  IN  walk[0]
=============================================================================
