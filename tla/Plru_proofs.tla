----------------------------- MODULE Plru_proofs -----------------------------
(***************************************************************************)
(* Proofs about PlruTree and Plru for sets of every number of ways.        *)
(***************************************************************************)
EXTENDS Plru, FiniteSetTheorems, SequenceTheorems,
        WellFoundedInduction, TLAPS

Nodes == 0 .. 2 * WAYS - 2
leaf(w) == WAYS - 1 + w

LEMMA Least ==
  ASSUME NEW T, T \subseteq Nat, T # {}
  PROVE  \E x \in T : \A y \in T : x <= y
PROOF
<1>1. PICK x \in T : \A y \in T : <<y, x>> \notin OpToRel(<, Nat)
  BY NatLessThanWellFounded, WFMin
<1>2. ASSUME NEW y \in T PROVE x <= y
  <2>1. ~(y < x)
    BY <1>1 DEF OpToRel
  <2>2. QED
    BY <2>1
<1>3. QED
  BY <1>2

\* The last node of a set, as the first one counted from the end.
LEMMA LastNode ==
  ASSUME NEW T \in SUBSET Nodes, T # {}
  PROVE  \E x \in T : \A y \in T : y <= x
PROOF
<1> DEFINE N == 2 * WAYS - 2
           D == {N - y : y \in T}
<1>1. N \in Nat /\ \A y \in T : y \in Nat /\ y <= N
  BY WaysAssumption DEF Nodes
<1>2. D \subseteq Nat /\ D # {}
  BY <1>1
<1>3. PICK d \in D : \A e \in D : d <= e
  BY <1>2, Least
<1>4. PICK x \in T : d = N - x
  BY <1>3
<1>5. ASSUME NEW y \in T PROVE y <= x
  <2>1. N - x <= N - y
    BY <1>3, <1>4
  <2>2. QED
    BY <2>1, <1>1
<1>6. QED
  BY <1>5

(***************************************************************************)
(* The shape of the tree.                                                  *)
(***************************************************************************)
LEMMA ParentNode ==
  ASSUME NEW n \in Nodes \ {0}
  PROVE  /\ parent(n) \in InnerNodes /\ parent(n) \in Nodes /\ parent(n) < n
         /\ n = 2 * parent(n) + 1 \/ n = 2 * parent(n) + 2
BY WaysAssumption DEF Nodes, InnerNodes, parent

LEMMA ChildNode ==
  ASSUME NEW p \in InnerNodes, NEW n \in {2 * p + 1, 2 * p + 2}
  PROVE  p \in Nodes /\ n \in Nodes \ {0} /\ parent(n) = p /\ p < n
BY WaysAssumption DEF Nodes, InnerNodes, parent

LEMMA LeafNode ==
  /\ \A w \in Ways : leaf(w) \in Nodes \ {0} /\ leaf(w) \notin InnerNodes
  /\ \A n \in Nodes \ InnerNodes : n - (WAYS - 1) \in Ways /\ n = leaf(n - (WAYS - 1))
  /\ \A v, w \in Ways : leaf(v) = leaf(w) => v = w
  /\ 0 \in InnerNodes /\ 0 \in Nodes
BY WaysAssumption DEF Nodes, InnerNodes, leaf, Ways

\* Induction from the root to the leaves.
LEMMA Climb ==
  ASSUME NEW S, 0 \in S,
         \A n \in Nodes \ {0} : parent(n) \in S => n \in S
  PROVE  Nodes \subseteq S
PROOF
<1> SUFFICES ASSUME Nodes \ S # {} PROVE FALSE
  OBVIOUS
<1>1. Nodes \ S \subseteq Nat
  BY DEF Nodes
<1>2. PICK n \in Nodes \ S : \A k \in Nodes \ S : n <= k
  BY <1>1, Least
<1>3. n \in Nodes \ {0}
  OBVIOUS
<1>4. parent(n) \in Nodes /\ parent(n) < n
  BY <1>3, ParentNode
<1>5. parent(n) \in S
  BY <1>2, <1>4 DEF Nodes
<1>6. QED
  BY <1>3, <1>5

(***************************************************************************)
(* The recursive functions of PlruTree.  A recursive definition is a       *)
(* choice among the functions that satisfy its equation; the nodes reached *)
(* from a node by a step provide one.                                      *)
(***************************************************************************)
Reached(A, step, n) ==
  {m \in Nodes : \A S \in SUBSET Nodes :
     n \in S /\ (\A k \in S \cap A : step[k] \in S) => m \in S}

LEMMA ReachedFrom ==
  ASSUME NEW A \in SUBSET Nodes, NEW step \in [A -> Nodes], NEW n \in Nodes
  PROVE  /\ n \in Reached(A, step, n)
         /\ \A k \in Reached(A, step, n) \cap A : step[k] \in Reached(A, step, n)
         /\ \A S \in SUBSET Nodes :
              n \in S /\ (\A k \in S \cap A : step[k] \in S) => Reached(A, step, n) \subseteq S
BY DEF Reached

LEMMA ReachedUnfold ==
  ASSUME NEW A \in SUBSET Nodes, NEW step \in [A -> Nodes], NEW n \in Nodes
  PROVE  /\ n \in A => Reached(A, step, n) = {n} \cup Reached(A, step, step[n])
         /\ n \notin A => Reached(A, step, n) = {n}
PROOF
<1>1. CASE n \in A
  <2> DEFINE R == Reached(A, step, n)
             T == Reached(A, step, step[n])
  <2>1. step[n] \in Nodes
    BY <1>1
  <2>2. /\ n \in R /\ R \subseteq Nodes
        /\ \A k \in R \cap A : step[k] \in R
        /\ \A S \in SUBSET Nodes :
             n \in S /\ (\A k \in S \cap A : step[k] \in S) => R \subseteq S
    BY ReachedFrom DEF Reached
  <2>3. /\ step[n] \in T /\ T \subseteq Nodes
        /\ \A k \in T \cap A : step[k] \in T
        /\ \A S \in SUBSET Nodes :
             step[n] \in S /\ (\A k \in S \cap A : step[k] \in S) => T \subseteq S
    BY <2>1, ReachedFrom DEF Reached
  <2> HIDE DEF R, T
  <2>4. T \subseteq R
    BY <1>1, <2>2, <2>3
  <2>5. R \subseteq {n} \cup T
    <3>1. {n} \cup T \in SUBSET Nodes /\ \A k \in ({n} \cup T) \cap A : step[k] \in {n} \cup T
      BY <2>3
    <3>2. QED
      BY <2>2, <3>1
  <2>6. QED
    BY <1>1, <2>2, <2>4, <2>5 DEF R, T
<1>2. CASE n \notin A
  <2>1. {n} \in SUBSET Nodes /\ {n} \cap A = {}
    BY <1>2
  <2>2. n \in Reached(A, step, n) /\ Reached(A, step, n) \subseteq {n}
    BY <2>1, ReachedFrom
  <2>3. QED
    BY <1>2, <2>2
<1>3. QED
  BY <1>1, <1>2

LEMMA PathUnfold ==
  /\ path[0] = {}
  /\ \A n \in Nodes \ {0} : path[n] = {n} \cup path[parent(n)]
PROOF
<1> DEFINE A == Nodes \ {0}
           step == [n \in A |-> parent(n)]
           F(f) == [n \in 0 .. 2 * WAYS - 2 |-> IF n = 0 THEN {} ELSE {n} \cup f[parent(n)]]
           g == [n \in Nodes |-> Reached(A, step, n) \ {0}]
<1>1. g = F(g)
  <2>1. A \in SUBSET Nodes /\ step \in [A -> Nodes]
    BY ParentNode
  <2>2. ASSUME NEW n \in Nodes PROVE g[n] = IF n = 0 THEN {} ELSE {n} \cup g[parent(n)]
    <3>1. CASE n = 0
      <4>1. Reached(A, step, n) = {n}
        BY <2>1, <3>1, ReachedUnfold
      <4>2. QED
        BY <3>1, <4>1
    <3>2. CASE n # 0
      <4>1. Reached(A, step, n) = {n} \cup Reached(A, step, step[n])
        BY <2>1, <3>2, ReachedUnfold
      <4>2. step[n] = parent(n) /\ parent(n) \in Nodes
        BY <3>2, ParentNode
      <4>3. QED
        BY <3>2, <4>1, <4>2
    <3>3. QED
      BY <3>1, <3>2
  <2> HIDE DEF A, step
  <2>3. QED
    BY <2>2 DEF Nodes
<1>2. path = CHOOSE f : f = F(f)
  BY DEF path
<1> HIDE DEF g, F
<1>3. path = F(path)
  BY <1>1, <1>2
<1>4. \A n \in Nodes : path[n] = IF n = 0 THEN {} ELSE {n} \cup path[parent(n)]
  BY <1>3 DEF F, Nodes
<1>5. 0 \in Nodes
  BY LeafNode
<1>6. QED
  BY <1>4, <1>5

(***************************************************************************)
(* Paths.                                                                  *)
(***************************************************************************)
LEMMA PathNodes ==
  \A n \in Nodes : path[n] \subseteq 1 .. n /\ IsFiniteSet(path[n])
PROOF
<1> DEFINE S == {n \in Nodes : path[n] \subseteq 1 .. n /\ IsFiniteSet(path[n])}
<1>1. 0 \in S
  BY PathUnfold, LeafNode, FS_EmptySet
<1>2. ASSUME NEW n \in Nodes \ {0}, parent(n) \in S PROVE n \in S
  <2>1. path[n] = {n} \cup path[parent(n)] /\ parent(n) \in Nodes /\ parent(n) < n
    BY PathUnfold, ParentNode
  <2>2. path[n] \subseteq 1 .. n
    BY <1>2, <2>1 DEF Nodes
  <2>3. IsFiniteSet(path[n])
    BY <1>2, <2>1, FS_AddElement
  <2>4. QED
    BY <2>2, <2>3
<1> HIDE DEF S
<1>3. Nodes \subseteq S
  BY <1>1, <1>2, Climb
<1>4. QED
  BY <1>3 DEF S

LEMMA PathsContainPaths ==
  \A n \in Nodes : \A m \in path[n] : m \in Nodes \ {0} /\ path[m] \subseteq path[n]
PROOF
<1> DEFINE S == {n \in Nodes : \A m \in path[n] : m \in Nodes \ {0} /\ path[m] \subseteq path[n]}
<1>1. 0 \in S
  BY PathUnfold, LeafNode
<1>2. ASSUME NEW n \in Nodes \ {0}, parent(n) \in S PROVE n \in S
  <2>1. path[n] = {n} \cup path[parent(n)]
    BY PathUnfold
  <2>2. QED
    BY <1>2, <2>1
<1> HIDE DEF S
<1>3. Nodes \subseteq S
  BY <1>1, <1>2, Climb
<1>4. QED
  BY <1>3 DEF S

\* A path is a chain.
LEMMA PathOrdered ==
  \A n \in Nodes : \A m, k \in path[n] : m < k => m \in path[parent(k)]
PROOF
<1> DEFINE S == {n \in Nodes : \A m, k \in path[n] : m < k => m \in path[parent(k)]}
<1>1. 0 \in S
  BY PathUnfold, LeafNode
<1>2. ASSUME NEW n \in Nodes \ {0}, parent(n) \in S PROVE n \in S
  <2>1. path[n] = {n} \cup path[parent(n)]
    BY PathUnfold
  <2>2. path[n] \subseteq 1 .. n
    BY PathNodes
  <2>3. ASSUME NEW m \in path[n], NEW k \in path[n], m < k PROVE m \in path[parent(k)]
    <3>1. m # n
      BY <2>2, <2>3
    <3>2. CASE k = n
      BY <2>1, <3>1, <3>2
    <3>3. CASE k # n
      BY <1>2, <2>1, <2>3, <3>1, <3>3
    <3>4. QED
      BY <3>2, <3>3
  <2>4. QED
    BY <2>3
<1> HIDE DEF S
<1>3. Nodes \subseteq S
  BY <1>1, <1>2, Climb
<1>4. QED
  BY <1>3 DEF S

\* At most one child of a node is on a path.
LEMMA OneChildOnPath ==
  ASSUME NEW n \in Nodes, NEW m \in path[n], NEW k \in path[n], parent(m) = parent(k)
  PROVE  m = k
PROOF
<1>1. m \in Nodes \ {0} /\ k \in Nodes \ {0}
  BY PathsContainPaths
<1>2. \A x \in Nodes \ {0} : parent(x) \in Nodes /\ parent(x) < x
  BY ParentNode
<1>3. ~(m < k)
  <2>1. SUFFICES ASSUME m < k PROVE FALSE
    OBVIOUS
  <2>2. m \in path[parent(m)]
    BY <2>1, PathOrdered
  <2>3. m <= parent(m)
    BY <1>1, <1>2, <2>2, PathNodes
  <2>4. QED
    BY <1>1, <1>2, <2>3 DEF Nodes
<1>4. ~(k < m)
  <2>1. SUFFICES ASSUME k < m PROVE FALSE
    OBVIOUS
  <2>2. k \in path[parent(k)]
    BY <2>1, PathOrdered
  <2>3. k <= parent(k)
    BY <1>1, <1>2, <2>2, PathNodes
  <2>4. QED
    BY <1>1, <1>2, <2>3 DEF Nodes
<1>5. QED
  BY <1>1, <1>3, <1>4 DEF Nodes

\* The sibling of a node.
other(m) == IF m % 2 = 1 THEN m + 1 ELSE m - 1

LEMMA Siblings ==
  ASSUME NEW m \in Nodes \ {0}
  PROVE  /\ other(m) \in Nodes \ {0} /\ other(m) # m /\ other(other(m)) = m
         /\ parent(other(m)) = parent(m) /\ other(m) % 2 = 1 - (m % 2) /\ m % 2 \in {0, 1}
         /\ \A k \in Nodes \ {0} : parent(k) = parent(m) => k \in {m, other(m)}
PROOF
<1>1. m % 2 \in {0, 1}
  BY DEF Nodes
<1>2. parent(m) \in InnerNodes
  BY ParentNode
<1>3. \/ m = 2 * parent(m) + 1 /\ other(m) = 2 * parent(m) + 2
      \/ m = 2 * parent(m) + 2 /\ other(m) = 2 * parent(m) + 1
  <2>1. parent(m) \in Nat /\ (m = 2 * parent(m) + 1 \/ m = 2 * parent(m) + 2)
    BY <1>2, ParentNode DEF InnerNodes
  <2>2. m = 2 * parent(m) + 1 => m % 2 = 1
    BY <2>1
  <2>3. m = 2 * parent(m) + 2 => m % 2 = 0
    BY <2>1
  <2>4. m \in Nat
    BY DEF Nodes
  <2>5. CASE m = 2 * parent(m) + 1
    BY <2>1, <2>2, <2>5 DEF other
  <2>6. CASE m = 2 * parent(m) + 2
    BY <2>1, <2>3, <2>4, <2>6 DEF other
  <2>7. QED
    BY <2>1, <2>5, <2>6
<1>4. other(m) \in Nodes \ {0} /\ parent(other(m)) = parent(m) /\ other(m) # m
  BY <1>2, <1>3, ChildNode DEF InnerNodes
<1>5. other(m) % 2 = 1 - (m % 2) /\ other(other(m)) = m
  BY <1>2, <1>3 DEF InnerNodes, other
<1>6. ASSUME NEW k \in Nodes \ {0}, parent(k) = parent(m) PROVE k \in {m, other(m)}
  BY <1>3, <1>6, ParentNode
<1>7. QED
  BY <1>1, <1>4, <1>5, <1>6

(***************************************************************************)
(* What an update does, and where the bits lead.                           *)
(***************************************************************************)
\* The bit of m's parent points at m.
Pointed(bits, m) == bits[parent(m)] = 1 - (m % 2)

LEMMA UpdateEffect ==
  ASSUME NEW bits \in PlruBits, NEW w \in Ways
  PROVE  /\ plru_update(bits, w) \in PlruBits
         /\ \A m \in Nodes \ {0} :
              /\ m \in path[leaf(w)] => ~Pointed(plru_update(bits, w), m)
              /\ m \notin path[leaf(w)] =>
                   \/ other(m) \in path[leaf(w)]
                   \/ Pointed(plru_update(bits, w), m) <=> Pointed(bits, m)
PROOF
<1> DEFINE P == path[WAYS - 1 + w]
           b == plru_update(bits, w)
<1>0. P = path[leaf(w)] /\ leaf(w) \in Nodes
  BY LeafNode DEF leaf
<1>1. \A k \in InnerNodes :
        b[k] = IF \E n \in P : parent(n) = k
                 THEN (CHOOSE n \in P : parent(n) = k) % 2 ELSE bits[k]
  BY DEF plru_update
<1>2. \A n \in P : n \in Nodes \ {0} /\ parent(n) \in InnerNodes /\ n % 2 \in {0, 1}
  BY <1>0, PathsContainPaths, ParentNode, Siblings
<1>3. \A m, n \in P : parent(m) = parent(n) => m = n
  BY <1>0, OneChildOnPath
<1>4. b = [k \in InnerNodes |-> b[k]]
  BY DEF plru_update
<1> HIDE DEF P, b
<1>5. \A n \in P : b[parent(n)] = n % 2
  <2>1. TAKE n \in P
  <2>2. (CHOOSE k \in P : parent(k) = parent(n)) = n
    BY <1>3
  <2>3. QED
    BY <1>1, <1>2, <2>2
<1>6. \A k \in InnerNodes : (\A n \in P : parent(n) # k) => b[k] = bits[k]
  BY <1>1
<1>7. b \in PlruBits
  <2>1. \A k \in InnerNodes : b[k] \in {0, 1}
    BY <1>2, <1>5, <1>6 DEF PlruBits
  <2>2. QED
    BY <1>4, <2>1 DEF PlruBits
<1>8. ASSUME NEW m \in Nodes \ {0}, m \in P PROVE ~Pointed(b, m)
  <2>1. b[parent(m)] = m % 2 /\ m % 2 \in {0, 1}
    BY <1>2, <1>5, <1>8
  <2>2. \A x \in {0, 1} : x # 1 - x
    OBVIOUS
  <2>3. QED
    BY <2>1, <2>2 DEF Pointed
<1>9. ASSUME NEW m \in Nodes \ {0}, m \notin P, other(m) \notin P
      PROVE  Pointed(b, m) <=> Pointed(bits, m)
  <2>1. \A n \in P : parent(n) # parent(m)
    BY <1>2, <1>9, Siblings
  <2>2. QED
    BY <1>6, <2>1, ParentNode DEF Pointed
<1>10. QED
  BY <1>0, <1>7, <1>8, <1>9 DEF b

\* The walk ends in a way all of whose path is pointed at.
LEMMA VictimIsPointed ==
  ASSUME NEW bits \in PlruBits
  PROVE  \E w \in Ways : plru_victim(bits) = w /\ \A m \in path[leaf(w)] : Pointed(bits, m)
PROOF
<1> DEFINE step == [n \in InnerNodes |-> 2 * n + 1 + bits[n]]
           F(f) == [n \in 0 .. 2 * WAYS - 2 |->
                      IF n < WAYS - 1 THEN f[2 * n + 1 + bits[n]] ELSE n - (WAYS - 1)]
           R(n) == Reached(InnerNodes, step, n)
           end(n) == CHOOSE x : x \in R(n) \ InnerNodes
           g == [n \in Nodes |-> end(n) - (WAYS - 1)]
           walk == CHOOSE f : f = F(f)
<1>1. \A n \in InnerNodes : bits[n] \in {0, 1}
  BY DEF PlruBits
<1>2. /\ InnerNodes \in SUBSET Nodes /\ 0 \in Nodes
      /\ \A n \in InnerNodes : /\ 2 * n + 1 + bits[n] \in Nodes \ {0}
                               /\ parent(2 * n + 1 + bits[n]) = n
                               /\ 2 * n + 1 + bits[n] > n
                               /\ Pointed(bits, 2 * n + 1 + bits[n])
  <2>1. ASSUME NEW n \in InnerNodes
        PROVE  /\ 2 * n + 1 + bits[n] \in Nodes \ {0}
               /\ parent(2 * n + 1 + bits[n]) = n
               /\ 2 * n + 1 + bits[n] > n
               /\ bits[n] = 1 - ((2 * n + 1 + bits[n]) % 2)
    <3>1. 2 * n + 1 + bits[n] \in {2 * n + 1, 2 * n + 2} /\ n \in Nat
      BY <1>1 DEF InnerNodes
    <3>2. 2 * n + 1 + bits[n] \in Nodes \ {0} /\ parent(2 * n + 1 + bits[n]) = n
          /\ n < 2 * n + 1 + bits[n]
      BY <3>1, ChildNode
    <3>3. bits[n] = 1 - ((2 * n + 1 + bits[n]) % 2)
      BY <1>1, <3>1
    <3>4. QED
      BY <3>1, <3>2, <3>3, <1>1
  <2>2. InnerNodes \subseteq Nodes
    BY WaysAssumption DEF InnerNodes, Nodes
  <2>3. QED
    BY <2>1, <2>2, LeafNode DEF Pointed
<1>3. step \in [InnerNodes -> Nodes]
  BY <1>2
<1>4. \A n \in Nodes : n \in InnerNodes <=> n < WAYS - 1
  BY WaysAssumption DEF Nodes, InnerNodes
<1>5. g = F(g)
  <2>0. \A n \in Nodes : g[n] = end(n) - (WAYS - 1)
    OBVIOUS
  <2> HIDE DEF g
  <2>1. ASSUME NEW n \in Nodes
        PROVE  g[n] = IF n < WAYS - 1 THEN g[2 * n + 1 + bits[n]] ELSE n - (WAYS - 1)
    <3>1. CASE n \in InnerNodes
      <4>1. R(n) = {n} \cup R(step[n]) /\ step[n] = 2 * n + 1 + bits[n]
        BY <1>2, <1>3, <3>1, ReachedUnfold
      <4>2. R(n) \ InnerNodes = R(2 * n + 1 + bits[n]) \ InnerNodes
        BY <3>1, <4>1
      <4>3. end(n) = end(2 * n + 1 + bits[n])
        BY <4>2
      <4> HIDE DEF end
      <4>4. QED
        BY <1>2, <1>4, <2>0, <3>1, <4>3
    <3>2. CASE n \notin InnerNodes
      <4>1. R(n) = {n}
        BY <1>2, <1>3, <3>2, ReachedUnfold
      <4>2. end(n) = n
        BY <3>2, <4>1
      <4> HIDE DEF end
      <4>3. QED
        BY <1>4, <2>0, <3>2, <4>2
    <3>3. QED
      BY <3>1, <3>2
  <2>2. g = [n \in Nodes |-> g[n]]
    BY DEF g
  <2>3. QED
    BY <2>1, <2>2 DEF Nodes
<1>6. plru_victim(bits) = walk[0]
  BY DEF plru_victim
<1> HIDE DEF g, F
<1>7. walk = F(walk)
  BY <1>5
<1> HIDE DEF walk
<1>8. \A n \in Nodes :
        walk[n] = IF n < WAYS - 1 THEN walk[2 * n + 1 + bits[n]] ELSE n - (WAYS - 1)
  BY <1>7 DEF F, Nodes
\* The nodes on the way: pointed at from the root, and with the same end.
<1> DEFINE T == {n \in Nodes : walk[n] = walk[0] /\ \A m \in path[n] : Pointed(bits, m)}
<1>9. 0 \in T
  BY <1>2, PathUnfold
<1>10. ASSUME NEW n \in T, n \in InnerNodes PROVE 2 * n + 1 + bits[n] \in T
  <2>1. path[2 * n + 1 + bits[n]] = {2 * n + 1 + bits[n]} \cup path[n]
    BY <1>2, <1>10, PathUnfold
  <2>2. walk[2 * n + 1 + bits[n]] = walk[n]
    BY <1>4, <1>8, <1>10
  <2>3. QED
    BY <1>2, <1>10, <2>1, <2>2
<1>11. T \in SUBSET Nodes
  OBVIOUS
<1> HIDE DEF T
<1>12. PICK x \in T : \A y \in T : y <= x
  BY <1>9, <1>11, LastNode
<1>13. x \notin InnerNodes
  <2>1. SUFFICES ASSUME x \in InnerNodes PROVE FALSE
    OBVIOUS
  <2>2. 2 * x + 1 + bits[x] \in T /\ 2 * x + 1 + bits[x] > x
    BY <1>2, <1>10, <2>1
  <2>3. 2 * x + 1 + bits[x] \in Nat /\ x \in Nat
    BY <1>1, <2>1 DEF InnerNodes
  <2>4. QED
    BY <1>12, <2>2, <2>3
<1>14. x - (WAYS - 1) \in Ways /\ x = leaf(x - (WAYS - 1)) /\ walk[x] = x - (WAYS - 1)
  BY <1>4, <1>8, <1>11, <1>13, LeafNode
<1>15. QED
  BY <1>6, <1>14 DEF T

\* Some way lies below every node.
LEMMA WayBelow ==
  ASSUME NEW n \in Nodes \ {0}
  PROVE  \E w \in Ways : n \in path[leaf(w)]
PROOF
<1> DEFINE T == {x \in Nodes : n \in path[x]}
<1>1. T \in SUBSET Nodes /\ n \in T
  BY PathUnfold
<1> HIDE DEF T
<1>2. PICK x \in T : \A y \in T : y <= x
  BY <1>1, LastNode
<1>3. x \notin InnerNodes
  <2>1. SUFFICES ASSUME x \in InnerNodes PROVE FALSE
    OBVIOUS
  <2>2. 2 * x + 1 \in Nodes \ {0} /\ parent(2 * x + 1) = x /\ x < 2 * x + 1
    BY <2>1, ChildNode
  <2>3. 2 * x + 1 \in T
    BY <2>2, PathUnfold DEF T
  <2>4. QED
    BY <1>2, <2>1, <2>2, <2>3 DEF InnerNodes
<1>4. QED
  BY <1>1, <1>3, LeafNode DEF T

(***************************************************************************)
(* Types.                                                                  *)
(***************************************************************************)
BitsOK == plru_bits \in PlruBits /\ since \in [Ways -> SUBSET Ways]

LEMMA BitsInductive ==
  ASSUME BitsOK, [Next]_vars
  PROVE  BitsOK'
PROOF
<1>1. ASSUME NEW w \in Ways, plru_bits' = plru_update(plru_bits, w), used(w) PROVE BitsOK'
  BY <1>1, UpdateEffect DEF BitsOK, used
<1>2. CASE replace
  BY <1>1, <1>2, VictimIsPointed DEF replace, BitsOK
<1>3. ASSUME NEW w \in Ways, touch(w) PROVE BitsOK'
  BY <1>1, <1>3 DEF touch
<1>4. CASE UNCHANGED vars
  BY <1>4 DEF vars, BitsOK
<1>5. QED
  BY <1>2, <1>3, <1>4 DEF Next

LEMMA BitsInit ==
  ASSUME Init
  PROVE  BitsOK
BY DEF Init, BitsOK, NoBits, PlruBits

\* The victim of every reachable tree is a way of the set (plru_victim,
\* plru.h:18-27), for every number of ways.
THEOREM TypeCorrect == Spec => []TypeOK
PROOF
<1>1. BitsOK => TypeOK
  BY VictimIsPointed DEF BitsOK, TypeOK
<1>2. QED
  BY <1>1, BitsInit, BitsInductive, PTL DEF Spec

(***************************************************************************)
(* Recent ways.  A bit on the path of w that points at w was last set by a *)
(* way used since w, on the other side of that bit.                        *)
(***************************************************************************)
Explained(bits, hist) ==
  \A w \in Ways : \A m \in path[leaf(w)] :
    Pointed(bits, m) => \E v \in hist[w] : other(m) \in path[leaf(v)]

RecentInv == BitsOK /\ Explained(plru_bits, since)

LEMMA ExplainedInit ==
  ASSUME Init
  PROVE  RecentInv
PROOF
<1>1. ASSUME NEW w \in Ways, NEW m \in path[leaf(w)]
      PROVE  \E v \in since[w] : other(m) \in path[leaf(v)]
  <2>1. leaf(w) \in Nodes
    BY LeafNode
  <2>2. m \in Nodes \ {0}
    BY <2>1, PathsContainPaths
  <2>3. other(m) \in Nodes \ {0} /\ other(m) # m /\ parent(other(m)) = parent(m)
    BY <2>2, Siblings
  <2>4. PICK v \in Ways : other(m) \in path[leaf(v)]
    BY <2>3, WayBelow
  <2>5. v # w
    BY <2>1, <2>3, <2>4, OneChildOnPath
  <2>6. QED
    BY <2>4, <2>5 DEF Init
<1>2. QED
  BY <1>1, BitsInit DEF RecentInv, Explained

LEMMA ExplainedAfterUse ==
  ASSUME RecentInv, NEW u \in Ways, plru_bits' = plru_update(plru_bits, u), used(u)
  PROVE  Explained(plru_bits, since)'
PROOF
<1>1. plru_bits \in PlruBits /\ since \in [Ways -> SUBSET Ways]
  BY DEF RecentInv, BitsOK
<1>2. ASSUME NEW w \in Ways, NEW m \in path[leaf(w)], Pointed(plru_bits', m)
      PROVE  \E v \in since'[w] : other(m) \in path[leaf(v)]
  <2>1. leaf(w) \in Nodes /\ leaf(u) \in Nodes
    BY LeafNode
  <2>2. m \in Nodes \ {0}
    BY <2>1, PathsContainPaths
  <2>3. m \notin path[leaf(u)]
    BY <1>1, <1>2, <2>2, UpdateEffect
  <2>4. w # u /\ since'[w] = since[w] \cup {u}
    BY <2>3 DEF used
  <2>5. CASE other(m) \in path[leaf(u)]
    BY <2>4, <2>5
  <2>6. CASE other(m) \notin path[leaf(u)]
    <3>1. Pointed(plru_bits, m)
      BY <1>1, <1>2, <2>2, <2>3, <2>6, UpdateEffect
    <3>2. PICK v \in since[w] : other(m) \in path[leaf(v)]
      BY <3>1 DEF RecentInv, Explained
    <3>3. QED
      BY <2>4, <3>2
  <2>7. QED
    BY <2>5, <2>6
<1>3. QED
  BY <1>2 DEF Explained

LEMMA RecentInductive ==
  ASSUME RecentInv, [Next]_vars
  PROVE  RecentInv'
PROOF
<1>1. BitsOK'
  BY BitsInductive DEF RecentInv
<1>2. CASE replace
  <2>1. PICK w \in Ways : plru_bits' = plru_update(plru_bits, w) /\ used(w)
    BY <1>2, VictimIsPointed DEF replace, RecentInv, BitsOK
  <2>2. QED
    BY <1>1, <2>1, ExplainedAfterUse DEF RecentInv
<1>3. ASSUME NEW w \in Ways, touch(w) PROVE RecentInv'
  BY <1>1, <1>3, ExplainedAfterUse DEF RecentInv, touch
<1>4. CASE UNCHANGED vars
  BY <1>1, <1>4 DEF vars, RecentInv, Explained
<1>5. QED
  BY <1>2, <1>3, <1>4 DEF Next

\* Each node of the victim's path has a way of its own on the other side.
LEMMA VictimIsOld ==
  ASSUME RecentInv, NEW w \in Ways, plru_victim(plru_bits) = w
  PROVE  levels(w) <= Cardinality(since[w])
PROOF
<1> DEFINE P == path[leaf(w)]
           f == [m \in P |-> CHOOSE v \in since[w] : other(m) \in path[leaf(v)]]
<1>1. /\ plru_bits \in PlruBits /\ since[w] \subseteq Ways
      /\ leaf(w) \in Nodes /\ \A m \in P : m \in Nodes \ {0}
  BY LeafNode, PathsContainPaths DEF RecentInv, BitsOK
<1>2. \A m \in P : Pointed(plru_bits, m)
  BY <1>1, VictimIsPointed
<1>3. \A m \in P : f[m] \in since[w] /\ other(m) \in path[leaf(f[m])]
  BY <1>2 DEF RecentInv, Explained
<1>4. f \in [P -> since[w]]
  BY <1>3
<1> HIDE DEF f
<1>5. ASSUME NEW m \in P, NEW k \in P, f[m] = f[k], m < k PROVE FALSE
  <2> DEFINE Q == path[leaf(f[k])]
  <2>1. other(m) \in Q /\ other(k) \in Q /\ leaf(f[k]) \in Nodes
    BY <1>1, <1>3, <1>5, LeafNode
  <2>2. m \in path[parent(k)]
    BY <1>1, <1>5, PathOrdered
  <2>3. other(k) \in Nodes \ {0} /\ parent(other(k)) = parent(k)
    BY <1>1, Siblings
  <2>4. m \in path[other(k)]
    BY <2>2, <2>3, PathUnfold
  <2>5. m \in Q
    BY <2>1, <2>4, PathsContainPaths
  <2>6. other(m) # m /\ parent(other(m)) = parent(m)
    BY <1>1, Siblings
  <2>7. QED
    BY <2>1, <2>5, <2>6, OneChildOnPath
<1>6. \A m, k \in P : f[m] = f[k] => m = k
  BY <1>1, <1>5 DEF Nodes
<1>7. f \in Injection(P, since[w])
  BY <1>4, <1>6 DEF Injection, IsInjective
<1>8. IsFiniteSet(since[w])
  <2>1. IsFiniteSet(Ways)
    BY WaysAssumption, FS_Interval DEF Ways
  <2>2. QED
    BY <1>1, <2>1, FS_Subset
<1>9. Cardinality(P) <= Cardinality(since[w])
  BY <1>7, <1>8, FS_Injection
<1>10. QED
  BY <1>9 DEF levels, leaf

\* A way is no victim before as many others were used after it as the tree has
\* levels (plru_update and plru_victim, plru.h:6-27), for every number of ways:
\* three uses for the L1's eight ways, four for the L2's sixteen.
THEOREM RecentWaysSurvive == Spec => []RecentWaysAreSafe
PROOF
<1>1. RecentInv => RecentWaysAreSafe
  <2>1. SUFFICES ASSUME RecentInv, NEW w \in Ways, Cardinality(since[w]) < levels(w),
                        plru_victim(plru_bits) = w
                 PROVE  FALSE
    BY DEF RecentWaysAreSafe
  <2>2. levels(w) <= Cardinality(since[w])
    BY <2>1, VictimIsOld
  <2>3. Cardinality(since[w]) \in Nat /\ levels(w) \in Nat
    <3>1. IsFiniteSet(Ways) /\ since[w] \subseteq Ways
      BY <2>1, WaysAssumption, FS_Interval DEF Ways, RecentInv, BitsOK
    <3>2. IsFiniteSet(path[leaf(w)])
      BY LeafNode, PathNodes
    <3>3. QED
      BY <3>1, <3>2, FS_Subset, FS_CardinalityType DEF levels, leaf
  <2>4. QED
    BY <2>1, <2>2, <2>3
<1>2. QED
  BY <1>1, ExplainedInit, RecentInductive, PTL DEF Spec

(***************************************************************************)
(* The ways below a node.  In a complete tree two nodes of one level have  *)
(* equally many.                                                           *)
(***************************************************************************)
Below(n) == IF n = 0 THEN Ways ELSE {v \in Ways : n \in path[leaf(v)]}

LEMMA PathGoesOn ==
  ASSUME NEW p \in InnerNodes
  PROVE  \A x \in Nodes : x # p /\ (p = 0 \/ p \in path[x]) =>
           2 * p + 1 \in path[x] \/ 2 * p + 2 \in path[x]
PROOF
<1> DEFINE S == {x \in Nodes : x # p /\ (p = 0 \/ p \in path[x]) =>
                   2 * p + 1 \in path[x] \/ 2 * p + 2 \in path[x]}
<1>1. 0 \in S
  BY PathUnfold, LeafNode
<1>2. ASSUME NEW x \in Nodes \ {0}, parent(x) \in S PROVE x \in S
  <2>1. path[x] = {x} \cup path[parent(x)]
    BY PathUnfold
  <2>2. x = 2 * parent(x) + 1 \/ x = 2 * parent(x) + 2
    BY ParentNode
  <2>3. CASE parent(x) = p
    BY <2>1, <2>2, <2>3
  <2>4. CASE parent(x) # p
    BY <1>2, <2>1, <2>4
  <2>5. QED
    BY <2>3, <2>4
<1> HIDE DEF S
<1>3. Nodes \subseteq S
  BY <1>1, <1>2, Climb
<1>4. QED
  BY <1>3 DEF S

LEMMA BelowFinite ==
  \A n : Below(n) \subseteq Ways /\ IsFiniteSet(Below(n)) /\ Cardinality(Below(n)) \in Nat
PROOF
<1>1. IsFiniteSet(Ways)
  BY WaysAssumption, FS_Interval DEF Ways
<1>2. TAKE n
<1>3. Below(n) \subseteq Ways
  BY DEF Below
<1>4. QED
  BY <1>1, <1>3, FS_Subset, FS_CardinalityType

LEMMA BelowSiblings ==
  ASSUME NEW n \in Nodes \ {0}
  PROVE  /\ Below(parent(n)) = Below(n) \cup Below(other(n))
         /\ Below(n) \cap Below(other(n)) = {}
PROOF
<1> DEFINE p == parent(n)
           k == other(n)
<1>1. /\ k \in Nodes \ {0} /\ k # n /\ parent(k) = p
      /\ p \in InnerNodes /\ p \in Nodes
  BY Siblings, ParentNode
<1>2. /\ 2 * p + 1 \in Nodes \ {0} /\ parent(2 * p + 1) = p
      /\ 2 * p + 2 \in Nodes \ {0} /\ parent(2 * p + 2) = p
  BY <1>1, ChildNode
<1>3. 2 * p + 1 \in {n, k} /\ 2 * p + 2 \in {n, k}
  BY <1>2, Siblings
<1>4. path[n] = {n} \cup path[p] /\ path[k] = {k} \cup path[p] /\ (p # 0 => p \in path[p])
  BY <1>1, PathUnfold
<1> HIDE DEF p, k
<1>5. ASSUME NEW v \in Ways, v \in Below(p) PROVE v \in Below(n) \/ v \in Below(k)
  <2>1. leaf(v) \in Nodes /\ leaf(v) # p
    BY <1>1, LeafNode
  <2>2. p = 0 \/ p \in path[leaf(v)]
    BY <1>5 DEF Below
  <2>3. n \in path[leaf(v)] \/ k \in path[leaf(v)]
    BY <1>1, <1>3, <2>1, <2>2, PathGoesOn
  <2>4. QED
    BY <1>1, <2>3 DEF Below
<1>6. ASSUME NEW v \in Ways, v \in Below(n) \/ v \in Below(k) PROVE v \in Below(p)
  <2>1. n \in path[leaf(v)] \/ k \in path[leaf(v)]
    BY <1>1, <1>6 DEF Below
  <2>2. p # 0 => p \in path[leaf(v)]
    BY <1>4, <2>1, LeafNode, PathsContainPaths
  <2>3. QED
    BY <2>2 DEF Below
<1>7. ASSUME NEW v \in Ways, v \in Below(n), v \in Below(k) PROVE FALSE
  <2>1. n \in path[leaf(v)] /\ k \in path[leaf(v)] /\ leaf(v) \in Nodes
    BY <1>1, <1>7, LeafNode DEF Below
  <2>2. QED
    BY <1>1, <2>1, OneChildOnPath DEF p, k
<1>8. QED
  BY <1>5, <1>6, <1>7, BelowFinite DEF p, k

LEMMA BelowLeaf ==
  ASSUME NEW w \in Ways
  PROVE  Below(leaf(w)) = {w}
PROOF
<1>1. leaf(w) \in Nodes \ {0} /\ leaf(w) \notin InnerNodes
  BY LeafNode
<1>2. w \in Below(leaf(w))
  BY <1>1, PathUnfold DEF Below
<1>3. ASSUME NEW v \in Ways, leaf(w) \in path[leaf(v)] PROVE v = w
  <2>1. leaf(v) \in Nodes \ {0} /\ path[leaf(v)] = {leaf(v)} \cup path[parent(leaf(v))]
    BY LeafNode, PathUnfold
  <2>2. parent(leaf(v)) \in InnerNodes /\ parent(leaf(v)) \in Nodes
    BY <2>1, ParentNode
  <2>3. path[parent(leaf(v))] \subseteq 1 .. parent(leaf(v))
    BY <2>2, PathNodes
  <2>4. leaf(w) \notin path[parent(leaf(v))]
    <3>1. leaf(w) \in Nat /\ leaf(w) > WAYS - 2
      BY <1>1, WaysAssumption DEF Nodes, InnerNodes
    <3>2. parent(leaf(v)) \in Nat /\ parent(leaf(v)) <= WAYS - 2
      BY <2>2, WaysAssumption DEF InnerNodes
    <3>3. ~(leaf(w) <= parent(leaf(v)))
      BY <3>1, <3>2, WaysAssumption
    <3>4. leaf(w) \notin 1 .. parent(leaf(v))
      BY <3>3
    <3>5. QED
      BY <2>3, <3>4
  <2>5. QED
    BY <1>3, <2>1, <2>4, LeafNode
<1>4. QED
  BY <1>1, <1>2, <1>3 DEF Below

Level(n) == Cardinality(path[n])

LEMMA Levels ==
  /\ \A n \in Nodes : Level(n) \in Nat
  /\ \A n \in Nodes \ {0} : Level(n) = Level(parent(n)) + 1
  /\ \A w \in Ways : Level(leaf(w)) = levels(0)
  /\ \A n \in InnerNodes : Level(n) < levels(0)
PROOF
<1>1. \A n \in Nodes : Level(n) \in Nat
  BY PathNodes, FS_CardinalityType DEF Level
<1>2. ASSUME NEW n \in Nodes \ {0} PROVE Level(n) = Level(parent(n)) + 1
  <2>1. path[n] = {n} \cup path[parent(n)] /\ parent(n) \in Nodes /\ parent(n) < n
    BY PathUnfold, ParentNode
  <2>2. path[parent(n)] \subseteq 1 .. parent(n) /\ IsFiniteSet(path[parent(n)])
    BY <2>1, PathNodes
  <2>3. n \notin path[parent(n)]
    BY <2>1, <2>2 DEF Nodes
  <2>4. QED
    <3>1. path[n] = path[parent(n)] \cup {n}
      BY <2>1
    <3>2. QED
      BY <2>2, <2>3, <3>1, FS_AddElement DEF Level
<1>3. \A w \in Ways : Level(leaf(w)) = levels(0)
  BY WaysAssumption DEF Level, levels, leaf
<1>4. ASSUME NEW n \in InnerNodes PROVE Level(n) < levels(0)
  <2>1. 2 * n + 1 \in Nodes \ {0} /\ parent(2 * n + 1) = n /\ n \in Nodes
    BY ChildNode
  <2>2. PICK v \in Ways : 2 * n + 1 \in path[leaf(v)]
    BY <2>1, WayBelow
  <2>3. path[2 * n + 1] \subseteq path[leaf(v)] /\ IsFiniteSet(path[leaf(v)])
    BY <2>2, LeafNode, PathsContainPaths, PathNodes
  <2>4. Level(2 * n + 1) <= Level(leaf(v))
    BY <2>3, FS_Subset DEF Level
  <2>5. Level(2 * n + 1) = Level(n) + 1
    BY <1>2, <2>1
  <2>6. Level(leaf(v)) = levels(0) /\ Level(leaf(v)) \in Nat
    BY <1>1, <1>3, LeafNode
  <2>7. QED
    BY <1>1, <2>1, <2>4, <2>5, <2>6
<1>5. QED
  BY <1>1, <1>2, <1>3, <1>4

Size(n) == Cardinality(Below(n))

LEMMA SizeOfInner ==
  ASSUME NEW p \in InnerNodes
  PROVE  Size(p) = Size(2 * p + 1) + Size(2 * p + 2)
PROOF
<1>1. /\ 2 * p + 1 \in Nodes \ {0} /\ parent(2 * p + 1) = p
      /\ 2 * p + 2 \in Nodes \ {0} /\ parent(2 * p + 2) = p
      /\ 2 * p + 2 # 2 * p + 1
  BY ChildNode DEF InnerNodes
<1>2. other(2 * p + 1) = 2 * p + 2
  BY <1>1, Siblings
<1>3. /\ Below(p) = Below(2 * p + 1) \cup Below(2 * p + 2)
      /\ Below(2 * p + 1) \cap Below(2 * p + 2) = {}
  BY <1>1, <1>2, BelowSiblings
<1>4. /\ IsFiniteSet(Below(2 * p + 1)) /\ IsFiniteSet(Below(2 * p + 2))
      /\ Size(2 * p + 1) \in Nat /\ Size(2 * p + 2) \in Nat
  BY BelowFinite DEF Size
<1>5. Cardinality(Below(p)) = Size(2 * p + 1) + Size(2 * p + 2) - Cardinality({})
  BY <1>3, <1>4, FS_Union DEF Size
<1>6. QED
  BY <1>4, <1>5, FS_EmptySet DEF Size

LEMMA EqualSizes ==
  \A a, b \in Nodes : Level(a) = Level(b) => Size(a) = Size(b)
PROOF
<1> DEFINE T == {a \in Nodes : \E b \in Nodes : Level(a) = Level(b) /\ Size(a) # Size(b)}
<1>1. SUFFICES ASSUME T # {} PROVE FALSE
  OBVIOUS
<1>2. PICK a \in T : \A y \in T : y <= a
  BY <1>1, LastNode
<1>3. PICK b \in Nodes : Level(a) = Level(b) /\ Size(a) # Size(b)
  BY <1>2
<1>4. a \in Nodes
  BY <1>2
<1>5. \A x \in Nodes \ InnerNodes : Size(x) = 1 /\ Level(x) = levels(0)
  <2>1. TAKE x \in Nodes \ InnerNodes
  <2>2. PICK v \in Ways : x = leaf(v)
    BY LeafNode
  <2>3. Below(x) = {v} /\ Level(x) = levels(0)
    BY <2>2, BelowLeaf, Levels
  <2>4. QED
    BY <2>3, FS_Singleton DEF Size
<1>6. levels(0) \in Nat /\ Level(a) \in Nat /\ Level(b) \in Nat
  <2>1. 0 \in Ways
    BY WaysAssumption DEF Ways
  <2>2. QED
    BY <1>3, <1>4, <2>1, Levels, LeafNode
<1>7. a \in InnerNodes /\ b \in InnerNodes
  <2>1. \A x \in InnerNodes : Level(x) < levels(0)
    BY Levels
  <2>2. QED
    BY <1>3, <1>4, <1>5, <1>6, <2>1
<1>8. ASSUME NEW i \in {1, 2} PROVE Size(2 * a + i) = Size(2 * b + i)
  <2>1. /\ 2 * a + i \in Nodes \ {0} /\ parent(2 * a + i) = a /\ a < 2 * a + i
        /\ 2 * b + i \in Nodes \ {0} /\ parent(2 * b + i) = b
    BY <1>7, ChildNode
  <2>2. Level(2 * a + i) = Level(2 * b + i)
    BY <1>3, <2>1, Levels
  <2>3. 2 * a + i \notin T
    BY <1>2, <1>4, <2>1 DEF Nodes
  <2>4. QED
    BY <2>1, <2>2, <2>3
<1>9. QED
  BY <1>3, <1>7, <1>8, SizeOfInner

LEMMA SiblingsHaveEqualSizes ==
  ASSUME NEW n \in Nodes \ {0}
  PROVE  Cardinality(Below(n)) = Cardinality(Below(other(n)))
BY Siblings, Levels, EqualSizes DEF Size

(***************************************************************************)
(* Sweeps.  G is the set of ways given up since the last hit.  A bit that  *)
(* points at m does so because m's side is not ahead: G has as many ways   *)
(* below the sibling of m as below m, or one more.                         *)
(***************************************************************************)
Given(G, n) == Cardinality(G \cap Below(n))

Balanced(bits, G) ==
  \A m \in Nodes \ {0} :
    Pointed(bits, m) =>
      Given(G, m) <= Given(G, other(m)) /\ Given(G, other(m)) <= Given(G, m) + 1

LEMMA GivenType ==
  \A G, n : IsFiniteSet(G \cap Below(n)) /\ Given(G, n) \in Nat
PROOF
<1>1. TAKE G, n
<1>2. G \cap Below(n) \subseteq Below(n) /\ IsFiniteSet(Below(n))
  BY BelowFinite
<1>3. QED
  BY <1>2, FS_Subset, FS_CardinalityType DEF Given

LEMMA BalancedEmpty ==
  ASSUME NEW bits
  PROVE  Balanced(bits, {})
PROOF
<1>1. \A n : {} \cap Below(n) = {}
  OBVIOUS
<1>2. \A n : Given({}, n) = 0
  BY <1>1, FS_EmptySet DEF Given
<1>3. QED
  BY <1>2 DEF Balanced

LEMMA GivenOneMore ==
  ASSUME NEW G \in SUBSET Ways, NEW w \in Ways, w \notin G, NEW n \in Nodes \ {0}
  PROVE  Given(G \cup {w}, n) = IF n \in path[leaf(w)] THEN Given(G, n) + 1 ELSE Given(G, n)
PROOF
<1>1. w \in Below(n) <=> n \in path[leaf(w)]
  BY DEF Below
<1>2. CASE n \in path[leaf(w)]
  <2>1. (G \cup {w}) \cap Below(n) = (G \cap Below(n)) \cup {w} /\ w \notin G \cap Below(n)
    BY <1>1, <1>2
  <2>2. QED
    BY <1>2, <2>1, GivenType, FS_AddElement DEF Given
<1>3. CASE n \notin path[leaf(w)]
  <2>1. (G \cup {w}) \cap Below(n) = G \cap Below(n)
    BY <1>1, <1>3
  <2>2. QED
    BY <1>3, <2>1 DEF Given
<1>4. QED
  BY <1>2, <1>3

\* The victim is a way not given up yet: below each node of its path there is
\* one, since its side is not ahead and both sides have equally many ways.
LEMMA VictimIsNew ==
  ASSUME NEW bits, NEW G \in SUBSET Ways, G # Ways, Balanced(bits, G),
         NEW w \in Ways, \A m \in path[leaf(w)] : Pointed(bits, m)
  PROVE  w \notin G
PROOF
<1> DEFINE S == {n \in Nodes : n = 0 \/ n \in path[leaf(w)] => ~(Below(n) \subseteq G)}
<1>1. leaf(w) \in Nodes \ {0}
  BY LeafNode
<1>2. 0 \in S
  BY LeafNode DEF Below
<1>3. ASSUME NEW n \in Nodes \ {0}, parent(n) \in S PROVE n \in S
  <2>1. SUFFICES ASSUME n \in path[leaf(w)], Below(n) \subseteq G PROVE FALSE
    BY <1>3
  <2>2. parent(n) \in Nodes /\ parent(n) \in S /\ (parent(n) = 0 \/ parent(n) \in path[leaf(w)])
    <3>1. path[n] \subseteq path[leaf(w)] /\ path[n] = {n} \cup path[parent(n)]
      BY <1>1, <2>1, PathsContainPaths, PathUnfold
    <3>2. parent(n) \in Nodes /\ (parent(n) # 0 => parent(n) \in path[parent(n)])
      BY ParentNode, PathUnfold
    <3>3. QED
      BY <1>3, <3>1, <3>2
  <2>3. ~(Below(parent(n)) \subseteq G)
    BY <2>2
  <2> HIDE DEF S
  <2>4. Given(G, n) <= Given(G, other(n))
    BY <2>1 DEF Balanced
  <2>5. Given(G, n) = Cardinality(Below(other(n)))
    <3>1. G \cap Below(n) = Below(n)
      BY <2>1
    <3>2. QED
      BY <3>1, SiblingsHaveEqualSizes DEF Given
  <2>6. G \cap Below(other(n)) = Below(other(n))
    <3>1. IsFiniteSet(Below(other(n))) /\ G \cap Below(other(n)) \in SUBSET Below(other(n))
      BY BelowFinite
    <3>2. Given(G, other(n)) <= Cardinality(Below(other(n)))
      BY <3>1, FS_Subset DEF Given
    <3>3. Given(G, other(n)) \in Nat /\ Cardinality(Below(other(n))) \in Nat
      BY BelowFinite, GivenType
    <3>4. Cardinality(Below(other(n))) = Cardinality(G \cap Below(other(n)))
      BY <2>4, <2>5, <3>2, <3>3 DEF Given
    <3>5. QED
      BY <3>1, <3>4, FS_Subset
  <2>7. Below(parent(n)) = Below(n) \cup Below(other(n))
    BY BelowSiblings
  <2>8. QED
    BY <2>1, <2>3, <2>6, <2>7
<1> HIDE DEF S
<1>4. leaf(w) \in S
  BY <1>1, <1>2, <1>3, Climb
<1>5. leaf(w) \in path[leaf(w)]
  BY <1>1, PathUnfold
<1>6. Below(leaf(w)) = {w}
  BY BelowLeaf
<1>7. QED
  BY <1>4, <1>5, <1>6 DEF S

LEMMA BalancedAfterVictim ==
  ASSUME NEW bits \in PlruBits, NEW G \in SUBSET Ways, Balanced(bits, G),
         NEW w \in Ways, w \notin G, \A m \in path[leaf(w)] : Pointed(bits, m)
  PROVE  Balanced(plru_update(bits, w), G \cup {w})
PROOF
<1> DEFINE H == G \cup {w}
<1>1. ASSUME NEW m \in Nodes \ {0}, Pointed(plru_update(bits, w), m)
      PROVE  Given(H, m) <= Given(H, other(m)) /\ Given(H, other(m)) <= Given(H, m) + 1
  <2>1. other(m) \in Nodes \ {0} /\ other(other(m)) = m
    BY Siblings
  <2>2. m \notin path[leaf(w)]
    BY <1>1, UpdateEffect
  <2>3. Given(H, m) = Given(G, m)
    BY <2>2, GivenOneMore
  <2>4. Given(G, m) \in Nat /\ Given(G, other(m)) \in Nat
    BY GivenType
  <2>5. CASE other(m) \in path[leaf(w)]
    <3>1. Given(G, other(m)) <= Given(G, m) /\ Given(G, m) <= Given(G, other(m)) + 1
      BY <2>1, <2>5 DEF Balanced
    <3>2. Given(H, other(m)) = Given(G, other(m)) + 1
      BY <2>1, <2>5, GivenOneMore
    <3>3. QED
      BY <2>3, <2>4, <3>1, <3>2
  <2>6. CASE other(m) \notin path[leaf(w)]
    <3>1. Pointed(bits, m)
      BY <1>1, <2>2, <2>6, UpdateEffect
    <3>2. Given(G, m) <= Given(G, other(m)) /\ Given(G, other(m)) <= Given(G, m) + 1
      BY <3>1 DEF Balanced
    <3>3. Given(H, other(m)) = Given(G, other(m))
      BY <2>1, <2>6, GivenOneMore
    <3>4. QED
      BY <2>3, <3>2, <3>3
  <2>7. QED
    BY <2>5, <2>6
<1>2. QED
  BY <1>1 DEF Balanced

\* A sweep that begins anew.
LEMMA BalancedAgain ==
  ASSUME NEW bits \in PlruBits, NEW w \in Ways
  PROVE  Balanced(plru_update(bits, w), {w})
PROOF
<1>1. ASSUME NEW m \in Nodes \ {0}, Pointed(plru_update(bits, w), m)
      PROVE  Given({w}, m) <= Given({w}, other(m)) /\ Given({w}, other(m)) <= Given({w}, m) + 1
  <2>1. other(m) \in Nodes \ {0} /\ m \notin path[leaf(w)]
    BY <1>1, Siblings, UpdateEffect
  <2>2. \A n : Given({}, n) = 0
    <3>1. \A n : {} \cap Below(n) = {}
      OBVIOUS
    <3>2. QED
      BY <3>1, FS_EmptySet DEF Given
  <2>3. \A n \in Nodes \ {0} :
          Given({w}, n) = IF n \in path[leaf(w)] THEN Given({}, n) + 1 ELSE Given({}, n)
    <3>1. {} \cup {w} = {w} /\ {} \in SUBSET Ways /\ w \notin {}
      OBVIOUS
    <3>2. QED
      BY <3>1, GivenOneMore
  <2>4. Given({w}, m) = 0 /\ Given({w}, other(m)) \in {0, 1}
    BY <2>1, <2>2, <2>3
  <2>5. QED
    BY <2>4
<1>2. QED
  BY <1>1 DEF Balanced

given_up == {victims[i] : i \in 1 .. Len(victims)}

SweepInv ==
  /\ BitsOK
  /\ victims \in Seq(Ways) /\ Len(victims) <= WAYS
  /\ MissesSweepTheSet
  /\ Balanced(plru_bits, given_up)

LEMMA SweepInit ==
  ASSUME Init
  PROVE  SweepInv
PROOF
<1>1. victims = <<>> /\ Len(victims) = 0
  BY DEF Init
<1>2. given_up = {}
  BY <1>1 DEF given_up
<1>3. QED
  BY <1>1, <1>2, BitsInit, BalancedEmpty, WaysAssumption DEF SweepInv, MissesSweepTheSet

\* Before the sweep is complete some way is left.
LEMMA SomeWayLeft ==
  ASSUME NEW s \in Seq(Ways), Len(s) < WAYS
  PROVE  {s[i] : i \in 1 .. Len(s)} # Ways
PROOF
<1>1. SUFFICES ASSUME {s[i] : i \in 1 .. Len(s)} = Ways PROVE FALSE
  OBVIOUS
<1>2. s \in Surjection(1 .. Len(s), Ways)
  BY <1>1 DEF Surjection
<1>3. Len(s) \in Nat /\ IsFiniteSet(1 .. Len(s)) /\ Cardinality(1 .. Len(s)) = Len(s)
  BY FS_Interval
<1>4. Cardinality(Ways) <= Len(s)
  BY <1>2, <1>3, FS_Surjection
<1>5. Cardinality(Ways) = WAYS
  BY WaysAssumption, FS_Interval DEF Ways
<1>6. QED
  BY <1>3, <1>4, <1>5, WaysAssumption

LEMMA SweepGoesOn ==
  ASSUME SweepInv, replace, Len(victims) # WAYS
  PROVE  SweepInv'
PROOF
<1> DEFINE w == plru_victim(plru_bits)
<1>1. plru_bits \in PlruBits /\ victims \in Seq(Ways) /\ Len(victims) \in Nat /\ Len(victims) < WAYS
  BY WaysAssumption DEF SweepInv, BitsOK
<1>2. w \in Ways /\ \A m \in path[leaf(w)] : Pointed(plru_bits, m)
  BY <1>1, VictimIsPointed
<1>3. given_up \in SUBSET Ways /\ given_up # Ways
  <2>1. \A i \in 1 .. Len(victims) : victims[i] \in Ways
    BY <1>1
  <2>2. QED
    BY <1>1, <2>1, SomeWayLeft DEF given_up
<1>4. plru_bits' = plru_update(plru_bits, w) /\ victims' = Append(victims, w)
  BY DEF replace
<1> HIDE DEF w
<1>5. w \notin given_up
  BY <1>2, <1>3, VictimIsNew DEF SweepInv
<1>6. /\ victims' \in Seq(Ways) /\ Len(victims') = Len(victims) + 1
      /\ \A i \in 1 .. Len(victims) : victims'[i] = victims[i]
      /\ victims'[Len(victims) + 1] = w
  BY <1>1, <1>2, <1>4, AppendProperties
<1>7. given_up' = given_up \cup {w}
  <2>1. given_up' = {victims'[i] : i \in 1 .. Len(victims) + 1}
    BY <1>6 DEF given_up
  <2>2. \A i \in 1 .. Len(victims) + 1 : i \in 1 .. Len(victims) \/ i = Len(victims) + 1
    BY <1>1
  <2>3. 1 .. Len(victims) \subseteq 1 .. Len(victims) + 1
        /\ Len(victims) + 1 \in 1 .. Len(victims) + 1
    BY <1>1
  <2>4. ASSUME NEW x PROVE x \in given_up' <=> x \in given_up \/ x = w
    BY <1>6, <2>1, <2>2, <2>3 DEF given_up
  <2>5. QED
    BY <2>4
<1>8. MissesSweepTheSet'
  <2>1. ASSUME NEW a \in 1 .. Len(victims'), NEW b \in 1 .. Len(victims'),
               victims'[a] = victims'[b]
        PROVE  a = b
    <3>1. \A i \in 1 .. Len(victims') : i \in 1 .. Len(victims) \/ i = Len(victims) + 1
      BY <1>1, <1>6
    <3>2. \A i \in 1 .. Len(victims) : victims'[i] # w
      BY <1>5, <1>6 DEF given_up
    <3>3. \A i, j \in 1 .. Len(victims) : victims[i] = victims[j] => i = j
      BY DEF SweepInv, MissesSweepTheSet
    <3>4. QED
      BY <1>6, <2>1, <3>1, <3>2, <3>3
  <2>2. QED
    BY <2>1 DEF MissesSweepTheSet
<1>9. Balanced(plru_bits', given_up')
  BY <1>1, <1>2, <1>3, <1>4, <1>5, <1>7, BalancedAfterVictim DEF SweepInv
<1>10. BitsOK'
  BY BitsInductive DEF SweepInv, Next
<1>11. QED
  BY <1>1, <1>6, <1>8, <1>9, <1>10, WaysAssumption DEF SweepInv, Balanced

LEMMA SweepInductive ==
  ASSUME SweepInv, [Next]_vars
  PROVE  SweepInv'
PROOF
<1>1. BitsOK'
  BY BitsInductive DEF SweepInv
<1>2. CASE replace /\ Len(victims) # WAYS
  BY <1>2, SweepGoesOn
<1>3. CASE replace /\ Len(victims) = WAYS
  <2>1. PICK w \in Ways : plru_bits' = plru_update(plru_bits, w) /\ victims' = <<w>>
    BY <1>3, VictimIsPointed DEF replace, SweepInv, BitsOK
  <2>2. /\ victims' \in Seq(Ways) /\ Len(victims') = 1 /\ victims'[1] = w
    BY <2>1
  <2>3. given_up' = {w}
    BY <2>2 DEF given_up
  <2>4. Balanced(plru_bits', given_up')
    BY <2>1, <2>3, BalancedAgain DEF SweepInv, BitsOK
  <2>5. QED
    BY <1>1, <2>2, <2>4, WaysAssumption DEF SweepInv, MissesSweepTheSet, Balanced
<1>4. ASSUME NEW w \in Ways, touch(w) PROVE SweepInv'
  <2>1. victims' = <<>> /\ Len(victims') = 0
    BY <1>4 DEF touch
  <2>2. given_up' = {}
    BY <2>1 DEF given_up
  <2>3. Balanced(plru_bits', given_up')
    BY <2>2, BalancedEmpty
  <2>4. QED
    BY <1>1, <2>1, <2>3, WaysAssumption DEF SweepInv, MissesSweepTheSet, Balanced
<1>5. CASE UNCHANGED vars
  BY <1>1, <1>5 DEF vars, SweepInv, MissesSweepTheSet, given_up, Balanced
<1>6. QED
  BY <1>2, <1>3, <1>4, <1>5 DEF Next

\* Misses without a hit in between use every way before they use one twice
\* (plru_victim followed by plru_update of the way it names), for every number
\* of ways that is a power of two.
THEOREM MissesSweep == Spec => []MissesSweepTheSet
PROOF
<1>1. SweepInv => MissesSweepTheSet
  BY DEF SweepInv
<1>2. QED
  BY <1>1, SweepInit, SweepInductive, PTL DEF Spec
==============================================================================
