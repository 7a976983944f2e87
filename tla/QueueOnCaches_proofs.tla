------------------------ MODULE QueueOnCaches_proofs ------------------------
(***************************************************************************)
(* Programs whose lines fit the L2.  The L2 then never evicts, so no clean *)
(* line is lost and the caches are a flat memory (WorkingSetIsFlat); the   *)
(* benchmark of QueueOnCaches is such a program, so its threads run as     *)
(* ProducerConsumer says, whatever the sizes of the caches.                *)
(***************************************************************************)
EXTENDS QueueOnCaches, MesiProtocol_proofs, FiniteSetTheorems

(***************************************************************************)
(* The lines the L2 holds.                                                 *)
(***************************************************************************)
Confined(s, W) == \A k \in Lines : s.l2[k].state # INVALID => k \in W

\* From s to t the L2 drops no line.
Keeps(s, t) == \A k \in Lines : s.l2[k].state # INVALID => t.l2[k].state # INVALID

SameResidents(s, t) ==
  \A k \in Lines : t.l2[k].state # INVALID <=> s.l2[k].state # INVALID

LEMMA ResidentsThrough ==
  ASSUME NEW s, NEW t, NEW u, SameResidents(s, t), SameResidents(t, u)
  PROVE  SameResidents(s, u)
BY DEF SameResidents

LEMMA SameLineResident ==
  ASSUME NEW s, NEW t, NEW l \in Lines,
         \A k \in Lines \ {l} : SameLine(s, t, k),
         t.l2[l].state # INVALID, s.l2[l].state # INVALID
  PROVE  SameResidents(s, t)
BY DEF SameResidents, SameLine

\* An eviction from an L1 leaves the line in the L2.
LEMMA EvictL1DResidents ==
  ASSUME NEW s \in Hierarchy, NEW c \in Cores, NEW V \in SUBSET Lines,
         \A l \in V : LineOK(s, l) /\ holds(s.l1d[c], l)
  PROVE  SameResidents(s, evict_l1_d(s, c, V))
PROOF
<1> DEFINE t == evict_l1_d(s, c, V)
<1>1. \A l \in V : l \in Lines /\ s.l2[l].state # INVALID
  BY DEF LineOK, DirectoryOK
<1>2. /\ \A l \in Lines \ V : SameLine(s, t, l)
      /\ \A l \in V : t.l2[l] =
           IF s.l1d[c][l].state = MODIFIED
             THEN l2_cache_write_way(s.l2[l], c, s.l1d[c][l].data)
             ELSE release_d(s.l2[l], c)
  BY <1>1, EvictL1DEffect
<1> HIDE DEF t
<1>3. ASSUME NEW l \in V PROVE t.l2[l].state # INVALID
  <2>1. l \in Lines /\ s.l2[l] \in L2Line /\ s.l1d[c][l].data \in Data
    BY <1>1 DEF Hierarchy, L1Line
  <2>2. CASE s.l1d[c][l].state = MODIFIED
    BY <1>2, <2>1, <2>2, WriteWay, StatesDistinct
  <2>3. CASE s.l1d[c][l].state # MODIFIED
    BY <1>1, <1>2, <2>1, <2>3, ReleaseD, StatesDistinct
  <2>4. QED
    BY <2>2, <2>3
<1>4. QED
  BY <1>1, <1>2, <1>3 DEF SameResidents, SameLine, t

LEMMA EvictL1IResidents ==
  ASSUME NEW s, Coherent(s), NEW c \in Cores, NEW V \in SUBSET Lines,
         \A l \in V : holds(s.l1i[c], l)
  PROVE  SameResidents(s, evict_l1_i(s, c, V))
PROOF
<1> DEFINE t == evict_l1_i(s, c, V)
<1>1. s \in Hierarchy /\ \A l \in V : l \in Lines /\ LineOK(s, l) /\ s.l2[l].state # INVALID
  BY DEF Coherent, LineOK, DirectoryOK
<1>2. /\ \A l \in Lines \ V : SameLine(s, t, l)
      /\ \A l \in V : t.l2[l] = release_i(s.l2[l], c)
  BY <1>1, EvictL1IEffect
<1> HIDE DEF t
<1>3. ASSUME NEW l \in V PROVE t.l2[l].state # INVALID
  <2>1. l \in Lines /\ s.l2[l] \in L2Line
    BY <1>1 DEF Hierarchy
  <2>2. QED
    BY <1>1, <1>2, <2>1, ReleaseI, StatesDistinct
<1>4. QED
  BY <1>1, <1>2, <1>3 DEF SameResidents, SameLine, t

(***************************************************************************)
(* Hits.                                                                   *)
(***************************************************************************)
LEMMA HeldIsResident ==
  ASSUME NEW s, Coherent(s), NEW c \in Cores, NEW l \in Lines,
         holds(s.l1d[c], l) \/ holds(s.l1i[c], l)
  PROVE  s.l2[l].state # INVALID
BY DEF Coherent, LineOK, DirectoryOK

LEMMA ReadL2HitResidents ==
  ASSUME NEW s, Coherent(s), NEW c \in Cores, NEW l \in Lines, NEW V \in SUBSET Lines,
         \A k \in V : holds(s.l1d[c], k),
         ~holds(s.l1d[c], l), s.l2[l].state # INVALID
  PROVE  SameResidents(s, read_l2_hit_result(s, c, l, V))
PROOF
<1> DEFINE r == read_l2_hit_result(s, c, l, V)
           e == evict_l1_d(s, c, V)
<1>1. Coherent(r) /\ holds(r.l1d[c], l) /\ \A k \in Lines \ {l} : SameLine(e, r, k)
  BY ReadL2HitOK
<1>2. SameResidents(s, e)
  BY EvictL1DResidents DEF Coherent
<1> HIDE DEF r, e
<1>3. r.l2[l].state # INVALID
  BY <1>1, HeldIsResident
<1>4. QED
  BY <1>1, <1>2, <1>3 DEF SameResidents, SameLine, r

LEMMA FetchL2HitResidents ==
  ASSUME NEW s, Coherent(s), NEW c \in Cores, NEW l \in Lines, NEW V \in SUBSET Lines,
         \A k \in V : holds(s.l1i[c], k),
         ~holds(s.l1i[c], l), s.l2[l].state \in {EXCLUSIVE, SHARED}
  PROVE  SameResidents(s, fetch_l2_hit_result(s, c, l, V))
PROOF
<1> DEFINE r == fetch_l2_hit_result(s, c, l, V)
           e == evict_l1_i(s, c, V)
<1>1. Coherent(r) /\ holds(r.l1i[c], l) /\ \A k \in Lines \ {l} : SameLine(e, r, k)
  BY FetchL2HitOK
<1>2. SameResidents(s, e)
  BY EvictL1IResidents
<1> HIDE DEF r, e
<1>3. r.l2[l].state # INVALID
  BY <1>1, HeldIsResident
<1>4. QED
  BY <1>1, <1>2, <1>3, StatesDistinct DEF SameResidents, SameLine, r

LEMMA WriteL1HitResidents ==
  ASSUME NEW s, Coherent(s), NEW c \in Cores, NEW l \in Lines,
         holds(s.l1d[c], l), NEW w \in Words, NEW x \in Vals
  PROVE  SameResidents(s, write_l1_hit_result(s, c, l, w, x))
PROOF
<1> DEFINE r == write_l1_hit_result(s, c, l, w, x)
<1>1. /\ Coherent(r) /\ r.l1d[c][l].state = MODIFIED
      /\ \A k \in Lines \ {l} : SameLine(s, r, k)
  BY WriteL1HitOK
<1> HIDE DEF r
<1>2. s.l2[l].state # INVALID /\ r.l2[l].state # INVALID
  BY <1>1, HeldIsResident, StatesDistinct DEF holds
<1>3. QED
  BY <1>1, <1>2, SameLineResident DEF r

LEMMA WriteL2HitResidents ==
  ASSUME NEW s, Coherent(s), NEW c \in Cores, NEW l \in Lines, NEW V \in SUBSET Lines,
         \A k \in V : holds(s.l1d[c], k), ~holds(s.l1d[c], l), s.l2[l].state # INVALID,
         NEW w \in Words, NEW x \in Vals
  PROVE  SameResidents(s, write_l2_hit_result(s, c, l, w, x, V))
PROOF
<1> DEFINE r == write_l2_hit_result(s, c, l, w, x, V)
           t == snoop_invalidate_peers(s, s.l2[l].d \ {c}, l)
           e == evict_l1_d(t, c, V)
<1>1. /\ Coherent(r) /\ EvictsAfterSnoop(s, r, c, l, V) /\ r.l1d[c][l].state = MODIFIED
  BY WriteL2HitOK
<1>2. /\ t \in Hierarchy
      /\ \A k \in V : LineOK(t, k) /\ holds(t.l1d[c], k)
      /\ \A k \in Lines \ {l} : SameLine(s, t, k) /\ SameLine(e, r, k)
  BY <1>1 DEF EvictsAfterSnoop
<1> HIDE DEF r, t
<1>3. SameResidents(t, e)
  BY <1>2, EvictL1DResidents
<1> HIDE DEF e
<1>4. r.l2[l].state # INVALID
  BY <1>1, HeldIsResident, StatesDistinct DEF holds
<1>5. QED
  BY <1>2, <1>3, <1>4 DEF SameResidents, SameLine, r

(***************************************************************************)
(* The L2 evicts nothing.                                                  *)
(***************************************************************************)
LEMMA SetNotFull ==
  ASSUME NEW s, NEW W \in SUBSET Lines, FitsL2(W), Confined(s, W),
         NEW l \in W, s.l2[l].state = INVALID
  PROVE  Cardinality(in_l2_set(s, l)) < NUM_L2_WAYS
PROOF
<1> DEFINE A == {k \in W : l2_to_index(k) = l2_to_index(l)}
           B == in_l2_set(s, l)
<1>1. IsFiniteSet(A)
  <2>1. IsFiniteSet(Lines)
    BY GeometryAssumption, FS_Interval DEF Lines
  <2>2. A \subseteq Lines
    OBVIOUS
  <2>3. QED
    BY <2>1, <2>2, FS_Subset
<1>2. l \in A /\ B \subseteq A \ {l}
  BY DEF in_l2_set, Confined
<1>3. Cardinality(A) <= NUM_L2_WAYS
  BY DEF FitsL2
<1> HIDE DEF A, B
<1>4. /\ IsFiniteSet(A \ {l}) /\ Cardinality(A \ {l}) = Cardinality(A) - 1
      /\ Cardinality(A) \in Nat
  BY <1>1, <1>2, FS_RemoveElement, FS_CardinalityType
<1>5. Cardinality(B) <= Cardinality(A \ {l}) /\ Cardinality(B) \in Nat
  BY <1>2, <1>4, FS_Subset, FS_CardinalityType
<1>6. QED
  BY <1>3, <1>4, <1>5, GeometryAssumption DEF B

LEMMA NoVictims ==
  ASSUME NEW s, NEW W \in SUBSET Lines, FitsL2(W), Confined(s, W),
         NEW fills \in SUBSET W, \A l \in fills : s.l2[l].state = INVALID,
         NEW V \in l2_victims(s, fills)
  PROVE  V = {}
PROOF
<1>1. \A l \in fills : ~(Cardinality(in_l2_set(s, l)) >= NUM_L2_WAYS)
  <2>1. SUFFICES ASSUME NEW l \in fills
                 PROVE  ~(Cardinality(in_l2_set(s, l)) >= NUM_L2_WAYS)
    OBVIOUS
  <2>2. Cardinality(in_l2_set(s, l)) < NUM_L2_WAYS
    BY SetNotFull
  <2>3. Cardinality(in_l2_set(s, l)) \in Nat
    <3>1. IsFiniteSet(Lines)
      BY GeometryAssumption, FS_Interval DEF Lines
    <3>2. in_l2_set(s, l) \subseteq Lines
      BY DEF in_l2_set
    <3>3. QED
      BY <3>1, <3>2, FS_Subset, FS_CardinalityType
  <2>4. NUM_L2_WAYS \in Nat
    BY GeometryAssumption
  <2>5. QED
    BY <2>2, <2>3, <2>4
<1> DEFINE full == {l \in fills : Cardinality(in_l2_set(s, l)) >= NUM_L2_WAYS}
<1>2. full = {}
  BY <1>1
<1>3. V \in SUBSET UNION {in_l2_set(s, l) : l \in full}
  BY DEF l2_victims
<1> HIDE DEF full
<1>4. QED
  BY <1>2, <1>3

\* A miss on l adds l and prefetched lines of its page.
Adds(s, t, W) == Keeps(s, t) /\ Confined(t, W)

LEMMA PrefetchAdds ==
  ASSUME NEW s, Coherent(s), NEW W \in SUBSET Lines, FitsL2(W), Confined(s, W),
         NEW l \in W, NEW fills \in SUBSET prefetchable(s, l),
         NEW V \in l2_victims(s, fills)
  PROVE  Adds(s, pf_fill_l2(s, fills, V), W)
PROOF
<1> DEFINE t == pf_fill_l2(s, fills, V)
<1>1. fills \in SUBSET W /\ \A k \in fills : s.l2[k].state = INVALID
  BY DEF prefetchable, FitsL2
<1>2. V = {}
  BY <1>1, NoVictims
<1>3. \A k \in Lines \ fills : SameLine(s, t, k)
  <2>1. fills \in SUBSET Lines /\ V \in SUBSET Lines
    BY <1>1, <1>2
  <2>2. \A k \in Lines \ (fills \cup V) : SameLine(s, t, k)
    BY <1>1, <2>1, PrefetchFillOK
  <2>3. QED
    BY <1>2, <2>2
<1> HIDE DEF t
<1>4. QED
  BY <1>1, <1>3 DEF Adds, Keeps, Confined, SameLine, t

LEMMA StreamMissAdds ==
  ASSUME NEW s, Coherent(s), NEW W \in SUBSET Lines, FitsL2(W), Confined(s, W),
         NEW l \in W, NEW t \in after_stream_miss(s, l)
  PROVE  Adds(s, t, W)
BY PrefetchAdds DEF after_stream_miss

LEMMA NextlineMissAdds ==
  ASSUME NEW s, Coherent(s), NEW W \in SUBSET Lines, FitsL2(W), Confined(s, W),
         NEW l \in W, NEW t \in after_nextline_miss(s, l)
  PROVE  Adds(s, t, W)
PROOF
<1> DEFINE fills == prefetchable(s, l) \cap {l + 1}
<1>1. PICK V \in l2_victims(s, fills) : t = pf_fill_l2(s, fills, V)
  BY DEF after_nextline_miss
<1>2. fills \in SUBSET prefetchable(s, l)
  OBVIOUS
<1> HIDE DEF fills
<1>3. QED
  BY <1>1, <1>2, PrefetchAdds

\* The stages of a demand miss: e after evict_l2, g after evict_l1, f filled.
LEMMA MissAdds ==
  ASSUME NEW s, Coherent(s), NEW W \in SUBSET Lines, FitsL2(W), Confined(s, W),
         NEW l \in W, s.l2[l].state = INVALID,
         NEW V \in l2_victims(s, {l}), NEW e, e = evict_l2(s, V),
         NEW g, SameResidents(e, g),
         NEW f, \A k \in Lines \ {l} : SameLine(g, f, k),
         NEW t, Confined(f, W) => Adds(f, t, W)
  PROVE  Adds(s, t, W)
PROOF
<1>1. V = {}
  BY NoVictims
<1>2. \A k \in Lines : SameLine(s, e, k)
  BY <1>1, EvictL2Effect
<1>3. \A k \in Lines \ {l} : f.l2[k].state # INVALID <=> s.l2[k].state # INVALID
  BY <1>2 DEF SameResidents, SameLine
<1>4. Confined(f, W)
  BY <1>3 DEF Confined
<1>5. Keeps(s, f)
  BY <1>3 DEF Keeps
<1>6. QED
  BY <1>4, <1>5 DEF Adds, Keeps

LEMMA ReadMissAdds ==
  ASSUME NEW s, Coherent(s), NEW W \in SUBSET Lines, FitsL2(W), Confined(s, W),
         NEW c \in Cores, NEW l \in W, s.l2[l].state = INVALID,
         NEW V2 \in l2_victims(s, {l}),
         NEW V1 \in l1_victims(evict_l2(s, V2).l1d[c], l),
         NEW t \in after_stream_miss(read_miss_fill(evict_l2(s, V2), c, l, V1), l)
  PROVE  Adds(s, t, W)
PROOF
<1> DEFINE e == evict_l2(s, V2)
           g == evict_l1_d(e, c, V1)
           f == read_miss_fill(e, c, l, V1)
<1>1. Coherent(e) /\ e.l2[l].state = INVALID
  BY StillAbsent, L2Victims
<1>e. e = evict_l2(s, V2) /\ V1 \in l1_victims(e.l1d[c], l)
      /\ t \in after_stream_miss(f, l)
  OBVIOUS
<1> HIDE DEF e
<1>2. V1 \in SUBSET Lines /\ \A k \in V1 : holds(e.l1d[c], k)
  BY <1>e, L1Victims
<1>3. SameResidents(e, g)
  BY <1>1, <1>2, EvictL1DResidents DEF Coherent
<1>4. Coherent(f) /\ \A k \in Lines \ {l} : SameLine(g, f, k)
  BY <1>1, <1>2, ReadMissFillOK
<1> HIDE DEF f, g
<1>5. Confined(f, W) => Adds(f, t, W)
  BY <1>e, <1>4, StreamMissAdds
<1>6. QED
  BY <1>e, <1>3, <1>4, <1>5, MissAdds

LEMMA WriteMissAdds ==
  ASSUME NEW s, Coherent(s), NEW W \in SUBSET Lines, FitsL2(W), Confined(s, W),
         NEW c \in Cores, NEW l \in W, s.l2[l].state = INVALID,
         NEW w \in Words, NEW x \in Vals,
         NEW V2 \in l2_victims(s, {l}),
         NEW V1 \in l1_victims(evict_l2(s, V2).l1d[c], l),
         NEW t \in after_stream_miss(write_miss_fill(evict_l2(s, V2), c, l, w, x, V1), l)
  PROVE  Adds(s, t, W)
PROOF
<1> DEFINE e == evict_l2(s, V2)
           g == evict_l1_d(e, c, V1)
           f == write_miss_fill(e, c, l, w, x, V1)
<1>1. Coherent(e) /\ e.l2[l].state = INVALID
  BY StillAbsent, L2Victims
<1>e. e = evict_l2(s, V2) /\ V1 \in l1_victims(e.l1d[c], l)
      /\ t \in after_stream_miss(f, l)
  OBVIOUS
<1> HIDE DEF e
<1>2. V1 \in SUBSET Lines /\ \A k \in V1 : holds(e.l1d[c], k)
  BY <1>e, L1Victims
<1>3. SameResidents(e, g)
  BY <1>1, <1>2, EvictL1DResidents DEF Coherent
<1>4. Coherent(f) /\ \A k \in Lines \ {l} : SameLine(g, f, k)
  BY <1>1, <1>2, WriteMissFillOK
<1> HIDE DEF f, g
<1>5. Confined(f, W) => Adds(f, t, W)
  BY <1>e, <1>4, StreamMissAdds
<1>6. QED
  BY <1>e, <1>3, <1>4, <1>5, MissAdds

LEMMA FetchMissAdds ==
  ASSUME NEW s, Coherent(s), NEW W \in SUBSET Lines, FitsL2(W), Confined(s, W),
         NEW c \in Cores, NEW l \in W, s.l2[l].state = INVALID,
         NEW V2 \in l2_victims(s, {l}),
         NEW V1 \in l1_victims(evict_l2(s, V2).l1i[c], l),
         NEW t \in after_nextline_miss(fetch_miss_fill(evict_l2(s, V2), c, l, V1), l)
  PROVE  Adds(s, t, W)
PROOF
<1> DEFINE e == evict_l2(s, V2)
           g == evict_l1_i(e, c, V1)
           f == fetch_miss_fill(e, c, l, V1)
<1>1. Coherent(e) /\ e.l2[l].state = INVALID
  BY StillAbsent, L2Victims
<1>e. e = evict_l2(s, V2) /\ V1 \in l1_victims(e.l1i[c], l)
      /\ t \in after_nextline_miss(f, l)
  OBVIOUS
<1> HIDE DEF e
<1>2. V1 \in SUBSET Lines /\ \A k \in V1 : holds(e.l1i[c], k)
  BY <1>e, L1Victims
<1>3. SameResidents(e, g)
  BY <1>1, <1>2, EvictL1IResidents
<1>4. Coherent(f) /\ \A k \in Lines \ {l} : SameLine(g, f, k)
  BY <1>1, <1>2, FetchMissFillOK
<1> HIDE DEF f, g
<1>5. Confined(f, W) => Adds(f, t, W)
  BY <1>e, <1>4, NextlineMissAdds
<1>6. QED
  BY <1>e, <1>3, <1>4, <1>5, MissAdds

LEMMA HitAdds ==
  ASSUME NEW s, NEW t, NEW W, Confined(s, W), SameResidents(s, t)
  PROVE  Adds(s, t, W)
BY DEF Adds, Keeps, Confined, SameResidents

(***************************************************************************)
(* The accesses.                                                           *)
(***************************************************************************)
AddsStep(W) == \E t : become(t) /\ Adds(here, t, W)

LEMMA ReadAdds ==
  ASSUME IInv, NEW W \in SUBSET Lines, FitsL2(W), Confined(here, W),
         NEW c \in Cores, NEW l \in W, cpu_read(c, l)
  PROVE  AddsStep(W)
PROOF
<1>1. /\ Coherent(here) /\ here \in Hierarchy /\ l \in Lines
      /\ here.l1d = l1d /\ here.l2 = l2
  BY HereFields
<1>2. CASE read_l1_hit(c, l)
  BY <1>2, HitAdds DEF read_l1_hit, AddsStep, SameResidents
<1>3. CASE read_l2_hit(c, l)
  <2>1. PICK V \in l1_victims(l1d[c], l) : become(read_l2_hit_result(here, c, l, V))
    BY <1>3 DEF read_l2_hit
  <2>2. V \in SUBSET Lines /\ \A k \in V : holds(here.l1d[c], k)
    BY <1>1, L1Victims
  <2>3. ~holds(here.l1d[c], l) /\ here.l2[l].state # INVALID
    BY <1>1, <1>3 DEF read_l2_hit
  <2>4. SameResidents(here, read_l2_hit_result(here, c, l, V))
    BY <1>1, <2>2, <2>3, ReadL2HitResidents
  <2>5. QED
    BY <2>1, <2>4, HitAdds DEF AddsStep
<1>4. CASE read_miss(c, l)
  <2>1. PICK V2 \in l2_victims(here, {l}) :
          \E V1 \in l1_victims(evict_l2(here, V2).l1d[c], l) :
            \E t \in after_stream_miss(read_miss_fill(evict_l2(here, V2), c, l, V1), l) :
              become(t)
    BY <1>4 DEF read_miss
  <2>2. PICK V1 \in l1_victims(evict_l2(here, V2).l1d[c], l) :
          \E t \in after_stream_miss(read_miss_fill(evict_l2(here, V2), c, l, V1), l) :
            become(t)
    BY <2>1
  <2>3. PICK t \in after_stream_miss(read_miss_fill(evict_l2(here, V2), c, l, V1), l) :
          become(t)
    BY <2>2
  <2>4. here.l2[l].state = INVALID
    BY <1>1, <1>4 DEF read_miss
  <2>5. Adds(here, t, W)
    BY <1>1, <2>4, ReadMissAdds
  <2>6. QED
    BY <2>3, <2>5 DEF AddsStep
<1>5. QED
  BY <1>2, <1>3, <1>4 DEF cpu_read

LEMMA WriteAdds ==
  ASSUME IInv, NEW W \in SUBSET Lines, FitsL2(W), Confined(here, W),
         NEW c \in Cores, NEW l \in W, NEW w \in Words, NEW x \in Vals,
         cpu_write(c, l, w, x)
  PROVE  AddsStep(W)
PROOF
<1>1. /\ Coherent(here) /\ here \in Hierarchy /\ l \in Lines
      /\ here.l1d = l1d /\ here.l2 = l2
  BY HereFields
<1>2. CASE write_l1_hit(c, l, w, x)
  <2>1. holds(here.l1d[c], l)
    BY <1>1, <1>2 DEF write_l1_hit
  <2>2. here.l2[l].state # INVALID
    BY <1>1, <2>1, HeldIsResident
  <2>3. become(write_l1_hit_result(here, c, l, w, x))
    BY <1>1, <1>2, <2>2 DEF write_l1_hit
  <2>4. SameResidents(here, write_l1_hit_result(here, c, l, w, x))
    BY <1>1, <2>1, WriteL1HitResidents
  <2>5. QED
    BY <2>3, <2>4, HitAdds DEF AddsStep
<1>3. CASE write_l2_hit(c, l, w, x)
  <2>1. PICK V \in l1_victims(l1d[c], l) :
          become(write_l2_hit_result(here, c, l, w, x, V))
    BY <1>3 DEF write_l2_hit
  <2>2. V \in SUBSET Lines /\ \A k \in V : holds(here.l1d[c], k)
    BY <1>1, L1Victims
  <2>3. ~holds(here.l1d[c], l) /\ here.l2[l].state # INVALID
    BY <1>1, <1>3 DEF write_l2_hit
  <2>4. SameResidents(here, write_l2_hit_result(here, c, l, w, x, V))
    BY <1>1, <2>2, <2>3, WriteL2HitResidents
  <2>5. QED
    BY <2>1, <2>4, HitAdds DEF AddsStep
<1>4. CASE write_miss(c, l, w, x)
  <2>1. PICK V2 \in l2_victims(here, {l}) :
          \E V1 \in l1_victims(evict_l2(here, V2).l1d[c], l) :
            \E t \in after_stream_miss(
                       write_miss_fill(evict_l2(here, V2), c, l, w, x, V1), l) :
              become(t)
    BY <1>4 DEF write_miss
  <2>2. PICK V1 \in l1_victims(evict_l2(here, V2).l1d[c], l) :
          \E t \in after_stream_miss(
                     write_miss_fill(evict_l2(here, V2), c, l, w, x, V1), l) :
            become(t)
    BY <2>1
  <2>3. PICK t \in after_stream_miss(
                     write_miss_fill(evict_l2(here, V2), c, l, w, x, V1), l) :
          become(t)
    BY <2>2
  <2>4. here.l2[l].state = INVALID
    BY <1>1, <1>4 DEF write_miss
  <2>5. Adds(here, t, W)
    BY <1>1, <2>4, WriteMissAdds
  <2>6. QED
    BY <2>3, <2>5 DEF AddsStep
<1>5. QED
  BY <1>2, <1>3, <1>4 DEF cpu_write

LEMMA FetchAdds ==
  ASSUME IInv, NEW W \in SUBSET Lines, FitsL2(W), Confined(here, W),
         NEW c \in Cores, NEW l \in W, cpu_fetch(c, l)
  PROVE  AddsStep(W)
PROOF
<1>1. /\ Coherent(here) /\ here \in Hierarchy /\ l \in Lines
      /\ here.l1i = l1i /\ here.l2 = l2
  BY HereFields
<1>2. CASE fetch_l1_hit(c, l)
  BY <1>2, HitAdds DEF fetch_l1_hit, AddsStep, SameResidents
<1>3. CASE fetch_modified(c, l)
  <2> DEFINE t == [here EXCEPT !.abort = "fetch_of_modified"]
  <2>1. become(t)
    BY <1>3 DEF fetch_modified
  <2>2. t.l2 = here.l2
    BY DEF here
  <2> HIDE DEF t
  <2>3. SameResidents(here, t)
    BY <2>2 DEF SameResidents
  <2>4. QED
    BY <2>1, <2>3, HitAdds DEF AddsStep
<1>4. CASE fetch_l2_hit(c, l)
  <2>1. PICK V \in l1_victims(l1i[c], l) : become(fetch_l2_hit_result(here, c, l, V))
    BY <1>4 DEF fetch_l2_hit
  <2>2. V \in SUBSET Lines /\ \A k \in V : holds(here.l1i[c], k)
    BY <1>1, L1Victims
  <2>3. ~holds(here.l1i[c], l) /\ here.l2[l].state \in {EXCLUSIVE, SHARED}
    BY <1>1, <1>4 DEF fetch_l2_hit
  <2>4. SameResidents(here, fetch_l2_hit_result(here, c, l, V))
    BY <1>1, <2>2, <2>3, FetchL2HitResidents
  <2>5. QED
    BY <2>1, <2>4, HitAdds DEF AddsStep
<1>5. CASE fetch_miss(c, l)
  <2>1. PICK V2 \in l2_victims(here, {l}) :
          \E V1 \in l1_victims(evict_l2(here, V2).l1i[c], l) :
            \E t \in after_nextline_miss(fetch_miss_fill(evict_l2(here, V2), c, l, V1), l) :
              become(t)
    BY <1>5 DEF fetch_miss
  <2>2. PICK V1 \in l1_victims(evict_l2(here, V2).l1i[c], l) :
          \E t \in after_nextline_miss(fetch_miss_fill(evict_l2(here, V2), c, l, V1), l) :
            become(t)
    BY <2>1
  <2>3. PICK t \in after_nextline_miss(fetch_miss_fill(evict_l2(here, V2), c, l, V1), l) :
          become(t)
    BY <2>2
  <2>4. here.l2[l].state = INVALID
    BY <1>1, <1>5 DEF fetch_miss
  <2>5. Adds(here, t, W)
    BY <1>1, <2>4, FetchMissAdds
  <2>6. QED
    BY <2>3, <2>5 DEF AddsStep
<1>6. QED
  BY <1>2, <1>3, <1>4, <1>5 DEF cpu_fetch

LEMMA AddsStepKeeps ==
  ASSUME IInv, NEW W \in SUBSET Lines, AddsStep(W)
  PROVE  Confined(here, W)' /\ \A l \in Lines : ~LostByCleanEviction(l)
PROOF
<1>1. PICK t : become(t) /\ Adds(here, t, W)
  BY DEF AddsStep
<1>2. here.l2 = l2 /\ here'.l2 = t.l2 /\ l2' = t.l2
  BY <1>1 DEF here, become
<1>3. Confined(here, W)'
  BY <1>1, <1>2 DEF Adds, Confined
<1>4. \A l \in Lines : ~LostByCleanEviction(l)
  BY <1>1, <1>2, StatesDistinct DEF Adds, Keeps, LostByCleanEviction
<1>5. QED
  BY <1>3, <1>4

(***************************************************************************)
(* A program on a working set that fits the L2.                            *)
(***************************************************************************)
\* The protocol is coherent and the L2 holds lines of the working set only.
WInv(W) == IInv /\ Confined(here, W)

LEMMA NextOnAdds ==
  ASSUME IInv, NEW W \in SUBSET Lines, FitsL2(W), Confined(here, W), NextOn(W)
  PROVE  Next /\ AddsStep(W)
PROOF
<1>1. PICK c \in Cores, l \in W :
        \/ cpu_read(c, l)
        \/ \E w \in Words, x \in Vals : cpu_write(c, l, w, x)
        \/ cpu_fetch(c, l)
  BY DEF NextOn
<1>2. Next
  BY <1>1 DEF NextOn, Next
<1>3. AddsStep(W)
  BY <1>1, ReadAdds, WriteAdds, FetchAdds
<1>4. QED
  BY <1>2, <1>3

\* Nothing is resident in the beginning.
LEMMA InitConfined ==
  ASSUME NEW W \in SUBSET Lines, Init
  PROVE  Confined(here, W)
BY DEF Init, Confined, here, NoL2Line

\* A program that accesses only lines that fit the L2, with what the
\* prefetchers add to them, sees one flat memory: no store is ever lost, for
\* all its reads, writes and fetches of both cores and all evictions from L1.
THEOREM WorkingSetIsFlat ==
  ASSUME NEW CONSTANT W \in SUBSET Lines, FitsL2(W)
  PROVE  Init /\ [][NextOn(W)]_vars => CoherentMemorySpec
PROOF
<1> DEFINE memory == [l \in Lines |-> current(l)]
<1>1. Init => WInv(W)
  BY InitIInv, InitConfined DEF WInv
<1>2. WInv(W) /\ [NextOn(W)]_vars => WInv(W)'
  <2>1. SUFFICES ASSUME WInv(W), [NextOn(W)]_vars PROVE WInv(W)'
    OBVIOUS
  <2>2. CASE NextOn(W)
    BY <2>1, <2>2, NextOnAdds, NextIInv, AddsStepKeeps DEF WInv
  <2>3. CASE UNCHANGED vars
    <3>1. here' = here
      BY <2>3 DEF vars, here
    <3>2. Confined(here, W)'
      BY <2>1, <3>1 DEF Confined, WInv
    <3>3. QED
      BY <2>1, <2>3, <3>2, NextIInv DEF WInv
  <2>4. QED
    BY <2>1, <2>2, <2>3
<1>3. WInv(W) /\ [NextOn(W)]_vars => [AbstractMemory!Next]_<<memory, ret>>
  <2>1. SUFFICES ASSUME WInv(W), [NextOn(W)]_vars
                 PROVE  [AbstractMemory!Next]_<<memory, ret>>
    OBVIOUS
  <2>2. CASE NextOn(W)
    BY <2>1, <2>2, NextOnAdds, AddsStepKeeps, NextIsFlat DEF WInv
  <2>3. CASE UNCHANGED vars
    BY <2>3, UnchangedValues DEF vars
  <2>4. QED
    BY <2>1, <2>2, <2>3
<1>4. QED
  BY <1>1, <1>2, <1>3, InitIsFlat, PTL DEF CoherentMemorySpec, AbstractMemory!Spec

(***************************************************************************)
(* The queue in memory: every address has a word of its own.               *)
(***************************************************************************)
LEMMA DivMonotone ==
  ASSUME NEW k \in Nat, NEW m \in Nat, k <= m, NEW n \in Nat \ {0}
  PROVE  k \div n <= m \div n /\ k \div n \in Nat
PROOF
<1> DEFINE a == k \div n
           b == m \div n
<1>1. /\ k = n * a + (k % n) /\ m = n * b + (m % n) /\ a \in Int /\ b \in Int
      /\ k % n \in 0 .. n - 1 /\ m % n \in 0 .. n - 1
  BY DivMod
<1>2. a \in Nat
  OBVIOUS
<1> HIDE DEF a, b
<1>3. CASE a - b >= 1
  <2>1. n * (a - b) >= n
    BY <1>1, <1>3, AtLeast
  <2>2. n * (a - b) = n * a - n * b /\ n * a \in Int /\ n * b \in Int
    BY <1>1
  <2>3. QED
    BY <1>1, <2>1, <2>2
<1>4. QED
  BY <1>1, <1>2, <1>3 DEF a, b

LEMMA QueueSizes ==
  /\ BUF_SIZE \in Nat \ {0, 1} /\ SLOTS_PER_LINE \in Nat \ {0, 1}
  /\ {0, 1} \subseteq 0 .. SLOTS_PER_LINE - 1
  /\ 0 .. SLOTS_PER_LINE - 1 \subseteq Words
BY BenchmarkAssumption

LEMMA Addresses ==
  ASSUME NEW a \in Queue!Addresses
  PROVE  \/ a = <<"head", 0>>
         \/ a = <<"tail", 0>>
         \/ \E k \in 0 .. BUF_SIZE - 1 : a = <<"slot", k>>
BY DEF Queue!Addresses, Queue!HEAD, Queue!TAIL, Queue!Slots

LEMMA Placement ==
  /\ line_of(<<"head", 0>>) = queue_line[0] /\ word_of(<<"head", 0>>) = 0
  /\ line_of(<<"tail", 0>>) = queue_line[0] /\ word_of(<<"tail", 0>>) = 1
  /\ 0 \in QueueLines
  /\ \A k \in 0 .. BUF_SIZE - 1 :
       /\ 1 + k \div SLOTS_PER_LINE \in QueueLines \ {0}
       /\ line_of(<<"slot", k>>) = queue_line[1 + k \div SLOTS_PER_LINE]
       /\ word_of(<<"slot", k>>) = k % SLOTS_PER_LINE
       /\ k % SLOTS_PER_LINE \in 0 .. SLOTS_PER_LINE - 1
PROOF
<1>1. line_of(<<"head", 0>>) = queue_line[0] /\ line_of(<<"tail", 0>>) = queue_line[0]
  BY DEF line_of
<1>2. word_of(<<"head", 0>>) = 0 /\ word_of(<<"tail", 0>>) = 1
  BY QueueSizes DEF word_of
<1>3. (BUF_SIZE - 1) \div SLOTS_PER_LINE \in Nat
  BY QueueSizes, DivMonotone
<1>4. ASSUME NEW k \in 0 .. BUF_SIZE - 1
      PROVE  /\ 1 + k \div SLOTS_PER_LINE \in QueueLines \ {0}
             /\ line_of(<<"slot", k>>) = queue_line[1 + k \div SLOTS_PER_LINE]
             /\ word_of(<<"slot", k>>) = k % SLOTS_PER_LINE
             /\ k % SLOTS_PER_LINE \in 0 .. SLOTS_PER_LINE - 1
  <2>1. k \in Nat /\ BUF_SIZE - 1 \in Nat /\ k <= BUF_SIZE - 1
    BY QueueSizes
  <2>2. /\ k \div SLOTS_PER_LINE <= (BUF_SIZE - 1) \div SLOTS_PER_LINE
        /\ k \div SLOTS_PER_LINE \in Nat
        /\ k % SLOTS_PER_LINE \in 0 .. SLOTS_PER_LINE - 1
    BY <2>1, QueueSizes, DivMonotone, DivMod
  <2>3. line_of(<<"slot", k>>) = queue_line[1 + k \div SLOTS_PER_LINE]
    BY DEF line_of
  <2>4. word_of(<<"slot", k>>) = k % SLOTS_PER_LINE
    BY DEF word_of
  <2>5. QED
    BY <1>3, <2>2, <2>3, <2>4 DEF QueueLines
<1>5. 0 \in QueueLines
  BY <1>3 DEF QueueLines
<1>6. QED
  BY <1>1, <1>2, <1>4, <1>5

LEMMA PlacedInQueue ==
  ASSUME NEW a \in Queue!Addresses
  PROVE  /\ word_of(a) \in Words
         /\ \E n \in QueueLines : line_of(a) = queue_line[n]
BY Addresses, Placement, QueueSizes

LEMMA SlotsApart ==
  ASSUME NEW j \in 0 .. BUF_SIZE - 1, NEW k \in 0 .. BUF_SIZE - 1,
         1 + j \div SLOTS_PER_LINE = 1 + k \div SLOTS_PER_LINE,
         j % SLOTS_PER_LINE = k % SLOTS_PER_LINE
  PROVE  j = k
PROOF
<1>1. /\ j = SLOTS_PER_LINE * (j \div SLOTS_PER_LINE) + (j % SLOTS_PER_LINE)
      /\ k = SLOTS_PER_LINE * (k \div SLOTS_PER_LINE) + (k % SLOTS_PER_LINE)
      /\ j \div SLOTS_PER_LINE \in Int /\ k \div SLOTS_PER_LINE \in Int
  BY QueueSizes, DivMod
<1>2. j \div SLOTS_PER_LINE = k \div SLOTS_PER_LINE
  BY <1>1
<1>3. QED
  BY <1>1, <1>2

LEMMA WordsApart ==
  ASSUME NEW a \in Queue!Addresses, NEW b \in Queue!Addresses,
         line_of(a) = line_of(b), word_of(a) = word_of(b)
  PROVE  a = b
PROOF
<1>1. \A m, n \in QueueLines : queue_line[m] = queue_line[n] => m = n
  BY BenchmarkAssumption
<1>2. CASE a = <<"head", 0>> \/ a = <<"tail", 0>>
  <2>1. CASE \E k \in 0 .. BUF_SIZE - 1 : b = <<"slot", k>>
    BY <1>1, <1>2, <2>1, Placement
  <2>2. QED
    BY <1>2, <2>1, Addresses, Placement
<1>3. CASE \E k \in 0 .. BUF_SIZE - 1 : a = <<"slot", k>>
  <2>1. PICK k \in 0 .. BUF_SIZE - 1 : a = <<"slot", k>>
    BY <1>3
  <2>2. CASE b = <<"head", 0>> \/ b = <<"tail", 0>>
    BY <1>1, <2>1, <2>2, Placement
  <2>3. CASE \E j \in 0 .. BUF_SIZE - 1 : b = <<"slot", j>>
    <3>1. PICK j \in 0 .. BUF_SIZE - 1 : b = <<"slot", j>>
      BY <2>3
    <3>2. 1 + j \div SLOTS_PER_LINE = 1 + k \div SLOTS_PER_LINE
      BY <1>1, <2>1, <3>1, Placement
    <3>3. j % SLOTS_PER_LINE = k % SLOTS_PER_LINE
      BY <2>1, <3>1, Placement
    <3>4. QED
      BY <2>1, <3>1, <3>2, <3>3, SlotsApart
  <2>4. QED
    BY <2>2, <2>3, Addresses
<1>4. QED
  BY <1>2, <1>3, Addresses

\* The memory the threads see through the caches: the substitution of Queue.
Content ==
  [a \in ({"head", "tail"} \X {0}) \cup ({"slot"} \X (0 .. BUF_SIZE - 1))
     |-> current(line_of(a))[word_of(a)]]

LEMMA ContentAt ==
  ASSUME NEW a \in Queue!Addresses
  PROVE  /\ Content[a] = current(line_of(a))[word_of(a)]
         /\ Content'[a] = current(line_of(a))'[word_of(a)]
BY DEF Content, Queue!Addresses, Queue!HEAD, Queue!TAIL, Queue!Slots

(***************************************************************************)
(* An access of a core to a line of the working set.                       *)
(***************************************************************************)
LEMMA CoreReads ==
  ASSUME NEW W \in SUBSET Lines, FitsL2(W), WInv(W), abort = "none",
         NEW c \in Cores, NEW l \in W, cpu_read(c, l)
  PROVE  /\ WInv(W)'
         /\ ret' = <<l, current(l)>> /\ \A k \in Lines : current(k)' = current(k)
PROOF
<1>1. IInv /\ Confined(here, W) /\ l \in Lines
  BY DEF WInv
<1>2. AddsStep(W)
  BY <1>1, ReadAdds
<1>3. Confined(here, W)' /\ \A k \in Lines : ~LostByCleanEviction(k)
  BY <1>1, <1>2, AddsStepKeeps
<1>4. IInv'
  BY <1>1, ReadIInv
<1>5. ReadStep(l)
  BY <1>1, ReadIsReadStep
<1>6. ret' = <<l, current(l)>> /\ \A k \in Lines : current(k)' = current(k)
  BY <1>1, <1>3, <1>5, ReadStepOnValues
<1>7. QED
  BY <1>3, <1>4, <1>6 DEF WInv

LEMMA CoreWrites ==
  ASSUME NEW W \in SUBSET Lines, FitsL2(W), WInv(W), abort = "none",
         NEW c \in Cores, NEW l \in W, NEW w \in Words, NEW x \in Vals,
         cpu_write(c, l, w, x)
  PROVE  /\ WInv(W)'
         /\ current(l)' = [current(l) EXCEPT ![w] = x]
         /\ \A k \in Lines \ {l} : current(k)' = current(k)
PROOF
<1>1. IInv /\ Confined(here, W) /\ l \in Lines
  BY DEF WInv
<1>2. AddsStep(W)
  BY <1>1, WriteAdds
<1>3. Confined(here, W)' /\ \A k \in Lines : ~LostByCleanEviction(k)
  BY <1>1, <1>2, AddsStepKeeps
<1>4. IInv'
  BY <1>1, WriteIInv
<1>5. StoreStep(c, l, w, x)
  BY <1>1, WriteIsStoreStep
<1>6. /\ current(l)' = [current(l) EXCEPT ![w] = x]
      /\ \A k \in Lines \ {l} : current(k)' = current(k)
  BY <1>1, <1>3, <1>5, StoreStepOnValues
<1>7. QED
  BY <1>3, <1>4, <1>6 DEF WInv

LEMMA CurrentIsData ==
  ASSUME IInv, NEW l \in Lines
  PROVE  current(l) \in Data
PROOF
<1>1. 0 \in Cores
  BY BenchmarkAssumption
<1>2. current(l) = Value(here, l) /\ here \in Hierarchy
  BY <1>1, CurrentBefore, HereFields
<1>3. QED
  BY <1>2, ValueOfData

\* read32 delivers the word and leaves the memory alone; write32 changes the
\* word it names and no other, the rest of a shared line included.
LEMMA Read32 ==
  ASSUME NEW W \in SUBSET Lines, FitsL2(W), WInv(W), abort = "none",
         {queue_line[n] : n \in QueueLines} \subseteq W,
         NEW core \in {0, 1}, NEW a \in Queue!Addresses, read32(core, a)
  PROVE  WInv(W)' /\ delivered(a) = Content[a] /\ Content' = Content
PROOF
<1>1. /\ line_of(a) \in W /\ core \in Cores
      /\ \A b \in Queue!Addresses : line_of(b) \in Lines
  BY PlacedInQueue, BenchmarkAssumption
<1>2. cpu_read(core, line_of(a))
  BY DEF read32
<1>3. /\ WInv(W)' /\ ret' = <<line_of(a), current(line_of(a))>>
      /\ \A k \in Lines : current(k)' = current(k)
  BY <1>1, <1>2, CoreReads
<1>4. delivered(a) = Content[a]
  BY <1>3, ContentAt DEF delivered
<1>5. \A b \in Queue!Addresses : current(line_of(b))' = current(line_of(b))
  BY <1>1, <1>3
<1>6. Content' = Content
  BY <1>5 DEF Content, Queue!Addresses, Queue!HEAD, Queue!TAIL, Queue!Slots
<1>7. QED
  BY <1>3, <1>4, <1>6

LEMMA Write32 ==
  ASSUME NEW W \in SUBSET Lines, FitsL2(W), WInv(W), abort = "none",
         {queue_line[n] : n \in QueueLines} \subseteq W,
         NEW core \in {0, 1}, NEW a \in Queue!Addresses, NEW v \in Vals,
         write32(core, a, v)
  PROVE  WInv(W)' /\ Content' = [Content EXCEPT ![a] = v]
PROOF
<1> DEFINE l == line_of(a)
           w == word_of(a)
<1>1. /\ l \in W /\ w \in Words /\ core \in Cores
      /\ \A b \in Queue!Addresses : line_of(b) \in Lines /\ word_of(b) \in Words
  BY PlacedInQueue, BenchmarkAssumption
<1>2. cpu_write(core, l, w, v)
  BY DEF write32
<1>3. /\ WInv(W)' /\ current(l)' = [current(l) EXCEPT ![w] = v]
      /\ \A k \in Lines \ {l} : current(k)' = current(k)
  BY <1>1, <1>2, CoreWrites
<1>4. \A k \in Lines : current(k) \in Data
  BY CurrentIsData DEF WInv
<1>5. ASSUME NEW b \in Queue!Addresses
      PROVE  current(line_of(b))'[word_of(b)] = IF b = a THEN v ELSE Content[b]
  <2>1. CASE b = a
    BY <1>1, <1>3, <1>4, <2>1 DEF Data
  <2>2. CASE b # a /\ line_of(b) = l
    <3>1. word_of(b) # w
      BY <2>2, WordsApart
    <3>2. Content[b] = current(l)[word_of(b)]
      BY <2>2, ContentAt
    <3>3. current(l)'[word_of(b)] = current(l)[word_of(b)]
      BY <1>1, <1>3, <1>4, <3>1 DEF Data
    <3>4. current(line_of(b))' = current(l)'
      BY <2>2
    <3>5. QED
      BY <2>2, <3>2, <3>3, <3>4
  <2>3. CASE b # a /\ line_of(b) # l
    BY <1>1, <1>3, <2>3, ContentAt
  <2>4. QED
    BY <2>1, <2>2, <2>3
<1>6. Content' = [Content EXCEPT ![a] = v]
  <2>1. ASSUME NEW b \in Queue!Addresses PROVE Content'[b] = IF b = a THEN v ELSE Content[b]
    BY <1>5, ContentAt
  <2>2. /\ Content = [b \in Queue!Addresses |-> Content[b]]
        /\ Content' = [b \in Queue!Addresses |-> Content'[b]]
    BY DEF Content, Queue!Addresses, Queue!HEAD, Queue!TAIL, Queue!Slots
  <2>3. QED
    BY <2>1, <2>2
<1>7. QED
  BY <1>3, <1>6

(***************************************************************************)
(* The threads.                                                            *)
(***************************************************************************)
\* What the threads hold and the indices they find in memory; until main has
\* started them both indices are still zero.
ThreadsOK ==
  /\ prod \in Queue!Producer /\ cons \in Queue!Consumer
  /\ prod.pc = "done" \/ prod.i < ITEMS
  /\ cons.pc = "done" \/ cons.i < ITEMS

IndicesOK ==
  /\ Content[Queue!head_va] \in Queue!Slots
  /\ Content[Queue!tail_va] \in Queue!Slots
  /\ started # "threads" =>
       Content[Queue!head_va] = 0 /\ Content[Queue!tail_va] = 0

QInv(W) == WInv(W) /\ ThreadsOK /\ IndicesOK

LEMMA IndexSlots ==
  /\ Queue!head_va \in Queue!Addresses /\ Queue!tail_va \in Queue!Addresses
  /\ Queue!head_va # Queue!tail_va
  /\ \A k : Queue!slot_va(k) # Queue!head_va /\ Queue!slot_va(k) # Queue!tail_va
BY DEF Queue!Addresses, Queue!head_va, Queue!tail_va, Queue!HEAD, Queue!TAIL,
       Queue!slot_va

LEMMA NextIndexInSlots ==
  ASSUME NEW k \in Queue!Slots
  PROVE  Queue!next_index(k) \in Queue!Slots /\ Queue!next_index(k) \in Queue!Stored
PROOF
<1>1. k + 1 \in Nat /\ BUF_SIZE \in Nat \ {0} /\ ITEMS \in Nat
  BY BenchmarkAssumption DEF Queue!Slots
<1>2. (k + 1) % BUF_SIZE \in 0 .. BUF_SIZE - 1
  BY <1>1, DivMod
<1>3. QED
  BY <1>1, <1>2 DEF Queue!next_index, Queue!Slots, Queue!Stored

\* The threads keep their types on every value a slot may hold, as long as
\* the indices they read are indices.
LEMMA ReadsKeepThreads ==
  ASSUME ThreadsOK, NEW a, NEW v,
         a \in {Queue!head_va, Queue!tail_va} => v \in Queue!Slots,
         Queue!producer_reads(a, v) \/ Queue!consumer_reads(a, v)
  PROVE  ThreadsOK'
BY IndexSlots DEF ThreadsOK, Queue!producer_reads, Queue!consumer_reads,
                  Queue!Producer, Queue!Consumer

LEMMA ProducerStores ==
  ASSUME ThreadsOK, NEW a, NEW v, Queue!producer_writes(a, v)
  PROVE  /\ ThreadsOK' /\ v \in Queue!Stored
         /\ a # Queue!head_va /\ (a = Queue!tail_va => v \in Queue!Slots)
PROOF
<1>1. BUF_SIZE \in Nat \ {0, 1} /\ ITEMS \in Nat \ {0}
  BY BenchmarkAssumption
<1>2. prod \in Queue!Producer /\ cons \in Queue!Consumer /\ prod.tail \in Queue!Slots
      /\ prod.i \in 0 .. ITEMS
  BY DEF ThreadsOK, Queue!Producer
<1>3. CASE /\ prod.pc = "slot" /\ a = Queue!slot_va(prod.tail) /\ v = prod.i
           /\ prod' = [prod EXCEPT !.pc = "publish"]
  <2>1. ThreadsOK'
    BY <1>3 DEF ThreadsOK, Queue!producer_writes, Queue!Producer, Queue!Consumer
  <2>2. QED
    BY <1>1, <1>2, <1>3, <2>1, IndexSlots DEF Queue!Stored
<1>4. CASE /\ prod.pc = "publish" /\ a = Queue!tail_va
           /\ v = Queue!next_index(prod.tail)
           /\ prod' = [prod EXCEPT !.pc = IF prod.i + 1 < ITEMS THEN "tail" ELSE "done",
                                   !.i = prod.i + 1]
  <2>1. prod.i < ITEMS
    BY <1>4 DEF ThreadsOK
  <2>2. ThreadsOK'
    <3>1. prod.i + 1 \in 0 .. ITEMS /\ cons' = cons
      BY <1>1, <1>2, <2>1 DEF Queue!producer_writes
    <3>2. prod' \in Queue!Producer
      BY <1>2, <1>4, <3>1 DEF Queue!Producer
    <3>3. prod'.pc = "done" \/ prod'.i < ITEMS
      BY <1>2, <1>4 DEF Queue!Producer
    <3>4. QED
      BY <3>1, <3>2, <3>3 DEF ThreadsOK, Queue!Producer, Queue!Consumer
  <2>3. QED
    BY <1>2, <1>4, <2>2, NextIndexInSlots, IndexSlots
<1>5. QED
  BY <1>3, <1>4 DEF Queue!producer_writes

LEMMA ConsumerStores ==
  ASSUME ThreadsOK, NEW a, NEW v, Queue!consumer_writes(a, v)
  PROVE  /\ ThreadsOK' /\ v \in Queue!Stored
         /\ a = Queue!head_va /\ v \in Queue!Slots
PROOF
<1>1. ITEMS \in Nat \ {0}
  BY BenchmarkAssumption
<1>2. prod \in Queue!Producer /\ cons \in Queue!Consumer /\ cons.head \in Queue!Slots
      /\ cons.i \in 0 .. ITEMS /\ cons.i < ITEMS
  BY DEF ThreadsOK, Queue!Consumer, Queue!consumer_writes
<1>3. ThreadsOK'
  <2>1. /\ cons.i + 1 \in 0 .. ITEMS /\ prod' = prod
        /\ cons' = [cons EXCEPT !.pc = IF cons.i + 1 < ITEMS THEN "head" ELSE "done",
                                !.i = cons.i + 1]
    BY <1>1, <1>2 DEF Queue!consumer_writes
  <2>2. cons' \in Queue!Consumer
    BY <1>2, <2>1 DEF Queue!Consumer
  <2>3. cons'.pc = "done" \/ cons'.i < ITEMS
    BY <1>2, <2>1 DEF Queue!Consumer
  <2>4. QED
    BY <2>1, <2>2, <2>3 DEF ThreadsOK, Queue!Producer, Queue!Consumer
<1>4. QED
  BY <1>2, <1>3, NextIndexInSlots DEF Queue!consumer_writes

\* From here on W is a working set of the benchmark.
BenchmarkFits(W) ==
  FitsL2(W) /\ W \in SUBSET Lines /\ {queue_line[n] : n \in QueueLines} \subseteq W

LEMMA ReadingStep ==
  ASSUME NEW W, BenchmarkFits(W), QInv(W), abort = "none", UNCHANGED started,
         NEW core \in {0, 1}, NEW a \in Queue!Addresses, read32(core, a),
         \/ Queue!producer_reads(a, delivered(a))
         \/ Queue!consumer_reads(a, delivered(a))
  PROVE  QInv(W)' /\ delivered(a) = Content[a] /\ Content' = Content
PROOF
<1>1. WInv(W)' /\ delivered(a) = Content[a] /\ Content' = Content
  BY Read32 DEF BenchmarkFits, QInv
<1> DEFINE v == delivered(a)
<1>2. a \in {Queue!head_va, Queue!tail_va} => v \in Queue!Slots
  BY <1>1 DEF QInv, IndicesOK
<1>3. ThreadsOK
  BY DEF QInv
<1> HIDE DEF v
<1>4. ThreadsOK'
  BY <1>2, <1>3, ReadsKeepThreads DEF v
<1>5. IndicesOK'
  BY <1>1 DEF QInv, IndicesOK, Queue!head_va, Queue!tail_va, Queue!Slots,
              Queue!HEAD, Queue!TAIL
<1>6. QED
  BY <1>1, <1>4, <1>5 DEF QInv

LEMMA WritingStep ==
  ASSUME NEW W, BenchmarkFits(W), QInv(W), abort = "none", UNCHANGED started,
         started = "threads",
         NEW core \in {0, 1}, NEW a \in Queue!Addresses, NEW v \in Vals,
         write32(core, a, v),
         Queue!producer_writes(a, v) \/ Queue!consumer_writes(a, v)
  PROVE  QInv(W)' /\ v \in Queue!Stored /\ Content' = [Content EXCEPT ![a] = v]
PROOF
<1>1. WInv(W)' /\ Content' = [Content EXCEPT ![a] = v]
  BY Write32 DEF BenchmarkFits, QInv
<1>2. /\ ThreadsOK' /\ v \in Queue!Stored
      /\ a \in {Queue!head_va, Queue!tail_va} => v \in Queue!Slots
  BY ProducerStores, ConsumerStores, IndexSlots DEF QInv
<1>3. /\ Content[Queue!head_va] \in Queue!Slots /\ Content[Queue!tail_va] \in Queue!Slots
  BY DEF QInv, IndicesOK
<1>4. DOMAIN Content = Queue!Addresses
  BY DEF Content, Queue!Addresses, Queue!HEAD, Queue!TAIL, Queue!Slots
<1>5. /\ Content'[Queue!head_va] \in Queue!Slots /\ Content'[Queue!tail_va] \in Queue!Slots
  BY <1>1, <1>2, <1>3, <1>4, IndexSlots
<1>6. IndicesOK'
  BY <1>5 DEF IndicesOK, Queue!head_va, Queue!tail_va, Queue!Slots,
              Queue!HEAD, Queue!TAIL
<1>7. QED
  BY <1>1, <1>2, <1>6 DEF QInv

LEMMA MainStep ==
  ASSUME NEW W, BenchmarkFits(W), QInv(W), abort = "none", main
  PROVE  QInv(W)' /\ UNCHANGED <<Content, prod, cons, received>>
PROOF
<1>1. 0 \in Vals
  BY BenchmarkAssumption, DataAssumption
<1>2. /\ started # "threads" /\ UNCHANGED <<prod, cons, received>>
      /\ \E a \in {Queue!head_va, Queue!tail_va} : write32(0, a, 0)
  BY DEF main
<1>3. PICK a \in {Queue!head_va, Queue!tail_va} : write32(0, a, 0)
  BY <1>2
<1>4. a \in Queue!Addresses
  BY IndexSlots
<1>5. WInv(W)' /\ Content' = [Content EXCEPT ![a] = 0]
  BY <1>1, <1>3, <1>4, Write32 DEF BenchmarkFits, QInv
<1>6. Content[a] = 0
  BY <1>2, <1>3 DEF QInv, IndicesOK
<1>7. Content' = Content
  BY <1>5, <1>6 DEF Content
<1>8. ThreadsOK'
  BY <1>2 DEF QInv, ThreadsOK, Queue!Producer, Queue!Consumer, Queue!Slots
<1>9. IndicesOK'
  BY <1>2, <1>7 DEF QInv, IndicesOK, Queue!head_va, Queue!tail_va, Queue!Slots,
                    Queue!HEAD, Queue!TAIL
<1>10. QED
  BY <1>2, <1>5, <1>7, <1>8, <1>9 DEF QInv

LEMMA ProducerStep ==
  ASSUME NEW W, BenchmarkFits(W), QInv(W), abort = "none", producer
  PROVE  QInv(W)' /\ Queue!producer
PROOF
<1>1. PICK a \in Queue!Addresses :
        \/ read32(0, a) /\ Queue!producer_reads(a, delivered(a))
        \/ \E v \in Vals : Queue!producer_writes(a, v) /\ write32(0, a, v)
  BY DEF producer
<1>2. started = "threads" /\ UNCHANGED started
  BY DEF producer
<1>3. CASE read32(0, a) /\ Queue!producer_reads(a, delivered(a))
  <2>1. QInv(W)' /\ delivered(a) = Content[a] /\ Content' = Content
    BY <1>2, <1>3, ReadingStep
  <2>2. Queue!producer_reads(a, Content[a])
    BY <1>3, <2>1
  <2>3. QED
    BY <2>1, <2>2 DEF Queue!producer, Content
<1>4. CASE \E v \in Vals : Queue!producer_writes(a, v) /\ write32(0, a, v)
  <2>1. PICK v \in Vals : Queue!producer_writes(a, v) /\ write32(0, a, v)
    BY <1>4
  <2>2. QInv(W)' /\ v \in Queue!Stored /\ Content' = [Content EXCEPT ![a] = v]
    BY <1>2, <2>1, WritingStep
  <2>3. QED
    BY <2>1, <2>2 DEF Queue!producer, Content
<1>5. QED
  BY <1>1, <1>3, <1>4

LEMMA ConsumerStep ==
  ASSUME NEW W, BenchmarkFits(W), QInv(W), abort = "none", consumer
  PROVE  QInv(W)' /\ Queue!consumer
PROOF
<1>1. PICK a \in Queue!Addresses :
        \/ read32(1, a) /\ Queue!consumer_reads(a, delivered(a))
        \/ \E v \in Vals : Queue!consumer_writes(a, v) /\ write32(1, a, v)
  BY DEF consumer
<1>2. started = "threads" /\ UNCHANGED started
  BY DEF consumer
<1>3. CASE read32(1, a) /\ Queue!consumer_reads(a, delivered(a))
  <2>1. QInv(W)' /\ delivered(a) = Content[a] /\ Content' = Content
    BY <1>2, <1>3, ReadingStep
  <2>2. Queue!consumer_reads(a, Content[a])
    BY <1>3, <2>1
  <2>3. QED
    BY <2>1, <2>2 DEF Queue!consumer, Content
<1>4. CASE \E v \in Vals : Queue!consumer_writes(a, v) /\ write32(1, a, v)
  <2>1. PICK v \in Vals : Queue!consumer_writes(a, v) /\ write32(1, a, v)
    BY <1>4
  <2>2. QInv(W)' /\ v \in Queue!Stored /\ Content' = [Content EXCEPT ![a] = v]
    BY <1>2, <2>1, WritingStep
  <2>3. QED
    BY <2>1, <2>2 DEF Queue!consumer, Content
<1>5. QED
  BY <1>1, <1>3, <1>4

LEMMA QueueStart ==
  ASSUME NEW W, BenchmarkFits(W), QueueInit
  PROVE  QInv(W) /\ Queue!Init
PROOF
<1>1. Init /\ Queue!threads_init /\ BUF_SIZE \in Nat \ {0, 1} /\ ITEMS \in Nat \ {0}
      /\ Zero = 0
  BY BenchmarkAssumption DEF QueueInit
<1>2. WInv(W)
  BY <1>1, InitIInv, InitConfined DEF WInv, BenchmarkFits
<1>3. ASSUME NEW a \in Queue!Addresses PROVE Content[a] = 0
  <2>1. line_of(a) \in Lines /\ word_of(a) \in Words
    BY PlacedInQueue, BenchmarkAssumption
  <2>2. current(line_of(a)) = [w \in Words |-> Zero]
    BY <1>1, <2>1, StatesDistinct
    DEF Init, current, NoL1Line, NoL2Line, ZeroLine
  <2>3. QED
    BY <1>1, <2>1, <2>2, ContentAt
<1>4. Content = [a \in Queue!Addresses |-> 0]
  BY <1>3 DEF Content, Queue!Addresses, Queue!HEAD, Queue!TAIL, Queue!Slots
<1>5. ThreadsOK
  BY <1>1 DEF ThreadsOK, Queue!threads_init, Queue!Producer, Queue!Consumer, Queue!Slots
<1>6. IndicesOK
  BY <1>1, <1>3, IndexSlots DEF IndicesOK, Queue!Slots
<1>7. QED
  BY <1>1, <1>2, <1>4, <1>5, <1>6 DEF QInv, Queue!Init, Content

LEMMA QueueStep ==
  ASSUME NEW W, BenchmarkFits(W), QInv(W), [QueueNext]_queue_vars
  PROVE  QInv(W)' /\ [Queue!Next]_(Queue!vars)
PROOF
<1>1. CASE QueueNext /\ main
  BY <1>1, MainStep DEF QueueNext, Queue!vars, Content
<1>2. CASE QueueNext /\ producer
  BY <1>2, ProducerStep DEF QueueNext, Queue!Next
<1>3. CASE QueueNext /\ consumer
  BY <1>3, ConsumerStep DEF QueueNext, Queue!Next
<1>4. CASE UNCHANGED queue_vars
  <2>1. here' = here /\ UNCHANGED vars
    BY <1>4 DEF queue_vars, here, vars
  <2>2. WInv(W)'
    BY <2>1, NextIInv DEF QInv, WInv, Confined
  <2>3. Content' = Content
    BY <2>1, UnchangedValues, PlacedInQueue, BenchmarkAssumption
    DEF Content, Queue!Addresses, Queue!HEAD, Queue!TAIL, Queue!Slots
  <2>4. UNCHANGED <<prod, cons, received, started>>
    BY <1>4 DEF queue_vars
  <2>5. ThreadsOK'
    BY <2>4 DEF QInv, ThreadsOK, Queue!Producer, Queue!Consumer, Queue!Slots
  <2>6. IndicesOK'
    BY <2>3, <2>4 DEF QInv, IndicesOK, Queue!head_va, Queue!tail_va, Queue!Slots,
                      Queue!HEAD, Queue!TAIL
  <2>7. QED
    BY <2>2, <2>3, <2>4, <2>5, <2>6 DEF QInv, Queue!vars, Content
<1>5. QED
  BY <1>1, <1>2, <1>3, <1>4 DEF QueueNext

\* Whatever the numbers of sets and ways, of slots and items, and wherever
\* the frames of the queue lie, as long as its pages fit the L2: the two
\* threads see each other's stores as if nothing lay between them and one
\* memory.  False sharing of head and tail, the evictions of an L1 that is
\* too small and the prefetches of either core change nothing.
THEOREM QueueRunsOnFlatMemory ==
  ASSUME NEW CONSTANT W, BenchmarkFits(W)
  PROVE  QueueSafeSpec => QueueOverFlatMemory
PROOF
<1>1. QueueInit => QInv(W) /\ Queue!Init
  BY QueueStart
<1>2. QInv(W) /\ [QueueNext]_queue_vars => QInv(W)' /\ [Queue!Next]_(Queue!vars)
  BY QueueStep
<1>3. QED
  BY <1>1, <1>2, PTL DEF QueueSafeSpec, QueueOverFlatMemory, Queue!SafeSpec
=============================================================================
