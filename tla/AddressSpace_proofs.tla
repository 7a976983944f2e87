------------------------ MODULE AddressSpace_proofs ------------------------
(***************************************************************************)
(* Proofs about AddressSpace for every geometry, every number of cores and *)
(* processes and every set of pages.                                       *)
(***************************************************************************)
EXTENDS AddressSpace, SequenceTheorems, Integers, TLAPS

(***************************************************************************)
(* Types.                                                                  *)
(***************************************************************************)
Memories == [watermark : 1 .. limit, free_list : Seq(Frames),
             pml4 : [Procs -> [Index -> Entries]],
             cells : [0 .. size -> [0 .. FRAME_ENTRIES - 1 -> Entries]]]

Descents == [m : Memories, table : Entries, ok : BOOLEAN]

LEMMA Geometry ==
  /\ FRAME_ENTRIES \in Nat /\ FRAME_ENTRIES > 0
  /\ PAGE_TABLE_ENTRIES = 2 * FRAME_ENTRIES /\ PAGE_TABLE_ENTRIES \in Nat
  /\ size \in Nat /\ limit \in Nat /\ 0 < limit /\ limit <= size
  /\ NoFrame \in Entries /\ Frames \subseteq Entries
  /\ Pages \subseteq Nat
BY GeometryAssumption DEF NoFrame, Entries, Frames

LEMMA IndexInTable ==
  ASSUME NEW v \in Pages, NEW level \in 0 .. 3
  PROVE  index[v][level] \in Index
PROOF
<1> DEFINE n == PAGE_TABLE_ENTRIES
<1>1. n \in Nat /\ n > 0 /\ v \in Nat
  BY Geometry
<1> HIDE DEF n
<1>2. n * n \in Nat /\ n * n > 0
  BY <1>1
<1> DEFINE n2 == n * n
<1>3. n2 * n \in Nat /\ n2 * n > 0
  <2>1. n2 \in Nat /\ n2 > 0
    BY <1>2
  <2> HIDE DEF n2
  <2>2. QED
    BY <1>1, <2>1
<1> DEFINE s == span[level + 1]
<1>4. s \in Nat /\ s > 0
  <2>1. span = <<1, n, n2, n2 * n>>
    BY DEF span, n
  <2>2. s \in {1, n, n2, n2 * n}
    BY <2>1
  <2>3. QED
    BY <1>1, <1>2, <1>3, <2>2
<1>5. index[v][level] = (v \div s) % n
  BY DEF index, n
<1> HIDE DEF s
<1>6. v \div s \in Nat
  BY <1>1, <1>4
<1>7. (v \div s) % n \in 0 .. n - 1
  BY <1>1, <1>6
<1>8. QED
  BY <1>5, <1>7 DEF Index, n

\* Entry i of a table lies in the first or the second frame of the table.
LEMMA CellOfIndex ==
  ASSUME NEW i \in Index
  PROVE  /\ i \div FRAME_ENTRIES \in {0, 1} /\ i % FRAME_ENTRIES \in 0 .. FRAME_ENTRIES - 1
         /\ i < FRAME_ENTRIES => i \div FRAME_ENTRIES = 0 /\ i % FRAME_ENTRIES = i
PROOF
<1> DEFINE n == FRAME_ENTRIES
<1>1. n \in Nat /\ n > 0 /\ i \in Nat /\ i < 2 * n
  BY Geometry DEF Index
<1> HIDE DEF n
<1> DEFINE q == i \div n
<1>2. /\ q \in Int /\ i % n \in 0 .. n - 1
      /\ i = n * q + (i % n)
  BY <1>1
<1> DEFINE r == i % n
<1> HIDE DEF q, r
<1>3. q \in Int /\ r \in Int /\ 0 <= r /\ r < n /\ i = n * q + r
  BY <1>1, <1>2 DEF r
<1>4. ~(q < 0)
  <2>1. SUFFICES ASSUME q + 1 <= 0 PROVE FALSE
    BY <1>3
  <2>2. n * (q + 1) <= 0
    BY <1>1, <1>3, <2>1
  <2>3. n * (q + 1) = n * q + n
    BY <1>1, <1>3
  <2>4. QED
    BY <1>1, <1>3, <2>2, <2>3
<1>5. ~(q > 1)
  <2>1. SUFFICES ASSUME 0 <= q - 2 PROVE FALSE
    BY <1>3
  <2>2. 0 <= n * (q - 2)
    BY <1>1, <1>3, <2>1
  <2>3. n * (q - 2) = n * q - 2 * n
    BY <1>1, <1>3
  <2>4. QED
    BY <1>1, <1>3, <2>2, <2>3
<1>6. q \in {0, 1}
  BY <1>3, <1>4, <1>5
<1>7. i < n => q = 0
  BY <1>1, <1>3, <1>6
<1>8. q = 0 => r = i
  BY <1>1, <1>3
<1>9. QED
  BY <1>1, <1>3, <1>6, <1>7, <1>8 DEF n, q, r

LEMMA NextFrameTyped ==
  ASSUME NEW m \in Memories
  PROVE  next_frame(m) \in Entries /\ (next_frame(m) # NoFrame => next_frame(m) \in Frames)
PROOF
<1>1. /\ m.free_list \in Seq(Frames) /\ m.watermark \in 1 .. limit
  BY DEF Memories
<1>2. CASE m.free_list # <<>>
  <2>1. Len(m.free_list) \in 1 .. Len(m.free_list)
    BY <1>1, <1>2, EmptySeq, LenProperties
  <2>2. m.free_list[Len(m.free_list)] \in Frames
    BY <1>1, <2>1, ElementOfSeq
  <2>3. QED
    BY <1>2, <2>2, Geometry DEF next_frame
<1>3. CASE m.free_list = <<>>
  BY <1>1, <1>3, Geometry DEF next_frame, Frames, Entries, NoFrame
<1>4. QED
  BY <1>2, <1>3

LEMMA TakeTyped ==
  ASSUME NEW m \in Memories, next_frame(m) # NoFrame
  PROVE  take_frame(m) \in Memories
PROOF
<1> DEFINE f == next_frame(m)
<1>1. /\ m.free_list \in Seq(Frames) /\ m.watermark \in 1 .. limit
      /\ m.cells \in [0 .. size -> [0 .. FRAME_ENTRIES - 1 -> Entries]]
      /\ m.pml4 \in [Procs -> [Index -> Entries]]
  BY DEF Memories
<1>2. EmptyFrame \in [0 .. FRAME_ENTRIES - 1 -> Entries]
  BY Geometry DEF EmptyFrame
<1>3. [m.cells EXCEPT ![f] = EmptyFrame] \in [0 .. size -> [0 .. FRAME_ENTRIES - 1 -> Entries]]
  BY <1>1, <1>2
<1>4. CASE m.free_list # <<>>
  <2>1. SubSeq(m.free_list, 1, Len(m.free_list) - 1) \in Seq(Frames)
    <3>1. Len(m.free_list) - 1 \in Int
      BY <1>1, LenProperties
    <3>2. \A n \in 1 .. Len(m.free_list) - 1 : m.free_list[n] \in Frames
      BY <1>1, ElementOfSeq, LenProperties
    <3>3. QED
      BY <3>1, <3>2, SubSeqProperties
  <2>2. take_frame(m) = [m EXCEPT !.free_list = SubSeq(@, 1, Len(@) - 1), !.cells[f] = EmptyFrame]
    BY <1>4 DEF take_frame
  <2>3. QED
    BY <1>1, <1>3, <2>1, <2>2 DEF Memories
<1>5. CASE m.free_list = <<>>
  <2>1. f = m.watermark /\ f + 1 \in 1 .. limit
    BY <1>1, <1>5, Geometry DEF next_frame
  <2>2. take_frame(m) = [m EXCEPT !.watermark = f + 1, !.cells[f] = EmptyFrame]
    BY <1>5 DEF take_frame
  <2> HIDE DEF f
  <2>3. QED
    BY <1>1, <1>3, <2>1, <2>2 DEF Memories
<1>6. QED
  BY <1>4, <1>5

LEMMA FreeTyped ==
  ASSUME NEW m \in Memories, NEW f \in Frames
  PROVE  free_frame(m, f) \in Memories
PROOF
<1>1. Append(m.free_list, f) \in Seq(Frames)
  BY AppendProperties DEF Memories
<1>2. QED
  BY <1>1 DEF free_frame, Memories

LEMMA EntryTyped ==
  ASSUME NEW m \in Memories, NEW p \in Procs, NEW table \in Entries, NEW i \in Index
  PROVE  entry(m, p, table, i) \in Entries
PROOF
<1>1. /\ m.pml4 \in [Procs -> [Index -> Entries]]
      /\ m.cells \in [0 .. size -> [0 .. FRAME_ENTRIES - 1 -> Entries]]
  BY DEF Memories
<1>2. /\ i \div FRAME_ENTRIES \in {0, 1} /\ i % FRAME_ENTRIES \in 0 .. FRAME_ENTRIES - 1
  BY CellOfIndex
<1>3. table + i \div FRAME_ENTRIES \in 0 .. size
  BY <1>2, Geometry DEF Entries
<1>4. QED
  BY <1>1, <1>2, <1>3 DEF entry

LEMMA SetEntryTyped ==
  ASSUME NEW m \in Memories, NEW p \in Procs, NEW table \in Entries, NEW i \in Index,
         NEW e \in Entries
  PROVE  set_entry(m, p, table, i, e) \in Memories
PROOF
<1>1. /\ m.pml4 \in [Procs -> [Index -> Entries]]
      /\ m.cells \in [0 .. size -> [0 .. FRAME_ENTRIES - 1 -> Entries]]
  BY DEF Memories
<1> DEFINE g == table + i \div FRAME_ENTRIES
           j == i % FRAME_ENTRIES
<1>2. [m.pml4 EXCEPT ![p][i] = e] \in [Procs -> [Index -> Entries]]
  BY <1>1
<1>3. [m.cells EXCEPT ![g][j] = e] \in [0 .. size -> [0 .. FRAME_ENTRIES - 1 -> Entries]]
  <2> HIDE DEF g, j
  <2>1. QED
    BY <1>1
<1>4. set_entry(m, p, table, i, e) =
        IF table = NoFrame THEN [m EXCEPT !.pml4 = [m.pml4 EXCEPT ![p][i] = e]]
                           ELSE [m EXCEPT !.cells = [m.cells EXCEPT ![g][j] = e]]
  BY DEF set_entry
<1>5. QED
  BY <1>2, <1>3, <1>4 DEF Memories

LEMMA DescendTyped ==
  ASSUME NEW d \in Descents, NEW p \in Procs, NEW v \in Pages, NEW level \in 0 .. 3
  PROVE  descend(d, p, v, level) \in Descents
PROOF
<1> DEFINE i == index[v][level]
           below == entry(d.m, p, d.table, i)
           f == next_frame(d.m)
<1>1. d.m \in Memories /\ d.table \in Entries /\ i \in Index
  BY IndexInTable DEF Descents
<1>2. below \in Entries /\ f \in Entries
  BY <1>1, EntryTyped, NextFrameTyped
<1>3. f # NoFrame => set_entry(take_frame(d.m), p, d.table, i, f) \in Memories
  BY <1>1, <1>2, TakeTyped, SetEntryTyped
<1>4. descend(d, p, v, level) =
        IF ~d.ok THEN d
        ELSE IF below # NoFrame THEN [d EXCEPT !.table = below]
        ELSE IF f = NoFrame THEN [d EXCEPT !.ok = FALSE]
        ELSE [d EXCEPT !.m = set_entry(take_frame(d.m), p, d.table, i, f), !.table = f]
  BY DEF descend
<1> HIDE DEF i, below, f
<1>5. QED
  BY <1>2, <1>3, <1>4 DEF Descents

LEMMA MapTyped ==
  ASSUME NEW m \in Memories, NEW p \in Procs, NEW v \in Pages, NEW pa \in Entries
  PROVE  map_page(m, p, v, pa) \in Descents
PROOF
<1> DEFINE root == [m |-> m, table |-> NoFrame, ok |-> TRUE]
           d == descend(descend(descend(root, p, v, 3), p, v, 2), p, v, 1)
<1>1. root \in Descents
  BY Geometry DEF Descents
<1>2. d \in Descents
  BY <1>1, DescendTyped
<1>3. map_page(m, p, v, pa) =
        IF d.ok THEN [d EXCEPT !.m = set_entry(d.m, p, d.table, index[v][0], pa)] ELSE d
  BY DEF map_page
<1> HIDE DEF d
<1>4. set_entry(d.m, p, d.table, index[v][0], pa) \in Memories
  BY <1>2, IndexInTable, SetEntryTyped DEF Descents
<1>5. QED
  BY <1>2, <1>3, <1>4 DEF Descents

LEMMA FillTyped ==
  ASSUME NEW tlb \in [Pages -> Entries], NEW sets, NEW v \in Pages, NEW f \in Entries,
         NEW t \in tlb_fill(tlb, sets, v, f)
  PROVE  /\ t \in [Pages -> Entries]
         /\ \A u \in Pages : t[u] \in {tlb[u], NoFrame} \/ (u = v /\ t[u] = f)
PROOF
<1> DEFINE filled == [tlb EXCEPT ![v] = f]
<1>1. \/ t = filled
      \/ \E u \in Pages : t = [filled EXCEPT ![u] = NoFrame]
  BY DEF tlb_fill
<1>2. filled \in [Pages -> Entries] /\ NoFrame \in Entries
  BY Geometry
<1>3. QED
  BY <1>1, <1>2

LEMMA WalkTyped ==
  ASSUME TypeOK, NEW p \in Procs, NEW v \in Pages
  PROVE  page_walk(p, v) \in Entries
PROOF
<1>1. /\ pml4 \in [Procs -> [Index -> Entries]]
      /\ cells \in [0 .. size -> [0 .. FRAME_ENTRIES - 1 -> Entries]]
  BY DEF TypeOK
<1>2. ASSUME NEW t \in Entries, NEW level \in 0 .. 3
      PROVE  walk_from(t, v, level) \in Entries
  <2>1. index[v][level] \in Index
    BY IndexInTable
  <2> DEFINE i == index[v][level]
  <2>2. /\ i \div FRAME_ENTRIES \in {0, 1} /\ i % FRAME_ENTRIES \in 0 .. FRAME_ENTRIES - 1
    BY <2>1, CellOfIndex
  <2>3. t + i \div FRAME_ENTRIES \in 0 .. size
    BY <2>2, Geometry DEF Entries
  <2>4. cells[t + i \div FRAME_ENTRIES][i % FRAME_ENTRIES] \in Entries
    BY <1>1, <2>2, <2>3
  <2>5. QED
    BY <2>4, Geometry DEF walk_from
<1>3. pml4[p][index[v][3]] \in Entries
  BY <1>1, IndexInTable
<1>4. QED
  BY <1>2, <1>3 DEF page_walk

LEMMA HereTyped ==
  ASSUME TypeOK
  PROVE  here \in Memories
BY DEF TypeOK, here, Memories

LEMMA BecomeTyped ==
  ASSUME NEW m \in Memories, become(m)
  PROVE  /\ watermark' \in 1 .. limit /\ free_list' \in Seq(Frames)
         /\ pml4' \in [Procs -> [Index -> Entries]]
         /\ cells' \in [0 .. size -> [0 .. FRAME_ENTRIES - 1 -> Entries]]
BY DEF become, Memories

LEMMA AllocTyped ==
  ASSUME TypeOK, NEW p \in Procs, NEW v \in Pages, alloc_and_map(p, v)
  PROVE  \E m \in Memories : become(m)
PROOF
<1> DEFINE f == next_frame(here)
           mapped == map_page(take_frame(here), p, v, f)
<1>1. here \in Memories /\ f \in Entries
  BY HereTyped, NextFrameTyped
<1>2. f = NoFrame => become(here)
  BY DEF alloc_and_map
<1>3. CASE f # NoFrame
  <2>1. f \in Frames /\ mapped \in Descents
    BY <1>1, <1>3, NextFrameTyped, TakeTyped, MapTyped
  <2>2. mapped.m \in Memories
    BY <2>1 DEF Descents
  <2>3. free_frame(mapped.m, f) \in Memories
    BY <2>1, <2>2, FreeTyped
  <2>4. become(mapped.m) \/ become(free_frame(mapped.m, f))
    BY <1>3 DEF alloc_and_map
  <2>5. QED
    BY <2>2, <2>3, <2>4
<1>4. QED
  BY <1>1, <1>2, <1>3

LEMMA NextTyped ==
  ASSUME TypeOK, [Next]_vars
  PROVE  TypeOK'
PROOF
<1> DEFINE TLBs == [Cores -> [Pages -> Entries]]
<1>1. /\ watermark \in 1 .. limit /\ free_list \in Seq(Frames)
      /\ pml4 \in [Procs -> [Index -> Entries]]
      /\ cells \in [0 .. size -> [0 .. FRAME_ENTRIES - 1 -> Entries]]
      /\ active \in Procs
      /\ l1_dtlb \in TLBs /\ l2_dtlb \in TLBs /\ itlb \in TLBs
  BY DEF TypeOK
<1>2. SUFFICES
        /\ watermark' \in 1 .. limit /\ free_list' \in Seq(Frames)
        /\ pml4' \in [Procs -> [Index -> Entries]]
        /\ cells' \in [0 .. size -> [0 .. FRAME_ENTRIES - 1 -> Entries]]
        /\ active' \in Procs
        /\ l1_dtlb' \in TLBs /\ l2_dtlb' \in TLBs /\ itlb' \in TLBs
  BY DEF TypeOK, Frames, Index, Entries
<1> HIDE DEF TLBs
<1>3. ASSUME NEW p \in Procs, NEW v \in Pages, alloc_and_map(p, v)
      PROVE  <1>2!1
  <2>1. PICK m \in Memories : become(m)
    BY <1>3, AllocTyped
  <2>2. UNCHANGED <<active, tlbs>>
    BY <1>3 DEF alloc_and_map
  <2>3. QED
    BY <1>1, <2>1, <2>2, BecomeTyped DEF tlbs
<1>4. ASSUME NEW p \in Procs, process_switch(p)
      PROVE  <1>2!1
  <2>1. [c \in Cores |-> NoTLB] \in TLBs
    BY Geometry DEF TLBs, NoTLB
  <2>2. QED
    BY <1>1, <1>4, <2>1 DEF process_switch, memory
<1>5. ASSUME NEW c \in Cores, NEW v \in Pages, NEW f \in Entries, NEW tlb \in TLBs, NEW sets,
             NEW t \in tlb_fill(tlb[c], sets, v, f)
      PROVE  t \in [Pages -> Entries]
  <2>1. tlb[c] \in [Pages -> Entries]
    BY DEF TLBs
  <2>2. QED
    BY <2>1, FillTyped
<1>6. ASSUME NEW c \in Cores, NEW v \in Pages, translate_data(c, v)
      PROVE  <1>2!1
  <2>1. /\ UNCHANGED <<memory, active, itlb>>
        /\ page_walk(active, v) \in Entries
    BY <1>1, <1>6, WalkTyped DEF translate_data
  <2>2. l2_dtlb[c][v] \in Entries
    BY <1>1 DEF TLBs
  <2>3. CASE UNCHANGED <<l1_dtlb, l2_dtlb>>
    BY <1>1, <2>1, <2>3 DEF memory
  <2>4. CASE /\ \E t \in tlb_fill(l1_dtlb[c], L1_DTLB_SETS, v, l2_dtlb[c][v]) :
                  l1_dtlb' = [l1_dtlb EXCEPT ![c] = t]
             /\ UNCHANGED l2_dtlb
    <3>1. l1_dtlb' \in TLBs
      <4>1. PICK t \in tlb_fill(l1_dtlb[c], L1_DTLB_SETS, v, l2_dtlb[c][v]) : l1_dtlb' = [l1_dtlb EXCEPT ![c] = t]
        BY <2>4
      <4>2. t \in [Pages -> Entries]
        BY <1>1, <1>5, <2>2
      <4>3. QED
        BY <1>1, <4>1, <4>2 DEF TLBs
    <3>2. QED
      BY <1>1, <2>1, <2>4, <3>1 DEF memory
  <2>5. CASE /\ \E t \in tlb_fill(l1_dtlb[c], L1_DTLB_SETS, v, page_walk(active, v)) :
                  l1_dtlb' = [l1_dtlb EXCEPT ![c] = t]
             /\ \E t \in tlb_fill(l2_dtlb[c], L2_DTLB_SETS, v, page_walk(active, v)) :
                  l2_dtlb' = [l2_dtlb EXCEPT ![c] = t]
    <3>1. l1_dtlb' \in TLBs
      <4>1. PICK t \in tlb_fill(l1_dtlb[c], L1_DTLB_SETS, v, page_walk(active, v)) : l1_dtlb' = [l1_dtlb EXCEPT ![c] = t]
        BY <2>5
      <4>2. t \in [Pages -> Entries]
        BY <1>1, <1>5, <2>1
      <4>3. QED
        BY <1>1, <4>1, <4>2 DEF TLBs
    <3>2. l2_dtlb' \in TLBs
      <4>1. PICK t \in tlb_fill(l2_dtlb[c], L2_DTLB_SETS, v, page_walk(active, v)) : l2_dtlb' = [l2_dtlb EXCEPT ![c] = t]
        BY <2>5
      <4>2. t \in [Pages -> Entries]
        BY <1>1, <1>5, <2>1
      <4>3. QED
        BY <1>1, <4>1, <4>2 DEF TLBs
    <3>3. QED
      BY <1>1, <2>1, <3>1, <3>2 DEF memory
  <2>6. QED
    BY <1>6, <2>3, <2>4, <2>5 DEF translate_data
<1>7. ASSUME NEW c \in Cores, NEW v \in Pages, translate_fetch(c, v)
      PROVE  <1>2!1
  <2>1. /\ UNCHANGED <<memory, active, l1_dtlb, l2_dtlb>>
        /\ page_walk(active, v) \in Entries
    BY <1>1, <1>7, WalkTyped DEF translate_fetch
  <2>2. CASE UNCHANGED itlb
    BY <1>1, <2>1, <2>2 DEF memory
  <2>3. CASE \E t \in tlb_fill(itlb[c], ITLB_SETS, v, page_walk(active, v)) :
               itlb' = [itlb EXCEPT ![c] = t]
    <3>1. itlb' \in TLBs
      <4>1. PICK t \in tlb_fill(itlb[c], ITLB_SETS, v, page_walk(active, v)) : itlb' = [itlb EXCEPT ![c] = t]
        BY <2>3
      <4>2. t \in [Pages -> Entries]
        BY <1>1, <1>5, <2>1
      <4>3. QED
        BY <1>1, <4>1, <4>2 DEF TLBs
    <3>2. QED
      BY <1>1, <2>1, <3>1 DEF memory
  <2>4. QED
    BY <1>7, <2>2, <2>3 DEF translate_fetch
<1>8. ASSUME NEW p \in Procs, NEW v \in Pages, NEW e \in Stored, write_back(p, v, e)
      PROVE  <1>2!1
  <2>1. e \in Entries
    BY GeometryAssumption DEF Entries
  <2>2. cells' \in [0 .. size -> [0 .. FRAME_ENTRIES - 1 -> Entries]]
    <3> DEFINE g == page_walk(p, v)
    <3>1. cells' = [cells EXCEPT ![g] = [i \in DOMAIN cells[g] |-> e]]
      BY <1>8 DEF write_back
    <3>2. g \in 0 .. size
      BY WalkTyped, Geometry DEF Entries
    <3>3. [i \in DOMAIN cells[g] |-> e] \in [0 .. FRAME_ENTRIES - 1 -> Entries]
      BY <1>1, <2>1, <3>2
    <3> HIDE DEF g
    <3>4. QED
      BY <1>1, <3>1, <3>3
  <2>3. QED
    BY <1>1, <1>8, <2>2 DEF write_back, tlbs
<1>9. ASSUME UNCHANGED vars
      PROVE  <1>2!1
  BY <1>1, <1>9 DEF vars, memory, tlbs
<1>10. QED
  BY <1>3, <1>4, <1>6, <1>7, <1>8, <1>9 DEF Next

\* Type correctness for every geometry: the watermark stays below the limit,
\* and no entry of a table, a TLB or the free list ever names a frame outside
\* the memory, also where tables overlap the frames behind them.
THEOREM TypeCorrect == Spec => []TypeOK
PROOF
<1>1. Init => TypeOK
  BY Geometry, EmptySeq DEF Init, TypeOK, EmptyFrame, NoTLB
<1>2. QED
  BY <1>1, NextTyped, PTL DEF Spec

(***************************************************************************)
(* Page tables as forests.  While no page has an index in the upper half   *)
(* of a table, a table is the frame it starts in and nothing else.  at is  *)
(* the frame an entry of the table names, by level: table or page.         *)
(***************************************************************************)

below(m, t, v, level) == IF t = NoFrame THEN NoFrame ELSE m.cells[t][index[v][level]]

at3(m, p, v) == m.pml4[p][index[v][3]]
at2(m, p, v) == below(m, at3(m, p, v), v, 2)
at1(m, p, v) == below(m, at2(m, p, v), v, 1)
at0(m, p, v) == below(m, at1(m, p, v), v, 0)
at(m, p, v, level) ==
  IF level = 3 THEN at3(m, p, v) ELSE IF level = 2 THEN at2(m, p, v)
  ELSE IF level = 1 THEN at1(m, p, v) ELSE at0(m, p, v)

\* Pages u and v share their tables down to the entry of this level.
Same(u, v, level) == \A up \in level .. 3 : index[u][up] = index[v][up]

Listed(m, f) == \E n \in DOMAIN m.free_list : m.free_list[n] = f
InUse(m, f) == f \in 1 .. m.watermark - 1 /\ ~Listed(m, f)
Linked(m, f) == \E p \in Procs, v \in Pages, level \in 0 .. 3 : at(m, p, v, level) = f
Blank(m, f) == \A i \in 0 .. FRAME_ENTRIES - 1 : m.cells[f][i] = NoFrame

\* No frame is named twice, every named frame is in use, the free list holds
\* distinct frames that were handed out.
NamedOnce(m) ==
  \A p, q \in Procs, u, v \in Pages, k, level \in 0 .. 3 :
    at(m, p, u, k) = at(m, q, v, level) /\ at(m, p, u, k) # NoFrame
    => p = q /\ k = level /\ Same(u, v, k)
NamedInUse(m) ==
  \A p \in Procs, v \in Pages, level \in 0 .. 3 :
    at(m, p, v, level) # NoFrame => InUse(m, at(m, p, v, level))
FreeListOK(m) ==
  \A n \in DOMAIN m.free_list :
    /\ m.free_list[n] \in 1 .. m.watermark - 1
    /\ \A k \in DOMAIN m.free_list : k # n => m.free_list[k] # m.free_list[n]
Forest(m) == NamedOnce(m) /\ NamedInUse(m) /\ FreeListOK(m)

LEMMA AtTop ==
  ASSUME NEW m, NEW p, NEW v
  PROVE  at(m, p, v, 3) = m.pml4[p][index[v][3]]
BY DEF at, at3

LEMMA AtBelow ==
  ASSUME NEW m, NEW p, NEW v, NEW k \in 0 .. 2
  PROVE  at(m, p, v, k) = below(m, at(m, p, v, k + 1), v, k)
PROOF
<1>1. CASE k = 0
  <2>1. at(m, p, v, 0) = at0(m, p, v) /\ at(m, p, v, 1) = at1(m, p, v)
    BY DEF at
  <2>2. QED
    BY <1>1, <2>1 DEF at0
<1>2. CASE k = 1
  <2>1. at(m, p, v, 1) = at1(m, p, v) /\ at(m, p, v, 2) = at2(m, p, v)
    BY DEF at
  <2>2. QED
    BY <1>2, <2>1 DEF at1
<1>3. CASE k = 2
  <2>1. at(m, p, v, 2) = at2(m, p, v) /\ at(m, p, v, 3) = at3(m, p, v)
    BY DEF at
  <2>2. QED
    BY <1>3, <2>1 DEF at2
<1>4. QED
  BY <1>1, <1>2, <1>3

LEMMA LowerIndex ==
  ASSUME LowerHalf, NEW v \in Pages, NEW level \in 0 .. 3
  PROVE  /\ index[v][level] \in Index /\ index[v][level] \in 0 .. FRAME_ENTRIES - 1
         /\ index[v][level] \div FRAME_ENTRIES = 0
         /\ index[v][level] % FRAME_ENTRIES = index[v][level]
PROOF
<1>1. index[v][level] \in Index /\ index[v][level] < FRAME_ENTRIES
  BY IndexInTable DEF LowerHalf
<1>2. index[v][level] \in 0 .. FRAME_ENTRIES - 1
  BY <1>1, Geometry DEF Index
<1>3. QED
  BY <1>1, <1>2, CellOfIndex

\* What is shown for level 3, and for a level below it from the one above,
\* holds at every level.
LEMMA AtTyped ==
  ASSUME LowerHalf, NEW m \in Memories, NEW p \in Procs, NEW v \in Pages, NEW level \in 0 .. 3
  PROVE  at(m, p, v, level) \in Entries
PROOF
<1>1. /\ m.pml4 \in [Procs -> [Index -> Entries]]
      /\ m.cells \in [0 .. size -> [0 .. FRAME_ENTRIES - 1 -> Entries]]
  BY DEF Memories
<1>2. at(m, p, v, 3) \in Entries
  BY <1>1, LowerIndex, AtTop
<1>3. ASSUME NEW k \in 0 .. 2, at(m, p, v, k + 1) \in Entries PROVE at(m, p, v, k) \in Entries
  <2>1. at(m, p, v, k + 1) \in 0 .. size
    BY <1>3, Geometry DEF Entries
  <2>2. index[v][k] \in 0 .. FRAME_ENTRIES - 1
    BY LowerIndex
  <2>3. m.cells[at(m, p, v, k + 1)][index[v][k]] \in Entries
    BY <1>1, <2>1, <2>2
  <2>4. QED
    BY <2>3, AtBelow, Geometry DEF below
<1>4. at(m, p, v, 2) \in Entries
  BY <1>2, <1>3
<1>5. at(m, p, v, 1) \in Entries
  BY <1>3, <1>4
<1>6. at(m, p, v, 0) \in Entries
  BY <1>3, <1>5
<1>7. QED
  BY <1>2, <1>4, <1>5, <1>6

LEMMA AtSame ==
  ASSUME NEW m, NEW p, NEW u, NEW v, NEW level \in 0 .. 3, Same(u, v, level)
  PROVE  at(m, p, u, level) = at(m, p, v, level)
PROOF
<1>1. ASSUME Same(u, v, 3) PROVE at(m, p, u, 3) = at(m, p, v, 3)
  BY <1>1, AtTop DEF Same
<1>2. ASSUME NEW k \in 0 .. 2, Same(u, v, k)
      PROVE  Same(u, v, k + 1) /\ index[u][k] = index[v][k]
  BY <1>2 DEF Same
<1>3. ASSUME NEW k \in 0 .. 2, Same(u, v, k), at(m, p, u, k + 1) = at(m, p, v, k + 1)
      PROVE  at(m, p, u, k) = at(m, p, v, k)
  BY <1>2, <1>3, AtBelow DEF below
<1>4. CASE level = 3
  BY <1>1, <1>4
<1>5. CASE level = 2
  BY <1>1, <1>2, <1>3, <1>5
<1>6. CASE level = 1
  <2>1. Same(u, v, 2) /\ Same(u, v, 3)
    BY <1>2, <1>6
  <2>2. QED
    BY <1>1, <1>3, <1>6, <2>1
<1>7. CASE level = 0
  <2>1. Same(u, v, 1) /\ Same(u, v, 2) /\ Same(u, v, 3)
    BY <1>2, <1>7
  <2>2. at(m, p, u, 2) = at(m, p, v, 2)
    BY <1>1, <1>3, <2>1
  <2>3. at(m, p, u, 1) = at(m, p, v, 1)
    BY <1>3, <2>1, <2>2
  <2>4. QED
    BY <1>3, <1>7, <2>3
<1>8. QED
  BY <1>4, <1>5, <1>6, <1>7

\* A memory with the same root tables and the same cells in every table gives
\* the same walks.
SameTables(m, t) ==
  /\ t.pml4 = m.pml4
  /\ \A p \in Procs, v \in Pages, k \in 1 .. 3 :
       at(m, p, v, k) # NoFrame => t.cells[at(m, p, v, k)] = m.cells[at(m, p, v, k)]

LEMMA AtFrame ==
  ASSUME NEW m, NEW t, SameTables(m, t),
         NEW p \in Procs, NEW v \in Pages, NEW level \in 0 .. 3
  PROVE  at(t, p, v, level) = at(m, p, v, level)
PROOF
<1>1. at(t, p, v, 3) = at(m, p, v, 3)
  BY AtTop DEF SameTables
<1>2. ASSUME NEW k \in 0 .. 2, at(t, p, v, k + 1) = at(m, p, v, k + 1)
      PROVE  at(t, p, v, k) = at(m, p, v, k)
  <2>1. k + 1 \in 1 .. 3
    OBVIOUS
  <2>2. QED
    BY <1>2, <2>1, AtBelow DEF below, SameTables
<1>3. at(t, p, v, 2) = at(m, p, v, 2)
  BY <1>1, <1>2
<1>4. at(t, p, v, 1) = at(m, p, v, 1)
  BY <1>2, <1>3
<1>5. at(t, p, v, 0) = at(m, p, v, 0)
  BY <1>2, <1>4
<1>6. QED
  BY <1>1, <1>3, <1>4, <1>5

(***************************************************************************)
(* Taking a frame, and linking it into a table.                            *)
(***************************************************************************)
LEMMA NotLinked ==
  ASSUME NEW m, NamedInUse(m), NEW f, f # NoFrame, ~InUse(m, f)
  PROVE  ~Linked(m, f)
BY DEF NamedInUse, Linked

\* alloc_frame hands out a frame nobody has and clears it.
LEMMA TakeFrame ==
  ASSUME NEW m \in Memories, Forest(m), next_frame(m) # NoFrame
  PROVE  LET f == next_frame(m)
             t == take_frame(m)
         IN  /\ t \in Memories /\ Forest(t) /\ f \in Frames
             /\ InUse(t, f) /\ ~InUse(m, f) /\ ~Linked(t, f) /\ Blank(t, f)
             /\ \A g : InUse(m, g) => InUse(t, g)
             /\ \A p \in Procs, v \in Pages, level \in 0 .. 3 :
                  at(t, p, v, level) = at(m, p, v, level)
PROOF
<1> DEFINE f == next_frame(m)
           t == take_frame(m)
           last == Len(m.free_list)
<1>1. /\ m.free_list \in Seq(Frames) /\ m.watermark \in 1 .. limit /\ m.watermark \in Nat
      /\ m.cells \in [0 .. size -> [0 .. FRAME_ENTRIES - 1 -> Entries]]
      /\ last \in Nat /\ DOMAIN m.free_list = 1 .. last
      /\ m.free_list = <<>> <=> last = 0
  BY Geometry, LenProperties, EmptySeq DEF Memories
<1>2. t \in Memories /\ f \in Frames /\ f \in Nat /\ f # NoFrame
  BY TakeTyped, NextFrameTyped DEF Frames
<1>3. t.pml4 = m.pml4 /\ t.cells = [m.cells EXCEPT ![f] = EmptyFrame]
  <2>1. CASE m.free_list # <<>>
    <3>1. t = [m EXCEPT !.free_list = SubSeq(@, 1, Len(@) - 1), !.cells[f] = EmptyFrame]
      BY <2>1 DEF take_frame
    <3>2. QED
      BY <3>1 DEF Memories
  <2>2. CASE m.free_list = <<>>
    <3>1. t = [m EXCEPT !.watermark = f + 1, !.cells[f] = EmptyFrame]
      BY <2>2 DEF take_frame
    <3>2. QED
      BY <3>1 DEF Memories
  <2>3. QED
    BY <2>1, <2>2
\* A recycled frame leaves the list, a new one was beyond the watermark.
<1>4. /\ ~InUse(m, f) /\ InUse(t, f) /\ FreeListOK(t)
      /\ \A g : InUse(m, g) => InUse(t, g)
  <2>1. CASE m.free_list # <<>>
    <3> DEFINE rest == SubSeq(m.free_list, 1, last - 1)
    <3>1. last \in 1 .. last /\ last - 1 \in Nat
      BY <1>1, <2>1
    <3>2. f = m.free_list[last]
      BY <2>1 DEF next_frame
    <3>3. t.free_list = rest /\ t.watermark = m.watermark
      <4>1. t = [m EXCEPT !.free_list = SubSeq(@, 1, Len(@) - 1), !.cells[f] = EmptyFrame]
        BY <2>1 DEF take_frame
      <4>2. QED
        BY <4>1 DEF Memories
    <3>4. rest \in Seq(Frames) /\ Len(rest) = last - 1 /\ \A n \in 1 .. last - 1 : rest[n] = m.free_list[n]
      <4>1. \A n \in 1 .. last - 1 : m.free_list[n] \in Frames
        BY <1>1, ElementOfSeq
      <4>2. /\ rest \in Seq(Frames) /\ Len(rest) = IF 1 <= last - 1 THEN (last - 1) - 1 + 1 ELSE 0
            /\ \A n \in 1 .. (last - 1) - 1 + 1 : rest[n] = m.free_list[1 + n - 1]
        BY <3>1, <4>1, SubSeqProperties
      <4>3. QED
        BY <3>1, <4>2
    <3>5. DOMAIN rest = 1 .. last - 1
      BY <3>4, LenProperties
    <3> HIDE DEF rest, last, f, t
    <3>6. Listed(m, f) /\ f \in 1 .. m.watermark - 1
      BY <1>1, <3>1, <3>2 DEF Listed, Forest, FreeListOK
    <3>7. ~Listed(t, f)
      <4>1. ASSUME NEW n \in 1 .. last - 1 PROVE rest[n] # f
        <5>1. n \in 1 .. last /\ n # last
          BY <3>1
        <5>2. m.free_list[n] # m.free_list[last]
          BY <1>1, <3>1, <5>1 DEF Forest, FreeListOK
        <5>3. QED
          BY <3>2, <3>4, <5>2
      <4>2. QED
        BY <3>3, <3>5, <4>1 DEF Listed
    <3>8. ASSUME NEW g, InUse(m, g) PROVE InUse(t, g)
      <4>1. ~Listed(t, g)
        BY <1>1, <3>1, <3>3, <3>4, <3>5, <3>8 DEF Listed, InUse
      <4>2. QED
        BY <3>3, <3>8, <4>1 DEF InUse
    <3>9. FreeListOK(t)
      <4>1. \A n \in 1 .. last - 1 : n \in 1 .. last
        BY <3>1
      <4>2. QED
        BY <1>1, <3>3, <3>4, <3>5, <4>1 DEF Forest, FreeListOK
    <3>10. QED
      BY <3>3, <3>6, <3>7, <3>8, <3>9 DEF InUse
  <2>2. CASE m.free_list = <<>>
    <3>1. f = m.watermark
      BY <2>2 DEF next_frame
    <3>2. t.free_list = m.free_list /\ t.watermark = m.watermark + 1
      <4>1. t = [m EXCEPT !.watermark = f + 1, !.cells[f] = EmptyFrame]
        BY <2>2 DEF take_frame
      <4>2. QED
        BY <3>1, <4>1 DEF Memories
    <3> HIDE DEF f, t
    <3>3. \A g : ~Listed(t, g) /\ ~Listed(m, g)
      BY <1>1, <2>2, <3>2 DEF Listed
    <3>4. 1 .. m.watermark - 1 \subseteq 1 .. t.watermark - 1 /\ f \in 1 .. t.watermark - 1
      BY <1>1, <3>1, <3>2
    <3>5. FreeListOK(t)
      BY <1>1, <2>2, <3>2 DEF FreeListOK
    <3>6. f \notin 1 .. m.watermark - 1
      BY <1>1, <3>1
    <3>7. QED
      BY <3>3, <3>4, <3>5, <3>6 DEF InUse
  <2>3. QED
    BY <2>1, <2>2
<1>5. ~Linked(m, f)
  BY <1>2, <1>4, NotLinked DEF Forest
<1> HIDE DEF f, t, last
<1>6. \A p \in Procs, v \in Pages, level \in 0 .. 3 : at(t, p, v, level) = at(m, p, v, level)
  <2>1. ASSUME NEW p \in Procs, NEW v \in Pages, NEW k \in 1 .. 3
        PROVE  t.cells[at(m, p, v, k)] = m.cells[at(m, p, v, k)]
    <3>1. at(m, p, v, k) # f
      BY <1>5 DEF Linked
    <3>2. QED
      BY <1>1, <1>3, <3>1
  <2>2. SameTables(m, t)
    BY <1>3, <2>1 DEF SameTables
  <2>3. QED
    BY <2>2, AtFrame
<1>7. ~Linked(t, f)
  BY <1>5, <1>6 DEF Linked
<1>8. Blank(t, f)
  <2>1. f \in 0 .. size
    BY <1>2, Geometry DEF Frames
  <2>2. t.cells[f] = EmptyFrame
    BY <1>1, <1>3, <2>1
  <2>3. QED
    BY <2>2 DEF Blank, EmptyFrame
<1>9. NamedOnce(t)
  BY <1>6 DEF Forest, NamedOnce
<1>10. NamedInUse(t)
  BY <1>4, <1>6 DEF Forest, NamedInUse
<1>11. QED
  BY <1>2, <1>4, <1>6, <1>7, <1>8, <1>9, <1>10 DEF Forest, f, t

\* The table at which map_page stands before it looks at the given level: the
\* root for level 3, else the one the entry above names.
Reached(m, p, v, level, t) ==
  IF level = 3 THEN t = NoFrame ELSE t # NoFrame /\ t = at(m, p, v, level + 1)

LEMMA EntryReached ==
  ASSUME LowerHalf, NEW m, NEW p \in Procs, NEW v \in Pages,
         NEW level \in 0 .. 3, NEW t \in Entries, Reached(m, p, v, level, t)
  PROVE  entry(m, p, t, index[v][level]) = at(m, p, v, level)
PROOF
<1>1. /\ index[v][level] \div FRAME_ENTRIES = 0
      /\ index[v][level] % FRAME_ENTRIES = index[v][level]
      /\ t \in Nat
  BY LowerIndex, Geometry DEF Entries
<1>2. t + index[v][level] \div FRAME_ENTRIES = t
  BY <1>1
<1>3. CASE level = 3
  BY <1>3, AtTop DEF Reached, entry
<1>4. CASE level # 3
  <2>1. level \in 0 .. 2
    BY <1>4
  <2>2. entry(m, p, t, index[v][level]) = m.cells[t][index[v][level]]
    BY <1>1, <1>2, <1>4 DEF Reached, entry
  <2>3. QED
    BY <1>4, <2>1, <2>2, AtBelow DEF Reached, below
<1>5. QED
  BY <1>3, <1>4

Written(rows, x, i, g) == [rows EXCEPT ![x][i] = g]

LEMMA SetReached ==
  ASSUME LowerHalf, NEW m \in Memories, NEW p \in Procs, NEW v \in Pages,
         NEW level \in 0 .. 3, NEW t \in Entries, Reached(m, p, v, level, t), NEW g \in Entries
  PROVE  LET n == set_entry(m, p, t, index[v][level], g)
         IN  /\ n \in Memories /\ n.watermark = m.watermark /\ n.free_list = m.free_list
             /\ n.pml4 = IF level = 3 THEN Written(m.pml4, p, index[v][3], g) ELSE m.pml4
             /\ n.cells = IF level = 3 THEN m.cells
                                       ELSE Written(m.cells, t, index[v][level], g)
PROOF
<1> DEFINE i == index[v][level]
           n == set_entry(m, p, t, i, g)
<1>1. i \in Index /\ i \div FRAME_ENTRIES = 0 /\ i % FRAME_ENTRIES = i /\ t \in Nat
  BY LowerIndex, Geometry DEF Entries
<1>2. t + i \div FRAME_ENTRIES = t
  BY <1>1
<1>3. n \in Memories
  BY <1>1, SetEntryTyped
<1>4. n = IF t = NoFrame THEN [m EXCEPT !.pml4 = [m.pml4 EXCEPT ![p][i] = g]]
                         ELSE [m EXCEPT !.cells = [m.cells EXCEPT ![t][i] = g]]
  BY <1>1, <1>2 DEF set_entry
<1>5. t = NoFrame <=> level = 3
  BY DEF Reached
<1> HIDE DEF n, i
<1>6. n.watermark = m.watermark /\ n.free_list = m.free_list
  BY <1>4 DEF Memories
<1>7. /\ level = 3 => n.pml4 = [m.pml4 EXCEPT ![p][i] = g] /\ n.cells = m.cells
      /\ level # 3 => n.cells = [m.cells EXCEPT ![t][i] = g] /\ n.pml4 = m.pml4
  BY <1>4, <1>5 DEF Memories
<1>8. QED
  BY <1>3, <1>6, <1>7 DEF n, i, Written

\* The walks after entry v of the given level has been pointed to frame g.
LinkedAt(m, n, p, v, level, g, q, u, k) ==
  at(n, q, u, k) = IF q = p /\ k = level /\ Same(u, v, level) THEN g
                   ELSE IF q = p /\ k < level /\ Same(u, v, level) THEN NoFrame
                   ELSE at(m, q, u, k)

\* A level above 0 is linked only where nothing was named, and to a blank frame.
Linkable(m, p, v, level, g) ==
  /\ g \in Frames /\ InUse(m, g) /\ ~Linked(m, g)
  /\ level > 0 => at(m, p, v, level) = NoFrame /\ Blank(m, g)

LEMMA Link ==
  ASSUME LowerHalf, NEW m \in Memories, Forest(m), NEW p \in Procs, NEW v \in Pages,
         NEW level \in 0 .. 3, NEW t \in Entries, Reached(m, p, v, level, t),
         NEW g, Linkable(m, p, v, level, g)
  PROVE  LET n == set_entry(m, p, t, index[v][level], g)
         IN  \A q \in Procs, u \in Pages, k \in 0 .. 3 :
               LinkedAt(m, n, p, v, level, g, q, u, k)
PROOF
<1> DEFINE n == set_entry(m, p, t, index[v][level], g)
<1>1. /\ g \in Frames /\ g \in Entries /\ g # NoFrame /\ ~Linked(m, g)
      /\ level > 0 => at(m, p, v, level) = NoFrame /\ Blank(m, g)
  BY Geometry DEF Linkable, Frames, NoFrame
<1>2. /\ n.pml4 = IF level = 3 THEN Written(m.pml4, p, index[v][3], g) ELSE m.pml4
      /\ n.cells = IF level = 3 THEN m.cells
                                ELSE Written(m.cells, t, index[v][level], g)
  BY <1>1, SetReached
<1>3. /\ m.pml4 \in [Procs -> [Index -> Entries]]
      /\ m.cells \in [0 .. size -> [0 .. FRAME_ENTRIES - 1 -> Entries]]
      /\ t \in 0 .. size /\ g \in 0 .. size
  <2>1. t \in 0 .. size /\ g \in 0 .. size
    BY <1>1, Geometry DEF Entries
  <2>2. QED
    BY <2>1 DEF Memories
<1> HIDE DEF n
<1>4. ASSUME NEW q \in Procs, NEW u \in Pages
      PROVE  LinkedAt(m, n, p, v, level, g, q, u, 3)
  <2>1. index[u][3] \in Index /\ index[v][3] \in Index
    BY LowerIndex
  <2>2. Same(u, v, 3) <=> index[u][3] = index[v][3]
    BY DEF Same
  <2>3. at(n, q, u, 3) = n.pml4[q][index[u][3]] /\ at(m, q, u, 3) = m.pml4[q][index[u][3]]
    BY AtTop
  <2>4. CASE level = 3
    <3>1. n.pml4 = [m.pml4 EXCEPT ![p][index[v][3]] = g]
      BY <1>2, <2>4 DEF Written
    <3>2. n.pml4[q][index[u][3]] = IF q = p /\ index[u][3] = index[v][3] THEN g
                                   ELSE m.pml4[q][index[u][3]]
      BY <1>3, <2>1, <3>1
    <3>3. QED
      BY <2>2, <2>3, <2>4, <3>2 DEF LinkedAt
  <2>5. CASE level # 3
    BY <1>2, <2>3, <2>5 DEF LinkedAt
  <2>6. QED
    BY <2>4, <2>5
<1>5. ASSUME NEW q \in Procs, NEW u \in Pages, NEW k \in 0 .. 2,
             LinkedAt(m, n, p, v, level, g, q, u, k + 1)
      PROVE  LinkedAt(m, n, p, v, level, g, q, u, k)
  <2> DEFINE x == at(m, q, u, k + 1)
             y == at(n, q, u, k + 1)
             i == index[u][k]
             here_too == q = p /\ Same(u, v, level)
  <2>1. /\ at(m, q, u, k) = below(m, x, u, k) /\ at(n, q, u, k) = below(n, y, u, k)
        /\ i \in 0 .. FRAME_ENTRIES - 1 /\ index[v][level] \in 0 .. FRAME_ENTRIES - 1
        /\ x \in Entries /\ k + 1 \in 0 .. 3
    BY AtBelow, LowerIndex, AtTyped
  <2>2. x \in 0 .. size
    BY <2>1, Geometry DEF Entries
  \* Below the new frame there is nothing yet.
  <2>3. CASE here_too /\ k + 1 = level
    <3>1. y = g /\ level > 0
      BY <1>5, <2>3 DEF LinkedAt
    <3>2. g # t
      <4>1. t = NoFrame \/ Linked(m, t)
        BY <2>1 DEF Reached, Linked
      <4>2. QED
        BY <1>1, <4>1
    <3>3. n.cells[g] = m.cells[g]
      BY <1>2, <1>3, <3>2 DEF Written
    <3>4. m.cells[g][i] = NoFrame
      BY <1>1, <2>1, <3>1 DEF Blank
    <3>5. at(n, q, u, k) = NoFrame
      BY <2>1, <3>1, <3>3, <3>4 DEF below
    <3>6. k < level /\ k # level
      BY <2>3
    <3>7. QED
      BY <2>3, <3>5, <3>6 DEF LinkedAt
  <2>4. CASE here_too /\ k + 1 < level
    <3>1. y = NoFrame
      BY <1>5, <2>4 DEF LinkedAt
    <3>2. at(n, q, u, k) = NoFrame /\ k < level /\ k # level
      BY <2>1, <2>4, <3>1 DEF below
    <3>3. QED
      BY <2>4, <3>2 DEF LinkedAt
  <2>5. CASE here_too /\ k = level
    <3>1. Same(u, v, k + 1) /\ i = index[v][level]
      BY <2>5 DEF Same
    <3>2. x = at(m, p, v, k + 1)
      BY <2>1, <2>5, <3>1, AtSame
    <3>3. x = t /\ t # NoFrame
      BY <2>5, <3>2 DEF Reached
    <3>4. y = x
      BY <1>5, <2>5 DEF LinkedAt
    <3>5. n.cells[t][i] = g
      <4>1. n.cells = [m.cells EXCEPT ![t][index[v][level]] = g]
        BY <1>2, <2>5 DEF Written
      <4> DEFINE j == index[v][level]
      <4>2. j \in 0 .. FRAME_ENTRIES - 1 /\ n.cells = [m.cells EXCEPT ![t][j] = g]
        BY <2>1, <4>1
      <4> HIDE DEF j
      <4>3. n.cells[t][j] = g
        BY <1>3, <4>2
      <4>4. QED
        BY <3>1, <4>3 DEF j
    <3>6. at(n, q, u, k) = g
      BY <2>1, <3>3, <3>4, <3>5 DEF below
    <3>7. QED
      BY <2>5, <3>6 DEF LinkedAt
  <2>6. CASE ~(here_too /\ k <= level)
    <3>1. ~(here_too /\ k + 1 <= level)
      BY <2>6
    <3>2. y = x
      BY <1>5, <3>1 DEF LinkedAt
    <3>3. at(n, q, u, k) = at(m, q, u, k)
      <4>1. CASE x = NoFrame
        BY <2>1, <3>2, <4>1 DEF below
      <4>2. CASE x # NoFrame /\ (x # t \/ level = 3)
        <5>1. n.cells[x] = m.cells[x]
          BY <1>2, <1>3, <2>2, <4>2 DEF Written
        <5>2. QED
          BY <2>1, <3>2, <5>1 DEF below
      <4>3. CASE x # NoFrame /\ x = t /\ level # 3
        <5>1. t = at(m, p, v, level + 1) /\ level + 1 \in 0 .. 3
          BY <4>3 DEF Reached
        <5>2. q = p /\ k + 1 = level + 1 /\ Same(u, v, k + 1)
          BY <2>1, <4>3, <5>1 DEF Forest, NamedOnce
        <5>3. k = level
          BY <5>2
        <5>4. i # index[v][level]
          <6>1. SUFFICES ASSUME i = index[v][level] PROVE FALSE
            OBVIOUS
          <6>2. Same(u, v, level)
            BY <5>2, <5>3, <6>1 DEF Same
          <6>3. QED
            BY <2>6, <5>2, <5>3, <6>2
        <5>5. n.cells[x][i] = m.cells[x][i]
          BY <1>2, <1>3, <2>1, <2>2, <4>3, <5>4 DEF Written
        <5>6. QED
          BY <2>1, <3>2, <5>5 DEF below
      <4>4. QED
        BY <4>1, <4>2, <4>3
    <3>4. QED
      BY <2>6, <3>3 DEF LinkedAt
  <2>7. QED
    BY <2>3, <2>4, <2>5, <2>6
<1>6. ASSUME NEW q \in Procs, NEW u \in Pages
      PROVE  \A k \in 0 .. 3 : LinkedAt(m, n, p, v, level, g, q, u, k)
  <2>1. LinkedAt(m, n, p, v, level, g, q, u, 3)
    BY <1>4
  <2>2. LinkedAt(m, n, p, v, level, g, q, u, 2)
    BY <1>5, <2>1
  <2>3. LinkedAt(m, n, p, v, level, g, q, u, 1)
    BY <1>5, <2>2
  <2>4. LinkedAt(m, n, p, v, level, g, q, u, 0)
    BY <1>5, <2>3
  <2>5. QED
    BY <2>1, <2>2, <2>3, <2>4
<1>7. QED
  BY <1>6 DEF n

LEMMA LinkForest ==
  ASSUME LowerHalf, NEW m \in Memories, Forest(m), NEW p \in Procs, NEW v \in Pages,
         NEW level \in 0 .. 3, NEW t \in Entries, Reached(m, p, v, level, t),
         NEW g, Linkable(m, p, v, level, g)
  PROVE  LET n == set_entry(m, p, t, index[v][level], g)
         IN  /\ n \in Memories /\ Forest(n)
             /\ \A h : InUse(n, h) <=> InUse(m, h)
             /\ \A q \in Procs, u \in Pages, k \in 0 .. 3 :
                  at(n, q, u, k) \notin {NoFrame, g} => at(m, q, u, k) = at(n, q, u, k)
PROOF
<1> DEFINE n == set_entry(m, p, t, index[v][level], g)
<1>1. g \in Frames /\ g \in Entries /\ g # NoFrame /\ InUse(m, g) /\ ~Linked(m, g)
  BY Geometry DEF Linkable, Frames, NoFrame
<1>2. n \in Memories /\ n.watermark = m.watermark /\ n.free_list = m.free_list
  BY <1>1, SetReached
<1>3. \A q \in Procs, u \in Pages, k \in 0 .. 3 : LinkedAt(m, n, p, v, level, g, q, u, k)
  BY Link
<1> HIDE DEF n
<1>4. (\A h : InUse(n, h) <=> InUse(m, h)) /\ FreeListOK(n)
  BY <1>2 DEF InUse, Listed, Forest, FreeListOK
<1>5. ASSUME NEW q \in Procs, NEW u \in Pages, NEW k \in 0 .. 3, at(n, q, u, k) # NoFrame
      PROVE  \/ at(n, q, u, k) = g /\ q = p /\ k = level /\ Same(u, v, level)
             \/ at(n, q, u, k) = at(m, q, u, k) /\ at(m, q, u, k) # g
  <2>1. at(m, q, u, k) # g
    BY <1>1 DEF Linked
  <2>2. LinkedAt(m, n, p, v, level, g, q, u, k)
    BY <1>3
  <2>3. QED
    BY <1>5, <2>1, <2>2 DEF LinkedAt
<1>6. NamedOnce(n)
  <2>1. SUFFICES ASSUME NEW q \in Procs, NEW r \in Procs, NEW u \in Pages, NEW w \in Pages,
                        NEW k \in 0 .. 3, NEW l \in 0 .. 3,
                        at(n, q, u, k) = at(n, r, w, l), at(n, q, u, k) # NoFrame
                 PROVE  q = r /\ k = l /\ Same(u, w, k)
    BY DEF NamedOnce
  <2>2. CASE at(n, q, u, k) = g
    <3>1. q = p /\ k = level /\ Same(u, v, level)
      BY <1>5, <2>1, <2>2
    <3>2. r = p /\ l = level /\ Same(w, v, level)
      <4>1. at(n, r, w, l) = g /\ at(n, r, w, l) # NoFrame
        BY <2>1, <2>2
      <4>2. \/ r = p /\ l = level /\ Same(w, v, level)
            \/ at(n, r, w, l) = at(m, r, w, l) /\ at(m, r, w, l) # g
        BY <1>5, <4>1
      <4>3. QED
        BY <4>1, <4>2
    <3>3. Same(u, w, level)
      BY <3>1, <3>2 DEF Same
    <3>4. QED
      BY <3>1, <3>2, <3>3
  <2>3. CASE at(n, q, u, k) # g
    <3>1. at(n, q, u, k) = at(m, q, u, k)
      BY <1>5, <2>1, <2>3
    <3>2. at(n, r, w, l) = at(m, r, w, l)
      BY <1>5, <2>1, <2>3
    <3>3. at(m, q, u, k) = at(m, r, w, l) /\ at(m, q, u, k) # NoFrame
      BY <2>1, <3>1, <3>2
    <3>4. QED
      BY <3>3 DEF Forest, NamedOnce
  <2>4. QED
    BY <2>2, <2>3
<1>7. NamedInUse(n)
  <2>1. ASSUME NEW q \in Procs, NEW u \in Pages, NEW k \in 0 .. 3, at(n, q, u, k) # NoFrame
        PROVE  InUse(n, at(n, q, u, k))
    <3>1. at(n, q, u, k) = g \/ at(n, q, u, k) = at(m, q, u, k)
      BY <1>5, <2>1
    <3>2. InUse(m, at(n, q, u, k))
      BY <1>1, <2>1, <3>1 DEF Forest, NamedInUse
    <3>3. QED
      BY <1>4, <3>2
  <2>2. QED
    BY <2>1 DEF NamedInUse
<1>8. QED
  BY <1>2, <1>4, <1>5, <1>6, <1>7 DEF Forest, n

LEMMA NothingBelow ==
  ASSUME NEW m, NEW p, NEW v, NEW level \in 0 .. 3, at(m, p, v, level) = NoFrame,
         NEW k \in 0 .. level
  PROVE  at(m, p, v, k) = NoFrame
PROOF
<1>1. ASSUME NEW j \in 0 .. 2, at(m, p, v, j + 1) = NoFrame PROVE at(m, p, v, j) = NoFrame
  BY <1>1, AtBelow DEF below
<1>2. at(m, p, v, 3) = NoFrame => at(m, p, v, 2) = NoFrame
  BY <1>1
<1>3. at(m, p, v, 2) = NoFrame => at(m, p, v, 1) = NoFrame
  BY <1>1
<1>4. at(m, p, v, 1) = NoFrame => at(m, p, v, 0) = NoFrame
  BY <1>1
<1>5. /\ k \in 0 .. 3 /\ k <= level
      /\ level = 3 \/ level = 2 \/ level = 1 \/ level = 0
      /\ k = 3 \/ k = 2 \/ k = 1 \/ k = 0
  OBVIOUS
<1>6. QED
  BY <1>2, <1>3, <1>4, <1>5

\* free_frame gives back a frame that is nowhere named.
LEMMA FreeFrame ==
  ASSUME NEW m \in Memories, Forest(m), NEW f \in Frames, InUse(m, f), ~Linked(m, f)
  PROVE  LET e == free_frame(m, f)
         IN  /\ Forest(e) /\ \A h : InUse(m, h) /\ h # f => InUse(e, h)
             /\ \A p \in Procs, v \in Pages, level \in 0 .. 3 :
                  at(e, p, v, level) = at(m, p, v, level)
PROOF
<1> DEFINE e == free_frame(m, f)
           len == Len(m.free_list)
<1>1. /\ m.free_list \in Seq(Frames) /\ m.watermark \in Nat /\ len \in Nat
      /\ DOMAIN m.free_list = 1 .. len
  BY Geometry, LenProperties DEF Memories
<1>2. /\ e.free_list = Append(m.free_list, f) /\ e.watermark = m.watermark
      /\ e.pml4 = m.pml4 /\ e.cells = m.cells
  BY DEF free_frame, Memories
<1>3. /\ DOMAIN e.free_list = 1 .. len + 1
      /\ \A n \in 1 .. len + 1 : e.free_list[n] = IF n = len + 1 THEN f ELSE m.free_list[n]
  <2>1. Append(m.free_list, f) \in Seq(Frames) /\ Len(Append(m.free_list, f)) = len + 1
    BY <1>1, AppendProperties
  <2>2. \A n \in 1 .. len + 1 : Append(m.free_list, f)[n] = IF n = len + 1 THEN f ELSE m.free_list[n]
    BY <1>1, AppendProperties
  <2>3. QED
    BY <1>2, <2>1, <2>2, LenProperties
<1> HIDE DEF e, len
<1>4. \A p \in Procs, v \in Pages, level \in 0 .. 3 : at(e, p, v, level) = at(m, p, v, level)
  <2>1. SameTables(m, e)
    BY <1>2 DEF SameTables
  <2>2. QED
    BY <2>1, AtFrame
<1>5. FreeListOK(e)
  <2>1. \A n \in 1 .. len : m.free_list[n] # f /\ m.free_list[n] \in 1 .. m.watermark - 1
    BY <1>1 DEF Forest, FreeListOK, InUse, Listed
  <2>2. \A n, k \in 1 .. len : k # n => m.free_list[k] # m.free_list[n]
    BY <1>1 DEF Forest, FreeListOK
  <2>3. f \in 1 .. m.watermark - 1
    BY DEF InUse
  <2>4. ASSUME NEW n \in 1 .. len + 1, NEW k \in 1 .. len + 1, k # n
        PROVE  e.free_list[k] # e.free_list[n]
    <3>1. (k \in 1 .. len \/ k = len + 1) /\ (n \in 1 .. len \/ n = len + 1)
      BY <1>1
    <3>2. len + 1 \notin 1 .. len
      BY <1>1
    <3>3. QED
      BY <1>3, <2>1, <2>2, <2>4, <3>1, <3>2
  <2>5. ASSUME NEW n \in 1 .. len + 1
        PROVE  e.free_list[n] \in 1 .. m.watermark - 1
    <3>1. n \in 1 .. len \/ n = len + 1
      BY <1>1
    <3>2. QED
      BY <1>3, <2>1, <2>3, <3>1
  <2>6. QED
    BY <1>2, <1>3, <2>4, <2>5 DEF FreeListOK
<1>6. \A h : InUse(m, h) /\ h # f => InUse(e, h)
  <2>1. ASSUME NEW h, InUse(m, h), h # f PROVE ~Listed(e, h)
    <3>1. ASSUME NEW n \in 1 .. len + 1 PROVE e.free_list[n] # h
      <4>1. n \in 1 .. len \/ n = len + 1
        BY <1>1
      <4>2. QED
        BY <1>1, <1>3, <2>1, <4>1 DEF InUse, Listed
    <3>2. QED
      BY <1>3, <3>1 DEF Listed
  <2>2. QED
    BY <1>2, <2>1 DEF InUse
<1>7. NamedOnce(e)
  BY <1>4 DEF Forest, NamedOnce
<1>8. NamedInUse(e)
  <2>1. ASSUME NEW p \in Procs, NEW v \in Pages, NEW k \in 0 .. 3, at(e, p, v, k) # NoFrame
        PROVE  InUse(e, at(e, p, v, k))
    <3>1. InUse(m, at(m, p, v, k)) /\ at(m, p, v, k) # f /\ at(e, p, v, k) = at(m, p, v, k)
      BY <1>4, <2>1 DEF Forest, NamedInUse, Linked
    <3>2. QED
      BY <1>6, <3>1
  <2>2. QED
    BY <2>1 DEF NamedInUse
<1>9. QED
  BY <1>4, <1>5, <1>6, <1>7, <1>8 DEF Forest, e

(***************************************************************************)
(* map_page and alloc_and_map.                                             *)
(***************************************************************************)
\* Frames in use stay in use, and play no other role than before.
Kept(m, n) ==
  \A h : InUse(m, h) =>
    /\ InUse(n, h)
    /\ \A p \in Procs, v \in Pages, level \in 0 .. 3 :
         at(n, p, v, level) = h => at(m, p, v, level) = h

SamePages(m, n) == \A p \in Procs, v \in Pages : at(n, p, v, 0) = at(m, p, v, 0)

\* The tables only grow, on the way to page v of p.
Grown(m, n, p, v) ==
  \A q \in Procs, u \in Pages, k \in 1 .. 3 :
    \/ at(n, q, u, k) = at(m, q, u, k)
    \/ q = p /\ at(m, q, u, k) = NoFrame /\ Same(u, v, k)

\* Where map_page stands before it looks at the given level, with the memory
\* m before the call and the frame f to be mapped.
Descending(m, f, p, v, level, d) ==
  /\ d \in Descents /\ Forest(d.m) /\ InUse(d.m, f) /\ ~Linked(d.m, f)
  /\ Kept(m, d.m) /\ SamePages(m, d.m) /\ Grown(m, d.m, p, v)
  /\ d.ok => Reached(d.m, p, v, level, d.table)

LEMMA DescendStep ==
  ASSUME LowerHalf, NEW m \in Memories, NEW f \in Frames, NEW p \in Procs, NEW v \in Pages,
         NEW level \in 1 .. 3, NEW d, Descending(m, f, p, v, level, d)
  PROVE  Descending(m, f, p, v, level - 1, descend(d, p, v, level))
PROOF
<1> DEFINE i == index[v][level]
           there == entry(d.m, p, d.table, i)
           g == next_frame(d.m)
           n == take_frame(d.m)
           s == set_entry(n, p, d.table, i, g)
           e == descend(d, p, v, level)
<1>1. /\ d \in Descents /\ d.m \in Memories /\ d.table \in Entries /\ Forest(d.m)
      /\ InUse(d.m, f) /\ ~Linked(d.m, f) /\ Kept(m, d.m) /\ SamePages(m, d.m)
      /\ Grown(m, d.m, p, v)
      /\ d.ok => Reached(d.m, p, v, level, d.table)
      /\ level \in 0 .. 3 /\ level - 1 \in 0 .. 2 /\ (level - 1) + 1 = level
  BY DEF Descending, Descents
<1>2. e \in Descents
  BY <1>1, DescendTyped
<1>3. e = IF ~d.ok THEN d
          ELSE IF there # NoFrame THEN [d EXCEPT !.table = there]
          ELSE IF g = NoFrame THEN [d EXCEPT !.ok = FALSE]
          ELSE [d EXCEPT !.m = s, !.table = g]
  BY DEF descend
<1>4. d.ok => there = at(d.m, p, v, level)
  BY <1>1, EntryReached
<1> SUFFICES Descending(m, f, p, v, level - 1, e)
  OBVIOUS
<1> HIDE DEF e, there, i, s, n, g
<1>5. CASE ~d.ok
  BY <1>1, <1>3, <1>5 DEF Descending
<1>6. CASE d.ok /\ there # NoFrame
  <2>1. e.m = d.m /\ e.table = there
    BY <1>1, <1>3, <1>6 DEF Descents
  <2>2. Reached(e.m, p, v, level - 1, e.table)
    BY <1>1, <1>4, <1>6, <2>1 DEF Reached
  <2>3. QED
    BY <1>1, <1>2, <2>1, <2>2 DEF Descending
<1>7. CASE d.ok /\ there = NoFrame /\ g = NoFrame
  <2>1. e.m = d.m /\ ~e.ok
    BY <1>1, <1>3, <1>7 DEF Descents
  <2>2. QED
    BY <1>1, <1>2, <2>1 DEF Descending
<1>8. CASE d.ok /\ there = NoFrame /\ g # NoFrame
  <2>1. e.m = s /\ e.table = g
    BY <1>1, <1>3, <1>8 DEF Descents
  <2>2. /\ n \in Memories /\ Forest(n) /\ g \in Frames
        /\ InUse(n, g) /\ ~InUse(d.m, g) /\ ~Linked(n, g) /\ Blank(n, g)
        /\ \A h : InUse(d.m, h) => InUse(n, h)
        /\ \A q \in Procs, u \in Pages, k \in 0 .. 3 : at(n, q, u, k) = at(d.m, q, u, k)
    BY <1>1, <1>8, TakeFrame DEF g, n
  <2>3. Reached(n, p, v, level, d.table)
    BY <1>1, <1>8, <2>2 DEF Reached
  <2>4. at(n, p, v, level) = NoFrame
    BY <1>1, <1>4, <1>8, <2>2
  <2>5. Linkable(n, p, v, level, g)
    BY <2>2, <2>4 DEF Linkable
  <2>6. /\ s \in Memories /\ Forest(s) /\ \A h : InUse(s, h) <=> InUse(n, h)
        /\ \A q \in Procs, u \in Pages, k \in 0 .. 3 :
             at(s, q, u, k) \notin {NoFrame, g} => at(n, q, u, k) = at(s, q, u, k)
    BY <1>1, <2>2, <2>3, <2>5, LinkForest DEF s, i
  <2>7. \A q \in Procs, u \in Pages, k \in 0 .. 3 : LinkedAt(n, s, p, v, level, g, q, u, k)
    BY <1>1, <2>2, <2>3, <2>5, Link DEF s, i
  <2>8. ASSUME NEW h, InUse(d.m, h)
        PROVE  /\ InUse(s, h)
               /\ \A q \in Procs, u \in Pages, k \in 0 .. 3 :
                    at(s, q, u, k) = h => at(d.m, q, u, k) = h
    <3>1. h # g /\ h # NoFrame
      BY <2>2, <2>8 DEF InUse, NoFrame
    <3>2. QED
      BY <2>2, <2>6, <2>8, <3>1
  <2>9. InUse(s, f) /\ ~Linked(s, f)
    <3>1. \A q \in Procs, u \in Pages, k \in 0 .. 3 : at(s, q, u, k) # f
      BY <1>1, <2>8 DEF Linked
    <3>2. QED
      BY <1>1, <2>8, <3>1 DEF Linked
  <2>10. Kept(m, s)
    BY <1>1, <2>8 DEF Kept
  <2>11. SamePages(m, s)
    <3>1. SUFFICES ASSUME NEW q \in Procs, NEW u \in Pages
                   PROVE  at(s, q, u, 0) = at(d.m, q, u, 0)
      BY <1>1 DEF SamePages
    <3>2. LinkedAt(n, s, p, v, level, g, q, u, 0)
      BY <2>7
    <3>3. CASE q = p /\ Same(u, v, level)
      <4>1. at(n, q, u, level) = NoFrame
        BY <1>1, <2>4, <3>3, AtSame
      <4>2. at(n, q, u, 0) = NoFrame
        BY <1>1, <4>1, NothingBelow
      <4>3. at(s, q, u, 0) = NoFrame
        BY <3>2, <3>3 DEF LinkedAt
      <4>4. QED
        BY <2>2, <4>2, <4>3
    <3>4. CASE ~(q = p /\ Same(u, v, level))
      BY <2>2, <3>2, <3>4 DEF LinkedAt
    <3>5. QED
      BY <3>3, <3>4
  <2>12. Reached(s, p, v, level - 1, g)
    <3>1. LinkedAt(n, s, p, v, level, g, p, v, level) /\ Same(v, v, level)
      BY <1>1, <2>7 DEF Same
    <3>2. at(s, p, v, level) = g
      BY <3>1 DEF LinkedAt
    <3>3. QED
      BY <1>1, <1>8, <3>2 DEF Reached
  <2>13. Grown(m, s, p, v)
    <3>1. SUFFICES ASSUME NEW q \in Procs, NEW u \in Pages, NEW k \in 1 .. 3
                   PROVE  \/ at(s, q, u, k) = at(m, q, u, k)
                          \/ q = p /\ at(m, q, u, k) = NoFrame /\ Same(u, v, k)
      BY DEF Grown
    <3>2. /\ LinkedAt(n, s, p, v, level, g, q, u, k)
          /\ at(n, q, u, k) = at(d.m, q, u, k)
      <4>1. k \in 0 .. 3
        OBVIOUS
      <4>2. QED
        BY <2>2, <2>7, <4>1
    <3>3. \/ at(d.m, q, u, k) = at(m, q, u, k)
          \/ q = p /\ at(m, q, u, k) = NoFrame /\ Same(u, v, k)
      BY <1>1 DEF Grown
    <3>4. CASE q = p /\ Same(u, v, level) /\ k <= level
      <4>1. at(n, q, u, level) = NoFrame
        BY <1>1, <2>4, <3>4, AtSame
      <4>2. k \in 0 .. level
        BY <3>4
      <4>3. at(n, q, u, k) = NoFrame
        BY <1>1, <4>1, <4>2, NothingBelow
      <4>4. CASE k = level
        BY <3>2, <3>3, <3>4, <4>3, <4>4
      <4>5. CASE k # level
        <5>1. k < level
          BY <3>4, <4>5
        <5>2. at(s, q, u, k) = NoFrame
          BY <3>2, <3>4, <4>5, <5>1 DEF LinkedAt
        <5>3. QED
          BY <3>2, <3>3, <4>3, <5>2
      <4>6. QED
        BY <4>4, <4>5
    <3>5. CASE ~(q = p /\ Same(u, v, level) /\ k <= level)
      <4>1. at(s, q, u, k) = at(n, q, u, k)
        BY <3>2, <3>5 DEF LinkedAt
      <4>2. QED
        BY <3>2, <3>3, <4>1
    <3>6. QED
      BY <3>4, <3>5
  <2>14. QED
    BY <1>2, <2>1, <2>6, <2>9, <2>10, <2>11, <2>12, <2>13 DEF Descending
<1>9. QED
  BY <1>5, <1>6, <1>7, <1>8

\* What mapping page v of p to frame f leaves of the walks of m.
Mapped(m, n, p, v, f) ==
  /\ n \in Memories /\ Forest(n) /\ Kept(m, n) /\ Grown(m, n, p, v)
  /\ \A q \in Procs, u \in Pages :
       at(n, q, u, 0) = IF q = p /\ Same(u, v, 0) THEN f ELSE at(m, q, u, 0)

LEMMA MapEffect ==
  ASSUME LowerHalf, NEW m \in Memories, Forest(m), NEW p \in Procs, NEW v \in Pages,
         next_frame(m) # NoFrame
  PROVE  LET f == next_frame(m)
             mapped == map_page(take_frame(m), p, v, f)
             freed == free_frame(mapped.m, f)
         IN  /\ mapped.ok => Mapped(m, mapped.m, p, v, f)
             /\ ~mapped.ok => freed \in Memories /\ Forest(freed) /\ Kept(m, freed)
                              /\ SamePages(m, freed) /\ Grown(m, freed, p, v)
             /\ f \in Frames /\ ~InUse(m, f)
PROOF
<1> DEFINE f == next_frame(m)
           n == take_frame(m)
           root == [m |-> n, table |-> NoFrame, ok |-> TRUE]
           d == descend(descend(descend(root, p, v, 3), p, v, 2), p, v, 1)
           i == index[v][0]
           s == set_entry(d.m, p, d.table, i, f)
           mapped == map_page(n, p, v, f)
           freed == free_frame(mapped.m, f)
<1>1. /\ n \in Memories /\ Forest(n) /\ f \in Frames
      /\ InUse(n, f) /\ ~InUse(m, f) /\ ~Linked(n, f)
      /\ \A h : InUse(m, h) => InUse(n, h)
      /\ \A q \in Procs, u \in Pages, k \in 0 .. 3 : at(n, q, u, k) = at(m, q, u, k)
  BY TakeFrame
<1>2. Descending(m, f, p, v, 3, root)
  <2>1. root \in Descents /\ root.m = n /\ Reached(n, p, v, 3, root.table)
    BY <1>1, Geometry DEF Descents, Reached
  <2>2. Kept(m, n)
    BY <1>1 DEF Kept
  <2>3. SamePages(m, n)
    BY <1>1 DEF SamePages
  <2>4. Grown(m, n, p, v)
    BY <1>1 DEF Grown
  <2> HIDE DEF root, n, f
  <2>5. QED
    BY <1>1, <2>1, <2>2, <2>3, <2>4 DEF Descending
<1> HIDE DEF root, n, f
<1>3. Descending(m, f, p, v, 0, d)
  <2>1. Descending(m, f, p, v, 3 - 1, descend(root, p, v, 3))
    BY <1>1, <1>2, DescendStep
  <2>2. Descending(m, f, p, v, 2 - 1, descend(descend(root, p, v, 3), p, v, 2))
    <3> DEFINE d3 == descend(root, p, v, 3)
    <3>1. Descending(m, f, p, v, 2, d3)
      BY <2>1
    <3> HIDE DEF d3
    <3>2. Descending(m, f, p, v, 2 - 1, descend(d3, p, v, 2))
      BY <1>1, <3>1, DescendStep
    <3>3. QED
      BY <3>2 DEF d3
  <2>3. Descending(m, f, p, v, 1 - 1, d)
    <3> DEFINE d2 == descend(descend(root, p, v, 3), p, v, 2)
    <3>1. Descending(m, f, p, v, 1, d2)
      BY <2>2
    <3> HIDE DEF d2
    <3>2. Descending(m, f, p, v, 1 - 1, descend(d2, p, v, 1))
      BY <1>1, <3>1, DescendStep
    <3>3. QED
      BY <3>2 DEF d2
  <2> HIDE DEF d
  <2>4. QED
    BY <2>3
<1>4. mapped = IF d.ok THEN [d EXCEPT !.m = s] ELSE d
  BY DEF map_page, root
<1> HIDE DEF d, s, mapped
<1>5. /\ d \in Descents /\ d.m \in Memories /\ d.table \in Entries /\ Forest(d.m)
      /\ InUse(d.m, f) /\ ~Linked(d.m, f) /\ Kept(m, d.m) /\ SamePages(m, d.m)
      /\ Grown(m, d.m, p, v)
      /\ d.ok => Reached(d.m, p, v, 0, d.table)
  BY <1>3 DEF Descending, Descents
<1>6. mapped.ok = d.ok /\ mapped.m = IF d.ok THEN s ELSE d.m
  BY <1>4, <1>5 DEF Descents
<1>7. ASSUME d.ok PROVE Mapped(m, s, p, v, f)
  <2>1. Linkable(d.m, p, v, 0, f)
    BY <1>1, <1>5 DEF Linkable
  <2>2. /\ s \in Memories /\ Forest(s) /\ \A h : InUse(s, h) <=> InUse(d.m, h)
        /\ \A q \in Procs, u \in Pages, k \in 0 .. 3 :
             at(s, q, u, k) \notin {NoFrame, f} => at(d.m, q, u, k) = at(s, q, u, k)
    BY <1>5, <1>7, <2>1, LinkForest DEF s
  <2>3. \A q \in Procs, u \in Pages, k \in 0 .. 3 : LinkedAt(d.m, s, p, v, 0, f, q, u, k)
    BY <1>5, <1>7, <2>1, Link DEF s
  <2>4. Kept(m, s)
    <3>1. ASSUME NEW h, InUse(m, h)
          PROVE  /\ InUse(s, h)
                 /\ \A q \in Procs, u \in Pages, k \in 0 .. 3 :
                      at(s, q, u, k) = h => at(m, q, u, k) = h
      <4>1. h # f /\ h # NoFrame
        BY <1>1, <3>1 DEF InUse, NoFrame
      <4>2. InUse(d.m, h)
        BY <1>5, <3>1 DEF Kept
      <4>3. QED
        BY <1>5, <2>2, <3>1, <4>1, <4>2 DEF Kept
    <3>2. QED
      BY <3>1 DEF Kept
  <2>5. ASSUME NEW q \in Procs, NEW u \in Pages
        PROVE  at(s, q, u, 0) = IF q = p /\ Same(u, v, 0) THEN f ELSE at(m, q, u, 0)
    <3>1. LinkedAt(d.m, s, p, v, 0, f, q, u, 0)
      BY <2>3
    <3>2. at(d.m, q, u, 0) = at(m, q, u, 0)
      BY <1>5 DEF SamePages
    <3>3. QED
      BY <3>1, <3>2 DEF LinkedAt
  <2>6. Grown(m, s, p, v)
    <3>1. ASSUME NEW q \in Procs, NEW u \in Pages, NEW k \in 1 .. 3
          PROVE  at(s, q, u, k) = at(d.m, q, u, k)
      <4>1. LinkedAt(d.m, s, p, v, 0, f, q, u, k)
        BY <2>3
      <4>2. QED
        BY <4>1 DEF LinkedAt
    <3>2. QED
      BY <1>5, <3>1 DEF Grown
  <2>7. QED
    BY <2>2, <2>4, <2>5, <2>6 DEF Mapped
<1>8. ASSUME ~d.ok
      PROVE  /\ freed \in Memories /\ Forest(freed) /\ Kept(m, freed)
             /\ SamePages(m, freed) /\ Grown(m, freed, p, v)
  <2>1. mapped.m = d.m
    BY <1>6, <1>8
  <2>2. freed \in Memories
    BY <1>1, <1>5, <2>1, FreeTyped
  <2>3. /\ Forest(freed) /\ \A h : InUse(d.m, h) /\ h # f => InUse(freed, h)
        /\ \A q \in Procs, u \in Pages, k \in 0 .. 3 : at(freed, q, u, k) = at(d.m, q, u, k)
    BY <1>1, <1>5, <2>1, FreeFrame
  <2> HIDE DEF freed
  <2>4. Kept(m, freed)
    <3>1. ASSUME NEW h, InUse(m, h)
          PROVE  /\ InUse(freed, h)
                 /\ \A q \in Procs, u \in Pages, k \in 0 .. 3 :
                      at(freed, q, u, k) = h => at(m, q, u, k) = h
      <4>1. h # f
        BY <1>1, <3>1
      <4>2. QED
        BY <1>5, <2>3, <3>1, <4>1 DEF Kept
    <3>2. QED
      BY <3>1 DEF Kept
  <2>5. SamePages(m, freed)
    BY <1>5, <2>3 DEF SamePages
  <2>6. Grown(m, freed, p, v)
    BY <1>5, <2>3 DEF Grown
  <2>7. QED
    BY <2>2, <2>3, <2>4, <2>5, <2>6
<1>9. QED
  BY <1>1, <1>6, <1>7, <1>8 DEF mapped, f, n

(***************************************************************************)
(* The walks of the source stop at a table that would not end within the   *)
(* memory; else they are the walks of the forest.                          *)
(***************************************************************************)
walk_in(m, t, v, level) ==
  IF t = NoFrame \/ size < 2 \/ t > size - 2 THEN NoFrame ELSE m.cells[t][index[v][level]]

frame_in(m, p, v, level) ==
  LET t3 == at3(m, p, v)
      t2 == walk_in(m, t3, v, 2)
      t1 == walk_in(m, t2, v, 1)
      t0 == walk_in(m, t1, v, 0)
  IN  IF level = 3 THEN t3 ELSE IF level = 2 THEN t2 ELSE IF level = 1 THEN t1 ELSE t0

LEMMA FrameOfForest ==
  ASSUME NEW m, NEW p \in Procs, NEW v \in Pages, NEW level \in 0 .. 3
  PROVE  frame_in(m, p, v, level) \in {at(m, p, v, level), NoFrame}
PROOF
<1> DEFINE t3 == at3(m, p, v)
           t2 == walk_in(m, t3, v, 2)
           t1 == walk_in(m, t2, v, 1)
           t0 == walk_in(m, t1, v, 0)
<1>1. \A t, k : walk_in(m, t, v, k) \in {below(m, t, v, k), NoFrame}
  BY DEF walk_in, below
<1>2. \A k : walk_in(m, NoFrame, v, k) = NoFrame
  BY DEF walk_in
<1>3. t2 \in {at2(m, p, v), NoFrame}
  BY <1>1 DEF at2
<1> HIDE DEF t2
<1>4. t1 \in {at1(m, p, v), NoFrame}
  BY <1>1, <1>2, <1>3 DEF at1
<1> HIDE DEF t1
<1>5. t0 \in {at0(m, p, v), NoFrame}
  BY <1>1, <1>2, <1>4 DEF at0
<1> HIDE DEF t0
<1>6. frame_in(m, p, v, level) =
        IF level = 3 THEN t3 ELSE IF level = 2 THEN t2 ELSE IF level = 1 THEN t1 ELSE t0
  BY DEF frame_in, t2, t1, t0
<1>7. QED
  BY <1>3, <1>4, <1>5, <1>6 DEF at

\* The walk of page v of p passes a table in the last frame, which page_walk
\* refuses to enter; seen is the frame the walk finds.
Cut(m, p, v) == \E k \in 1 .. 3 : at(m, p, v, k) = size - 1 /\ at(m, p, v, k) # NoFrame
seen(m, p, v) == IF Cut(m, p, v) THEN NoFrame ELSE at(m, p, v, 0)

LEMMA WalkOfForest ==
  ASSUME LowerHalf, NEW m \in Memories, NEW p \in Procs, NEW v \in Pages
  PROVE  frame_in(m, p, v, 0) = seen(m, p, v)
PROOF
<1> DEFINE last(k) == at(m, p, v, k) = size - 1 /\ at(m, p, v, k) # NoFrame
<1>1. ASSUME NEW k \in 0 .. 2
      PROVE  walk_in(m, at(m, p, v, k + 1), v, k) =
               IF last(k + 1) THEN NoFrame ELSE at(m, p, v, k)
  <2> DEFINE t == at(m, p, v, k + 1)
  <2>1. t \in Nat /\ t < size
    BY AtTyped, Geometry DEF Entries
  <2>2. t # NoFrame => (size < 2 \/ t > size - 2 <=> t = size - 1)
    BY <2>1, Geometry DEF NoFrame
  <2>3. at(m, p, v, k) = below(m, t, v, k)
    BY AtBelow
  <2> HIDE DEF t
  <2>4. walk_in(m, t, v, k) = IF t = size - 1 /\ t # NoFrame THEN NoFrame ELSE at(m, p, v, k)
    BY <2>2, <2>3 DEF walk_in, below
  <2>5. QED
    BY <2>4 DEF t
<1>2. at(m, p, v, 3) = at3(m, p, v)
  BY DEF at
<1>3. /\ walk_in(m, at(m, p, v, 3), v, 2) = IF last(3) THEN NoFrame ELSE at(m, p, v, 2)
      /\ walk_in(m, at(m, p, v, 2), v, 1) = IF last(2) THEN NoFrame ELSE at(m, p, v, 1)
      /\ walk_in(m, at(m, p, v, 1), v, 0) = IF last(1) THEN NoFrame ELSE at(m, p, v, 0)
  <2> HIDE DEF last
  <2>1. walk_in(m, at(m, p, v, 2 + 1), v, 2) = IF last(2 + 1) THEN NoFrame ELSE at(m, p, v, 2)
    BY <1>1
  <2>2. walk_in(m, at(m, p, v, 1 + 1), v, 1) = IF last(1 + 1) THEN NoFrame ELSE at(m, p, v, 1)
    BY <1>1
  <2>3. walk_in(m, at(m, p, v, 0 + 1), v, 0) = IF last(0 + 1) THEN NoFrame ELSE at(m, p, v, 0)
    BY <1>1
  <2>4. 2 + 1 = 3 /\ 1 + 1 = 2 /\ 0 + 1 = 1
    OBVIOUS
  <2>5. QED
    BY <2>1, <2>2, <2>3, <2>4
<1>4. \A k : walk_in(m, NoFrame, v, k) = NoFrame
  BY DEF walk_in
<1>5. Cut(m, p, v) <=> last(3) \/ last(2) \/ last(1)
  <2>1. \A k : k \in 1 .. 3 <=> k = 3 \/ k = 2 \/ k = 1
    OBVIOUS
  <2>2. QED
    BY <2>1 DEF Cut
<1> HIDE DEF last
<1>6. QED
  BY <1>2, <1>3, <1>4, <1>5 DEF frame_in, seen

LEMMA WalkHere ==
  ASSUME LowerHalf, TypeOK, NEW p \in Procs, NEW v \in Pages
  PROVE  /\ page_walk(p, v) = frame_in(here, p, v, 0)
         /\ \A level \in 0 .. 3 : frame_at(p, v, level) = frame_in(here, p, v, level)
PROOF
<1>1. ASSUME NEW t \in Entries, NEW level \in 0 .. 3
      PROVE  walk_from(t, v, level) = walk_in(here, t, v, level)
  <2>1. /\ index[v][level] \div FRAME_ENTRIES = 0
        /\ index[v][level] % FRAME_ENTRIES = index[v][level] /\ t \in Nat
    BY LowerIndex, Geometry DEF Entries
  <2>2. t + index[v][level] \div FRAME_ENTRIES = t
    BY <2>1
  <2>3. QED
    BY <2>1, <2>2 DEF walk_from, walk_in, here
<1>2. ASSUME NEW t \in Entries, NEW level \in 0 .. 3
      PROVE  walk_from(t, v, level) \in Entries
  <2>1. index[v][level] \in 0 .. FRAME_ENTRIES - 1 /\ t \in 0 .. size
    BY LowerIndex, Geometry DEF Entries
  <2>2. cells[t][index[v][level]] \in Entries
    BY <2>1 DEF TypeOK
  <2>3. walk_in(here, t, v, level) \in Entries
    BY <2>2, Geometry DEF walk_in, here
  <2>4. QED
    BY <1>1, <2>3
<1> DEFINE t3 == pml4[p][index[v][3]]
           t2 == walk_from(t3, v, 2)
           t1 == walk_from(t2, v, 1)
           t0 == walk_from(t1, v, 0)
<1>3. t3 \in Entries /\ t2 \in Entries /\ t1 \in Entries
  <2>1. t3 \in Entries
    BY LowerIndex DEF TypeOK
  <2> HIDE DEF t3
  <2>2. t2 \in Entries
    BY <1>2, <2>1
  <2> HIDE DEF t2
  <2>3. t1 \in Entries
    BY <1>2, <2>2
  <2>4. QED
    BY <2>1, <2>2, <2>3
<1>4. /\ t3 = at3(here, p, v)
      /\ t2 = walk_in(here, t3, v, 2)
      /\ t1 = walk_in(here, t2, v, 1)
      /\ t0 = walk_in(here, t1, v, 0)
  <2>1. t3 = at3(here, p, v)
    BY DEF at3, here
  <2> HIDE DEF t3
  <2>2. t2 = walk_in(here, t3, v, 2)
    BY <1>1, <1>3
  <2> HIDE DEF t2
  <2>3. t1 = walk_in(here, t2, v, 1)
    BY <1>1, <1>3
  <2> HIDE DEF t1
  <2>4. t0 = walk_in(here, t1, v, 0)
    BY <1>1, <1>3
  <2>5. QED
    BY <2>1, <2>2, <2>3, <2>4
<1>5. page_walk(p, v) = t0
  BY DEF page_walk
<1>6. ASSUME NEW level \in 0 .. 3 PROVE frame_at(p, v, level) = <<t0, t1, t2, t3>>[level + 1]
  BY DEF frame_at
<1> HIDE DEF t3, t2, t1, t0
<1>7. ASSUME NEW level \in 0 .. 3
      PROVE  frame_at(p, v, level) = frame_in(here, p, v, level)
  <2>1. frame_in(here, p, v, level) =
          IF level = 3 THEN t3 ELSE IF level = 2 THEN t2 ELSE IF level = 1 THEN t1 ELSE t0
    BY <1>4 DEF frame_in
  <2>2. <<t0, t1, t2, t3>>[level + 1] =
          IF level = 3 THEN t3 ELSE IF level = 2 THEN t2 ELSE IF level = 1 THEN t1 ELSE t0
    <3>1. level = 0 \/ level = 1 \/ level = 2 \/ level = 3
      OBVIOUS
    <3>2. QED
      BY <3>1
  <2>3. QED
    BY <1>6, <2>1, <2>2
<1>8. QED
  BY <1>4, <1>5, <1>7 DEF frame_in

LEMMA NamedHere ==
  ASSUME LowerHalf, TypeOK, NEW p \in Procs, NEW v \in Pages, NEW level \in 0 .. 3
  PROVE  named(p, v)[level + 1] = at(here, p, v, level)
PROOF
<1>1. here \in Memories
  BY HereTyped
<1>2. ASSUME NEW k \in 0 .. 2
      PROVE  linked(at(here, p, v, k + 1), v, k) = at(here, p, v, k)
  <2> DEFINE t == at(here, p, v, k + 1)
  <2>1. t \in Nat
    BY <1>1, AtTyped, Geometry DEF Entries
  <2>2. /\ index[v][k] \div FRAME_ENTRIES = 0
        /\ index[v][k] % FRAME_ENTRIES = index[v][k]
    BY LowerIndex
  <2>3. t + index[v][k] \div FRAME_ENTRIES = t
    BY <2>1, <2>2
  <2>4. at(here, p, v, k) = below(here, t, v, k)
    BY AtBelow
  <2> HIDE DEF t
  <2>5. linked(t, v, k) = at(here, p, v, k)
    BY <2>2, <2>3, <2>4 DEF linked, below, here
  <2>6. QED
    BY <2>5 DEF t
<1>3. pml4[p][index[v][3]] = at(here, p, v, 3)
  BY AtTop DEF here
<1>4. /\ linked(at(here, p, v, 3), v, 2) = at(here, p, v, 2)
      /\ linked(at(here, p, v, 2), v, 1) = at(here, p, v, 1)
      /\ linked(at(here, p, v, 1), v, 0) = at(here, p, v, 0)
  <2>1. linked(at(here, p, v, 2 + 1), v, 2) = at(here, p, v, 2)
    BY <1>2
  <2>2. linked(at(here, p, v, 1 + 1), v, 1) = at(here, p, v, 1)
    BY <1>2
  <2>3. linked(at(here, p, v, 0 + 1), v, 0) = at(here, p, v, 0)
    BY <1>2
  <2>4. 2 + 1 = 3 /\ 1 + 1 = 2 /\ 0 + 1 = 1
    OBVIOUS
  <2>5. QED
    BY <2>1, <2>2, <2>3, <2>4
<1>5. named(p, v) = <<at(here, p, v, 0), at(here, p, v, 1), at(here, p, v, 2), at(here, p, v, 3)>>
  BY <1>3, <1>4 DEF named
<1>6. level = 0 \/ level = 1 \/ level = 2 \/ level = 3
  OBVIOUS
<1>7. QED
  BY <1>5, <1>6

(***************************************************************************)
(* The inductive invariant: the tables are a forest, and every TLB entry   *)
(* is a frame in use that no table and no other process has.               *)
(***************************************************************************)
Belongs(m, a, f) ==
  \/ f = NoFrame
  \/ /\ InUse(m, f)
     /\ \A p \in Procs, v \in Pages, level \in 0 .. 3 :
          at(m, p, v, level) = f => p = a /\ level = 0

Safe(m, a, tlb) == \A c \in Cores, v \in Pages : Belongs(m, a, tlb[c][v])

IInv ==
  /\ TypeOK /\ Forest(here)
  /\ Safe(here, active, l1_dtlb) /\ Safe(here, active, l2_dtlb) /\ Safe(here, active, itlb)

LEMMA Become ==
  ASSUME NEW m \in Memories, become(m)
  PROVE  here' = m
BY DEF become, here, Memories

LEMMA InvariantAfter ==
  ASSUME TypeOK', NEW m, here' = m, Forest(m), Safe(m, active', l1_dtlb'),
         Safe(m, active', l2_dtlb'), Safe(m, active', itlb')
  PROVE  IInv'
PROOF
<1>1. Forest(here') /\ Safe(here', active', l1_dtlb') /\ Safe(here', active', l2_dtlb')
      /\ Safe(here', active', itlb')
  OBVIOUS
<1>2. QED
  BY <1>1 DEF IInv

LEMMA InitIInv == ASSUME LowerHalf, Init PROVE IInv
PROOF
<1>1. TypeOK
  BY Geometry, EmptySeq DEF Init, TypeOK, EmptyFrame, NoTLB
<1>2. \A p \in Procs, v \in Pages, level \in 0 .. 3 : at(here, p, v, level) = NoFrame
  <2>1. ASSUME NEW p \in Procs, NEW v \in Pages PROVE at3(here, p, v) = NoFrame
    BY LowerIndex DEF Init, here, at3
  <2>2. QED
    BY <2>1 DEF at, at2, at1, at0, below
<1>3. here.free_list = <<>>
  BY DEF Init, here
<1>4. Forest(here)
  BY <1>2, <1>3 DEF Forest, NamedOnce, NamedInUse, FreeListOK
<1>5. Safe(here, active, l1_dtlb) /\ Safe(here, active, l2_dtlb) /\ Safe(here, active, itlb)
  BY DEF Init, Safe, Belongs, NoTLB
<1>6. QED
  BY <1>1, <1>4, <1>5 DEF IInv

\* Nothing happens to the frames of a TLB while frames keep their roles.
LEMMA SafeKept ==
  ASSUME NEW m, NEW n, Kept(m, n), NEW a, NEW tlb, Safe(m, a, tlb)
  PROVE  Safe(n, a, tlb)
PROOF
<1>1. ASSUME NEW f, Belongs(m, a, f) PROVE Belongs(n, a, f)
  BY <1>1 DEF Belongs, Kept
<1>2. QED
  BY <1>1 DEF Safe

\* alloc_and_map changes the memory as map_page does, or leaves its walks.
AllocResult(m, n, p, v) ==
  \/ n = m /\ answer' = <<p, v, NoFrame>> /\ stale' = stale
  \/ /\ n \in Memories /\ Forest(n) /\ Kept(m, n) /\ SamePages(m, n) /\ Grown(m, n, p, v)
     /\ answer' = <<p, v, NoFrame>> /\ stale' = stale
  \/ \E f \in Frames :
       /\ ~InUse(m, f) /\ Mapped(m, n, p, v, f)
       /\ answer' = <<p, v, f>> /\ stale' = lost(p, v)

LEMMA AllocEffect ==
  ASSUME LowerHalf, TypeOK, Forest(here), NEW p \in Procs, NEW v \in Pages, alloc_and_map(p, v)
  PROVE  \E n \in Memories : become(n) /\ AllocResult(here, n, p, v)
PROOF
<1> DEFINE f == next_frame(here)
           mapped == map_page(take_frame(here), p, v, f)
           freed == free_frame(mapped.m, f)
<1>1. here \in Memories
  BY HereTyped
<1>2. /\ IF f = NoFrame THEN become(here) /\ answer' = <<p, v, NoFrame>>
         ELSE IF mapped.ok THEN become(mapped.m) /\ answer' = <<p, v, f>>
         ELSE become(freed) /\ answer' = <<p, v, NoFrame>>
      /\ stale' = IF f # NoFrame /\ mapped.ok THEN lost(p, v) ELSE stale
  BY DEF alloc_and_map
<1>3. f # NoFrame =>
        /\ mapped.ok => Mapped(here, mapped.m, p, v, f)
        /\ ~mapped.ok => freed \in Memories /\ Forest(freed) /\ Kept(here, freed)
                         /\ SamePages(here, freed) /\ Grown(here, freed, p, v)
        /\ f \in Frames /\ ~InUse(here, f)
  BY <1>1, MapEffect
<1> HIDE DEF f, mapped, freed
<1>4. CASE f = NoFrame
  BY <1>1, <1>2, <1>4 DEF AllocResult
<1>5. CASE f # NoFrame /\ mapped.ok
  <2>1. become(mapped.m) /\ AllocResult(here, mapped.m, p, v)
    BY <1>2, <1>3, <1>5 DEF AllocResult
  <2>2. mapped.m \in Memories
    BY <1>3, <1>5 DEF Mapped
  <2>3. QED
    BY <2>1, <2>2
<1>6. CASE f # NoFrame /\ ~mapped.ok
  <2>1. become(freed) /\ AllocResult(here, freed, p, v)
    BY <1>2, <1>3, <1>6 DEF AllocResult
  <2>2. QED
    BY <1>3, <1>6, <2>1
<1>7. QED
  BY <1>4, <1>5, <1>6

LEMMA AllocIInv ==
  ASSUME LowerHalf, IInv, TypeOK', NEW p \in Procs, NEW v \in Pages, alloc_and_map(p, v)
  PROVE  IInv'
PROOF
<1>1. PICK n \in Memories : become(n) /\ AllocResult(here, n, p, v)
  BY AllocEffect DEF IInv
<1>2. Forest(n) /\ Kept(here, n)
  <2>1. Kept(here, here)
    BY DEF Kept
  <2>2. QED
    BY <1>1, <2>1 DEF IInv, AllocResult, Mapped
<1>3. UNCHANGED <<active, tlbs>>
  BY DEF alloc_and_map
<1>4. /\ Safe(n, active, l1_dtlb) /\ Safe(n, active, l2_dtlb) /\ Safe(n, active, itlb)
  BY <1>2, SafeKept DEF IInv
<1>5. QED
  BY <1>1, <1>2, <1>3, <1>4, Become, InvariantAfter DEF tlbs

LEMMA SwitchIInv ==
  ASSUME IInv, TypeOK', NEW p \in Procs, process_switch(p)
  PROVE  IInv'
PROOF
<1>1. here' = here
  BY DEF process_switch, memory, here
<1>2. /\ Safe(here, active', l1_dtlb') /\ Safe(here, active', l2_dtlb')
      /\ Safe(here, active', itlb')
  BY DEF process_switch, Safe, NoTLB, Belongs
<1>3. QED
  BY <1>1, <1>2, InvariantAfter DEF IInv

\* A frame that a page walk of the active process finds may enter its TLBs.
LEMMA WalkBelongs ==
  ASSUME LowerHalf, IInv, NEW v \in Pages
  PROVE  active \in Procs /\ Belongs(here, active, page_walk(active, v))
PROOF
<1>1. active \in Procs /\ here \in Memories
  BY HereTyped DEF IInv, TypeOK
<1>2. page_walk(active, v) \in {at(here, active, v, 0), NoFrame}
  BY <1>1, WalkHere, FrameOfForest DEF IInv
<1>3. CASE page_walk(active, v) = NoFrame
  BY <1>1, <1>3 DEF Belongs
<1>4. CASE page_walk(active, v) # NoFrame
  <2>1. page_walk(active, v) = at(here, active, v, 0)
    BY <1>2, <1>4
  <2>2. InUse(here, at(here, active, v, 0))
    BY <1>1, <1>4, <2>1 DEF IInv, Forest, NamedInUse
  <2>3. ASSUME NEW p \in Procs, NEW u \in Pages, NEW level \in 0 .. 3,
               at(here, p, u, level) = at(here, active, v, 0)
        PROVE  p = active /\ level = 0
    BY <1>1, <1>4, <2>1, <2>3 DEF IInv, Forest, NamedOnce
  <2>4. QED
    BY <1>1, <2>1, <2>2, <2>3 DEF Belongs
<1>5. QED
  BY <1>3, <1>4

LEMMA FillBelongs ==
  ASSUME NEW m, NEW a, NEW row \in [Pages -> Entries], \A u \in Pages : Belongs(m, a, row[u]),
         NEW v \in Pages, NEW f \in Entries, Belongs(m, a, f),
         NEW sets, NEW t \in tlb_fill(row, sets, v, f)
  PROVE  \A u \in Pages : Belongs(m, a, t[u])
PROOF
<1>1. \A u \in Pages : t[u] \in {row[u], NoFrame} \/ (u = v /\ t[u] = f)
  BY FillTyped
<1>2. QED
  BY <1>1 DEF Belongs

LEMMA FillSafe ==
  ASSUME NEW m, NEW a, NEW tlb \in [Cores -> [Pages -> Entries]], Safe(m, a, tlb),
         NEW c \in Cores, NEW v \in Pages, NEW f \in Entries, Belongs(m, a, f),
         NEW sets, NEW new, \E t \in tlb_fill(tlb[c], sets, v, f) : new = [tlb EXCEPT ![c] = t]
  PROVE  Safe(m, a, new)
PROOF
<1>1. PICK t \in tlb_fill(tlb[c], sets, v, f) : new = [tlb EXCEPT ![c] = t]
  OBVIOUS
<1>2. tlb[c] \in [Pages -> Entries] /\ \A u \in Pages : Belongs(m, a, tlb[c][u])
  BY DEF Safe
<1>3. t \in tlb_fill(tlb[c], sets, v, f)
  BY <1>1
<1>4. \A u \in Pages : Belongs(m, a, t[u])
  BY <1>2, <1>3, FillBelongs, Zenon
<1>5. QED
  BY <1>1, <1>4 DEF Safe

LEMMA TranslateIInv ==
  ASSUME LowerHalf, IInv, TypeOK', NEW c \in Cores, NEW v \in Pages,
         translate_data(c, v) \/ translate_fetch(c, v)
  PROVE  IInv'
PROOF
<1> DEFINE f == page_walk(active, v)
           g == l2_dtlb[c][v]
<1>1. /\ UNCHANGED <<memory, active>> /\ here' = here
  BY DEF translate_data, translate_fetch, memory, here
<1>2. /\ l1_dtlb \in [Cores -> [Pages -> Entries]]
      /\ l2_dtlb \in [Cores -> [Pages -> Entries]]
      /\ itlb \in [Cores -> [Pages -> Entries]]
      /\ Safe(here, active, l1_dtlb) /\ Safe(here, active, l2_dtlb) /\ Safe(here, active, itlb)
  BY DEF IInv, TypeOK
<1>3. f \in Entries /\ Belongs(here, active, f)
  BY WalkBelongs, WalkTyped DEF IInv
<1>4. g \in Entries /\ Belongs(here, active, g)
  BY <1>2 DEF Safe
<1>5. /\ \/ l1_dtlb' = l1_dtlb
         \/ \E t \in tlb_fill(l1_dtlb[c], L1_DTLB_SETS, v, g) : l1_dtlb' = [l1_dtlb EXCEPT ![c] = t]
         \/ \E t \in tlb_fill(l1_dtlb[c], L1_DTLB_SETS, v, f) : l1_dtlb' = [l1_dtlb EXCEPT ![c] = t]
      /\ \/ l2_dtlb' = l2_dtlb
         \/ \E t \in tlb_fill(l2_dtlb[c], L2_DTLB_SETS, v, f) : l2_dtlb' = [l2_dtlb EXCEPT ![c] = t]
      /\ \/ itlb' = itlb
         \/ \E t \in tlb_fill(itlb[c], ITLB_SETS, v, f) : itlb' = [itlb EXCEPT ![c] = t]
  BY DEF translate_data, translate_fetch
<1> HIDE DEF f, g
<1>6. Safe(here, active, l1_dtlb')
  BY <1>2, <1>3, <1>4, <1>5, FillSafe
<1>7. Safe(here, active, l2_dtlb')
  BY <1>2, <1>3, <1>5, FillSafe
<1>8. Safe(here, active, itlb')
  BY <1>2, <1>3, <1>5, FillSafe
<1>9. QED
  BY <1>1, <1>6, <1>7, <1>8, InvariantAfter DEF IInv

SameWalks(m, n) ==
  \A p \in Procs, v \in Pages, level \in 0 .. 3 : at(n, p, v, level) = at(m, p, v, level)

\* A store may write anything into a page, but a page is no table.
LEMMA WriteBackEffect ==
  ASSUME LowerHalf, TypeOK, Forest(here), NEW p \in Procs, NEW v \in Pages, NEW e \in Stored,
         write_back(p, v, e), TypeOK'
  PROVE  here' \in Memories /\ Forest(here') /\ Kept(here, here') /\ SameWalks(here, here')
PROOF
<1> DEFINE g == page_walk(p, v)
           n == here'
<1>1. g = at(here, p, v, 0) /\ g # NoFrame
  BY WalkHere, FrameOfForest DEF write_back
<1>2. /\ n.pml4 = here.pml4 /\ n.watermark = here.watermark /\ n.free_list = here.free_list
      /\ n.cells = [here.cells EXCEPT ![g] = [i \in DOMAIN here.cells[g] |-> e]]
  BY DEF write_back, here
<1>3. n \in Memories
  BY DEF TypeOK, here, Memories, Frames, Index, Entries
<1>4. here.cells \in [0 .. size -> [0 .. FRAME_ENTRIES - 1 -> Entries]]
  BY HereTyped DEF Memories
<1> HIDE DEF g, n
<1>5. SameTables(here, n)
  <2>1. ASSUME NEW q \in Procs, NEW u \in Pages, NEW k \in 1 .. 3, at(here, q, u, k) # NoFrame
        PROVE  n.cells[at(here, q, u, k)] = here.cells[at(here, q, u, k)]
    <3>1. at(here, q, u, k) # g
      <4>1. k \in 0 .. 3 /\ k # 0
        OBVIOUS
      <4>2. QED
        BY <1>1, <2>1, <4>1 DEF Forest, NamedOnce
    <3>2. at(here, q, u, k) \in 0 .. size
      <4>1. k \in 0 .. 3
        OBVIOUS
      <4>2. at(here, q, u, k) \in Entries
        BY <4>1, HereTyped, AtTyped
      <4>3. QED
        BY <4>2, Geometry DEF Entries
    <3>3. QED
      BY <1>2, <1>4, <3>1, <3>2
  <2>2. QED
    BY <1>2, <2>1 DEF SameTables
<1>6. \A q \in Procs, u \in Pages, k \in 0 .. 3 : at(n, q, u, k) = at(here, q, u, k)
  BY <1>5, AtFrame
<1>7. \A h : InUse(n, h) <=> InUse(here, h)
  BY <1>2 DEF InUse, Listed
<1>8. Forest(n)
  BY <1>2, <1>6, <1>7 DEF Forest, NamedOnce, NamedInUse, FreeListOK
<1>9. Kept(here, n) /\ SameWalks(here, n)
  BY <1>6, <1>7 DEF Kept, SameWalks
<1>10. QED
  BY <1>3, <1>8, <1>9 DEF n

LEMMA NextIInv == ASSUME LowerHalf, IInv, [Next]_vars PROVE IInv'
PROOF
<1>1. TypeOK'
  BY NextTyped DEF IInv
<1>2. ASSUME NEW p \in Procs, NEW v \in Pages, alloc_and_map(p, v) PROVE IInv'
  BY <1>1, <1>2, AllocIInv
<1>3. ASSUME NEW p \in Procs, process_switch(p) PROVE IInv'
  BY <1>1, <1>3, SwitchIInv
<1>4. ASSUME NEW c \in Cores, NEW v \in Pages, translate_data(c, v) \/ translate_fetch(c, v)
      PROVE  IInv'
  BY <1>1, <1>4, TranslateIInv
<1>5. ASSUME NEW p \in Procs, NEW v \in Pages, NEW e \in Stored, write_back(p, v, e)
      PROVE  IInv'
  <2>1. Forest(here') /\ Kept(here, here')
    BY <1>1, <1>5, WriteBackEffect DEF IInv
  <2>2. UNCHANGED <<active, tlbs>>
    BY <1>5 DEF write_back
  <2> DEFINE n == here'
  <2>3. Forest(n) /\ Kept(here, n)
    BY <2>1
  <2>4. here' = n
    OBVIOUS
  <2> HIDE DEF n
  <2>5. Safe(n, active, l1_dtlb) /\ Safe(n, active, l2_dtlb) /\ Safe(n, active, itlb)
    BY <2>3, SafeKept DEF IInv
  <2>6. QED
    BY <1>1, <2>2, <2>3, <2>4, <2>5, InvariantAfter DEF tlbs
<1>6. ASSUME UNCHANGED vars PROVE IInv'
  <2>1. here' = here
    BY <1>6 DEF vars, memory, here
  <2>2. QED
    BY <1>1, <1>6, <2>1, InvariantAfter DEF IInv, vars, tlbs
<1>7. QED
  BY <1>2, <1>3, <1>4, <1>5, <1>6 DEF Next

LEMMA IInvAlways == ASSUME LowerHalf PROVE Spec => []IInv
PROOF
<1>1. Init => IInv
  BY InitIInv
<1>2. IInv /\ [Next]_vars => IInv'
  BY NextIInv
<1>3. QED
  BY <1>1, <1>2, PTL DEF Spec

\* While programs stay in the lower halves of their tables, no frame of
\* alloc_frame is ever used twice: not as two tables or pages, of one process
\* or two, and not while it is on the free list, for every number of frames,
\* and through every alloc_and_map that fails half way.
THEOREM AllocatedFramesExclusive == ASSUME LowerHalf PROVE Spec => []FramesExclusive
PROOF
<1>1. IInv => FramesExclusive
  <2>1. SUFFICES ASSUME IInv PROVE FramesExclusive
    OBVIOUS
  <2> DEFINE to == [p \in Procs |-> [v \in Pages |-> [level \in 0 .. 3 |-> frame_at(p, v, level)]]]
  <2>2. \A p \in Procs, v \in Pages, level \in 0 .. 3 :
          to[p][v][level] \in {at(here, p, v, level), NoFrame}
    BY <2>1, WalkHere, FrameOfForest DEF IInv
  <2> HIDE DEF to
  <2>3. Forest(here) /\ here.free_list = free_list /\ here.watermark = watermark
    BY <2>1 DEF IInv, here
  <2>4. ASSUME NEW p \in Procs, NEW v \in Pages, NEW level \in 0 .. 3, to[p][v][level] # NoFrame,
               NEW q \in Procs, NEW u \in Pages, NEW other \in 0 .. 3,
               to[q][u][other] = to[p][v][level]
        PROVE  p = q /\ level = other /\ \A up \in level .. 3 : index[v][up] = index[u][up]
    <3>1. at(here, p, v, level) = at(here, q, u, other) /\ at(here, p, v, level) # NoFrame
      BY <2>2, <2>4
    <3>2. QED
      BY <2>3, <3>1 DEF Forest, NamedOnce, Same
  <2>5. ASSUME NEW p \in Procs, NEW v \in Pages, NEW level \in 0 .. 3, to[p][v][level] # NoFrame,
               NEW n \in DOMAIN free_list
        PROVE  free_list[n] # to[p][v][level]
    <3>1. to[p][v][level] = at(here, p, v, level) /\ at(here, p, v, level) # NoFrame
      BY <2>2, <2>5
    <3>2. ~Listed(here, at(here, p, v, level))
      BY <2>3, <3>1 DEF Forest, NamedInUse, InUse
    <3>3. QED
      BY <2>3, <3>1, <3>2 DEF Listed
  <2>6. ASSUME NEW n \in DOMAIN free_list
        PROVE  /\ free_list[n] < watermark
               /\ \A m \in DOMAIN free_list : m # n => free_list[m] # free_list[n]
    <3>1. watermark \in Nat
      BY <2>1, Geometry DEF IInv, TypeOK
    <3>2. QED
      BY <2>3, <3>1 DEF Forest, FreeListOK
  <2>7. QED
    BY <2>4, <2>5, <2>6 DEF FramesExclusive, to
<1>2. QED
  BY <1>1, IInvAlways, PTL

\* Whatever was mapped, evicted, switched or written in between, a TLB never
\* gives the active process a frame of another one, nor a page table.
THEOREM TranslationsPrivate == ASSUME LowerHalf PROVE Spec => []TranslationsStayInProcess
PROOF
<1>1. IInv => TranslationsStayInProcess
  <2>1. SUFFICES ASSUME IInv, NEW f, f # NoFrame, Belongs(here, active, f),
                        NEW q \in Procs, NEW u \in Pages, NEW level \in 0 .. 3,
                        q # active \/ level # 0
                 PROVE  frame_at(q, u, level) # f
    BY DEF TranslationsStayInProcess, IInv, Safe
  <2>2. frame_at(q, u, level) \in {at(here, q, u, level), NoFrame}
    BY <2>1, WalkHere, FrameOfForest DEF IInv
  <2>3. at(here, q, u, level) # f
    BY <2>1 DEF Belongs
  <2>4. QED
    BY <2>1, <2>2, <2>3
<1>2. QED
  BY <1>1, IInvAlways, PTL

(***************************************************************************)
(* The private mapping.  Where no two pages have the same index at every   *)
(* level, the frames the tables name for the pages are a mapping that only *)
(* alloc_and_map changes.  A walk finds the frame of its page unless it    *)
(* passes a table in the last frame, and a TLB entry is what a walk finds  *)
(* or one of the frames its page had since the switch.                     *)
(***************************************************************************)
\* What map_page adds to the pages that are cut off.
LEMMA CutGrown ==
  ASSUME NEW m, NEW n, NEW p \in Procs, NEW v \in Pages, Grown(m, n, p, v),
         NEW q \in Procs, NEW u \in Pages
  PROVE  /\ Cut(m, q, u) => Cut(n, q, u)
         /\ Cut(n, q, u) /\ ~Cut(m, q, u) =>
              /\ q = p /\ at(m, q, u, 0) = NoFrame /\ Cut(n, p, v)
              /\ \E k \in 1 .. 3 : at(n, p, v, k) = size - 1 /\ at(m, p, v, k) = NoFrame
PROOF
<1>1. ASSUME Cut(m, q, u) PROVE Cut(n, q, u)
  BY <1>1 DEF Cut, Grown
<1>2. ASSUME Cut(n, q, u), ~Cut(m, q, u)
      PROVE  /\ q = p /\ at(m, q, u, 0) = NoFrame /\ Cut(n, p, v)
             /\ \E k \in 1 .. 3 : at(n, p, v, k) = size - 1 /\ at(m, p, v, k) = NoFrame
  <2>1. PICK k \in 1 .. 3 : at(n, q, u, k) = size - 1 /\ at(n, q, u, k) # NoFrame
    BY <1>2 DEF Cut
  <2>2. at(n, q, u, k) # at(m, q, u, k)
    BY <1>2, <2>1 DEF Cut
  <2>3. q = p /\ at(m, q, u, k) = NoFrame /\ Same(u, v, k)
    BY <2>2 DEF Grown
  <2>4. k \in 0 .. 3 /\ 0 \in 0 .. k
    OBVIOUS
  <2>5. at(m, q, u, 0) = NoFrame
    BY <2>3, <2>4, NothingBelow
  <2>6. at(n, p, v, k) = at(n, p, u, k) /\ at(m, p, v, k) = at(m, p, u, k)
    BY <2>3, <2>4, AtSame
  <2>7. Cut(n, p, v)
    BY <2>1, <2>3, <2>6 DEF Cut
  <2>8. QED
    BY <2>1, <2>3, <2>5, <2>6, <2>7
<1>3. QED
  BY <1>1, <1>2

\* Only the last frame cuts pages off, so only one table does.
LEMMA CutOnce ==
  ASSUME NEW m \in Memories, Forest(m), NEW n \in Memories, Forest(n), Kept(m, n),
         NEW p \in Procs, NEW v \in Pages, Grown(m, n, p, v),
         NEW q \in Procs, NEW u \in Pages, Cut(n, q, u), ~Cut(m, q, u)
  PROVE  /\ ~(limit < size)
         /\ \A r \in Procs, w \in Pages : ~Cut(m, r, w)
PROOF
<1>1. PICK k \in 1 .. 3 : at(n, p, v, k) = size - 1 /\ at(m, p, v, k) = NoFrame
  BY CutGrown
<1>2. ASSUME limit < size PROVE FALSE
  <2>1. PICK j \in 1 .. 3 : at(n, q, u, j) = size - 1 /\ at(n, q, u, j) # NoFrame
    BY DEF Cut
  <2>2. j \in 0 .. 3
    OBVIOUS
  <2>3. size - 1 \in 1 .. n.watermark - 1
    BY <2>1, <2>2 DEF Forest, NamedInUse, InUse
  <2>4. n.watermark \in 1 .. limit
    BY DEF Memories
  <2>5. QED
    BY <1>2, <2>3, <2>4, Geometry
<1>3. ASSUME NEW r \in Procs, NEW w \in Pages, Cut(m, r, w) PROVE FALSE
  <2>1. PICK j \in 1 .. 3 : at(m, r, w, j) = size - 1 /\ at(m, r, w, j) # NoFrame
    BY <1>3 DEF Cut
  <2>2. j \in 0 .. 3 /\ k \in 0 .. 3
    OBVIOUS
  <2>3. InUse(m, size - 1) /\ size - 1 # NoFrame
    BY <2>1, <2>2 DEF Forest, NamedInUse
  <2>4. at(m, p, v, k) = size - 1
    BY <1>1, <2>2, <2>3 DEF Kept
  <2>5. QED
    BY <1>1, <2>3, <2>4
<1>4. QED
  BY <1>2, <1>3

\* A page whose frame stays is found where it was, or was not mapped.
LEMMA SeenGrown ==
  ASSUME NEW m, NEW n, NEW p \in Procs, NEW v \in Pages, Grown(m, n, p, v),
         NEW q \in Procs, NEW u \in Pages, at(n, q, u, 0) = at(m, q, u, 0)
  PROVE  seen(m, q, u) = NoFrame \/ seen(n, q, u) = seen(m, q, u)
BY CutGrown DEF seen

LEMMA SeenSame ==
  ASSUME NEW m, NEW n, SameWalks(m, n), NEW p \in Procs, NEW v \in Pages
  PROVE  (Cut(n, p, v) <=> Cut(m, p, v)) /\ seen(n, p, v) = seen(m, p, v)
PROOF
<1>1. \A k \in 1 .. 3 : at(n, p, v, k) = at(m, p, v, k)
  BY DEF SameWalks
<1>2. at(n, p, v, 0) = at(m, p, v, 0)
  BY DEF SameWalks
<1>3. Cut(n, p, v) <=> Cut(m, p, v)
  BY <1>1 DEF Cut
<1>4. QED
  BY <1>2, <1>3 DEF seen

Found(m, a, s, v, f) == f = NoFrame \/ f = seen(m, a, v) \/ f \in s[v]
Fresh(m, a, s, tlb) == \A c \in Cores, v \in Pages : Found(m, a, s, v, tlb[c][v])
StaleInUse(m, s) == s \in [Pages -> SUBSET Frames] /\ \A v \in Pages : \A f \in s[v] : InUse(m, f)

StaleInv ==
  /\ StaleInUse(here, stale)
  /\ Fresh(here, active, stale, l1_dtlb) /\ Fresh(here, active, stale, l2_dtlb)
  /\ Fresh(here, active, stale, itlb)

\* The walks of the source and the frames named in its tables.
WalksAreMapping ==
  \A p \in Procs, v \in Pages :
    /\ page_walk(p, v) = seen(here, p, v)
    /\ \A level \in 0 .. 3 : named(p, v)[level + 1] = at(here, p, v, level)

RInv == IInv /\ StaleInv /\ WalksAreMapping

LEMMA Walks ==
  ASSUME LowerHalf, IInv
  PROVE  WalksAreMapping
BY WalkHere, WalkOfForest, NamedHere, HereTyped DEF IInv, WalksAreMapping

LEMMA StaleAfter ==
  ASSUME NEW m, here' = m, StaleInUse(m, stale'), Fresh(m, active', stale', l1_dtlb'),
         Fresh(m, active', stale', l2_dtlb'), Fresh(m, active', stale', itlb')
  PROVE  StaleInv'
PROOF
<1>1. StaleInUse(here', stale') /\ Fresh(here', active', stale', l1_dtlb')
      /\ Fresh(here', active', stale', l2_dtlb') /\ Fresh(here', active', stale', itlb')
  OBVIOUS
<1>2. QED
  BY <1>1 DEF StaleInv

LEMMA InitStale == ASSUME Init PROVE StaleInv
PROOF
<1>1. stale \in [Pages -> SUBSET Frames] /\ \A v \in Pages : stale[v] = {}
  BY DEF Init, NoneStale
<1>2. Fresh(here, active, stale, l1_dtlb) /\ Fresh(here, active, stale, l2_dtlb)
      /\ Fresh(here, active, stale, itlb)
  BY DEF Init, Fresh, Found, NoTLB
<1>3. QED
  BY <1>1, <1>2 DEF StaleInv, StaleInUse

\* What a page loses by being mapped again is what lost adds.
LEMMA LostFrames ==
  ASSUME StaleInUse(here, stale), WalksAreMapping, NEW p \in Procs, NEW v \in Pages
  PROVE  LET old == seen(here, p, v)
         IN  /\ p # active => lost(p, v) = stale
             /\ p = active =>
                  \A u \in Pages : lost(p, v)[u] =
                    IF u = v THEN stale[v] \cup ({old} \ {NoFrame}) ELSE stale[u]
             /\ DOMAIN lost(p, v) = Pages
             /\ lost(p, v) = [u \in Pages |-> lost(p, v)[u]]
PROOF
<1>1. lost(p, v) = IF p = active
                     THEN [stale EXCEPT ![v] = @ \cup ({seen(here, p, v)} \ {NoFrame})] ELSE stale
  BY DEF lost, WalksAreMapping
<1>2. stale \in [Pages -> SUBSET Frames]
  BY DEF StaleInUse
<1>3. QED
  BY <1>1, <1>2

LEMMA AllocStale ==
  ASSUME LowerHalf, Distinct, IInv, StaleInv, WalksAreMapping,
         NEW p \in Procs, NEW v \in Pages, alloc_and_map(p, v)
  PROVE  StaleInv'
PROOF
<1>1. PICK n \in Memories : become(n) /\ AllocResult(here, n, p, v)
  BY AllocEffect DEF IInv
<1>2. UNCHANGED <<active, tlbs>> /\ active \in Procs /\ here \in Memories
  BY HereTyped DEF alloc_and_map, IInv, TypeOK
<1>3. here' = n
  BY <1>1, Become
<1>4. StaleInUse(n, stale')
      /\ \A tlb : Fresh(here, active, stale, tlb) => Fresh(n, active, stale', tlb)
  <2>1. CASE n = here /\ stale' = stale
    BY <2>1 DEF StaleInv
  <2>2. CASE /\ Kept(here, n) /\ SamePages(here, n) /\ Grown(here, n, p, v)
             /\ stale' = stale
    <3>1. StaleInUse(n, stale)
      BY <2>2 DEF StaleInv, StaleInUse, Kept
    <3>2. ASSUME NEW u \in Pages, NEW f, Found(here, active, stale, u, f)
          PROVE  Found(n, active, stale, u, f)
      <4>1. at(n, active, u, 0) = at(here, active, u, 0)
        BY <1>2, <2>2 DEF SamePages
      <4>2. seen(here, active, u) = NoFrame \/ seen(n, active, u) = seen(here, active, u)
        BY <1>2, <2>2, <4>1, SeenGrown
      <4>3. QED
        BY <3>2, <4>2 DEF Found
    <3>3. QED
      BY <2>2, <3>1, <3>2 DEF Fresh
  <2>3. ASSUME NEW f \in Frames, Mapped(here, n, p, v, f), stale' = lost(p, v)
        PROVE  /\ StaleInUse(n, stale')
               /\ \A tlb : Fresh(here, active, stale, tlb) => Fresh(n, active, stale', tlb)
    <3> DEFINE old == seen(here, p, v)
               s == lost(p, v)
    <3>1. /\ p # active => s = stale
          /\ p = active => \A u \in Pages :
               s[u] = IF u = v THEN stale[v] \cup ({old} \ {NoFrame}) ELSE stale[u]
          /\ DOMAIN s = Pages
          /\ s = [u \in Pages |-> s[u]]
      BY LostFrames DEF StaleInv
    <3>2. old \in Entries /\ (old # NoFrame => old \in Frames /\ InUse(here, old))
      <4>1. old \in Entries /\ (old # NoFrame => old = at(here, p, v, 0))
        BY <1>2, AtTyped, Geometry DEF seen
      <4>2. old # NoFrame => old \in Frames
        BY <4>1, Geometry DEF Entries, Frames, NoFrame
      <4>3. QED
        BY <4>1, <4>2 DEF IInv, Forest, NamedInUse
    <3>3. stale' = s
      BY <2>3
    <3> HIDE DEF s
    <3>4. stale \in [Pages -> SUBSET Frames] /\ \A u \in Pages : \A g \in stale[u] : InUse(here, g)
      BY DEF StaleInv, StaleInUse
    <3>5. \A u \in Pages : stale[u] \subseteq s[u]
                           /\ \A g \in s[u] : g \in Frames /\ InUse(here, g)
      BY <3>1, <3>2, <3>4
    <3>6. StaleInUse(n, s)
      <4>1. s \in [Pages -> SUBSET Frames]
        BY <3>1, <3>5
      <4>2. QED
        BY <2>3, <3>5, <4>1 DEF StaleInUse, Mapped, Kept
    <3>7. ASSUME NEW u \in Pages, NEW g, Found(here, active, stale, u, g)
          PROVE  Found(n, active, s, u, g)
      <4>1. at(n, active, u, 0) = IF active = p /\ Same(u, v, 0) THEN f ELSE at(here, active, u, 0)
        BY <1>2, <2>3 DEF Mapped
      <4>2. CASE active = p /\ Same(u, v, 0)
        <5>1. u = v
          BY <4>2 DEF Distinct, Same
        <5>2. s[v] = stale[v] \cup ({old} \ {NoFrame})
          BY <3>1, <4>2
        <5>3. QED
          BY <3>7, <4>2, <5>1, <5>2 DEF Found
      <4>3. CASE ~(active = p /\ Same(u, v, 0))
        <5>1. at(n, active, u, 0) = at(here, active, u, 0) /\ Grown(here, n, p, v)
          BY <2>3, <4>1, <4>3 DEF Mapped
        <5>2. seen(here, active, u) = NoFrame \/ seen(n, active, u) = seen(here, active, u)
          BY <1>2, <5>1, SeenGrown
        <5>3. QED
          BY <3>5, <3>7, <5>2 DEF Found
      <4>4. QED
        BY <4>2, <4>3
    <3>8. QED
      BY <3>3, <3>6, <3>7 DEF Fresh
  <2>4. QED
    BY <1>1, <2>1, <2>2, <2>3 DEF AllocResult
<1>5. Fresh(n, active', stale', l1_dtlb') /\ Fresh(n, active', stale', l2_dtlb')
      /\ Fresh(n, active', stale', itlb')
  BY <1>2, <1>4 DEF StaleInv, tlbs
<1>6. QED
  BY <1>3, <1>4, <1>5, StaleAfter

LEMMA SwitchStale ==
  ASSUME NEW p \in Procs, process_switch(p)
  PROVE  StaleInv'
PROOF
<1> DEFINE m == here'
<1>1. stale' \in [Pages -> SUBSET Frames] /\ \A v \in Pages : stale'[v] = {}
  BY DEF process_switch, NoneStale
<1> HIDE DEF m
<1>2. Fresh(m, active', stale', l1_dtlb') /\ Fresh(m, active', stale', l2_dtlb')
      /\ Fresh(m, active', stale', itlb')
  BY DEF process_switch, Fresh, Found, NoTLB
<1>3. StaleInUse(m, stale')
  BY <1>1 DEF StaleInUse
<1>4. here' = m
  BY DEF m
<1>5. QED
  BY <1>2, <1>3, <1>4, StaleAfter

LEMMA FillFound ==
  ASSUME NEW m, NEW a, NEW s, NEW row \in [Pages -> Entries],
         \A u \in Pages : Found(m, a, s, u, row[u]),
         NEW v \in Pages, NEW f \in Entries, Found(m, a, s, v, f),
         NEW sets, NEW t \in tlb_fill(row, sets, v, f)
  PROVE  \A u \in Pages : Found(m, a, s, u, t[u])
PROOF
<1>1. \A u \in Pages : t[u] = row[u] \/ t[u] = NoFrame \/ (u = v /\ t[u] = f)
  <2> DEFINE filled == [row EXCEPT ![v] = f]
  <2>1. t = filled \/ \E u \in Pages : t = [filled EXCEPT ![u] = NoFrame]
    BY DEF tlb_fill
  <2>2. QED
    BY <2>1
<1>2. QED
  BY <1>1 DEF Found

LEMMA FillFresh ==
  ASSUME NEW m, NEW a, NEW s, NEW tlb \in [Cores -> [Pages -> Entries]], Fresh(m, a, s, tlb),
         NEW c \in Cores, NEW v \in Pages, NEW f \in Entries, Found(m, a, s, v, f),
         NEW sets, NEW new, \E t \in tlb_fill(tlb[c], sets, v, f) : new = [tlb EXCEPT ![c] = t]
  PROVE  Fresh(m, a, s, new)
PROOF
<1>1. PICK t \in tlb_fill(tlb[c], sets, v, f) : new = [tlb EXCEPT ![c] = t]
  OBVIOUS
<1>2. tlb[c] \in [Pages -> Entries] /\ \A u \in Pages : Found(m, a, s, u, tlb[c][u])
  BY DEF Fresh
<1>3. t \in tlb_fill(tlb[c], sets, v, f)
  BY <1>1
<1>4. \A u \in Pages : Found(m, a, s, u, t[u])
  BY <1>2, <1>3, FillFound, Zenon
<1>5. QED
  BY <1>1, <1>4 DEF Fresh

LEMMA TranslateStale ==
  ASSUME IInv, StaleInv, WalksAreMapping, NEW c \in Cores, NEW v \in Pages,
         translate_data(c, v) \/ translate_fetch(c, v)
  PROVE  StaleInv'
PROOF
<1> DEFINE f == page_walk(active, v)
           g == l2_dtlb[c][v]
<1>1. UNCHANGED <<active, stale>> /\ here' = here
  BY DEF translate_data, translate_fetch, memory, here
<1>2. /\ l1_dtlb \in [Cores -> [Pages -> Entries]]
      /\ l2_dtlb \in [Cores -> [Pages -> Entries]]
      /\ itlb \in [Cores -> [Pages -> Entries]]
      /\ StaleInUse(here, stale)
      /\ Fresh(here, active, stale, l1_dtlb) /\ Fresh(here, active, stale, l2_dtlb)
      /\ Fresh(here, active, stale, itlb)
  BY DEF IInv, TypeOK, StaleInv
<1>3. f \in Entries /\ Found(here, active, stale, v, f)
  BY WalkTyped DEF IInv, TypeOK, WalksAreMapping, Found
<1>4. g \in Entries /\ Found(here, active, stale, v, g)
  BY <1>2 DEF Fresh
<1>5. /\ \/ l1_dtlb' = l1_dtlb
         \/ \E t \in tlb_fill(l1_dtlb[c], L1_DTLB_SETS, v, g) : l1_dtlb' = [l1_dtlb EXCEPT ![c] = t]
         \/ \E t \in tlb_fill(l1_dtlb[c], L1_DTLB_SETS, v, f) : l1_dtlb' = [l1_dtlb EXCEPT ![c] = t]
      /\ \/ l2_dtlb' = l2_dtlb
         \/ \E t \in tlb_fill(l2_dtlb[c], L2_DTLB_SETS, v, f) : l2_dtlb' = [l2_dtlb EXCEPT ![c] = t]
      /\ \/ itlb' = itlb
         \/ \E t \in tlb_fill(itlb[c], ITLB_SETS, v, f) : itlb' = [itlb EXCEPT ![c] = t]
  BY DEF translate_data, translate_fetch
<1> HIDE DEF f, g
<1>6. Fresh(here, active, stale, l1_dtlb')
  BY <1>2, <1>3, <1>4, <1>5, FillFresh
<1>7. Fresh(here, active, stale, l2_dtlb')
  BY <1>2, <1>3, <1>5, FillFresh
<1>8. Fresh(here, active, stale, itlb')
  BY <1>2, <1>3, <1>5, FillFresh
<1>9. QED
  BY <1>1, <1>2, <1>6, <1>7, <1>8, StaleAfter

LEMMA WriteBackStale ==
  ASSUME LowerHalf, IInv, StaleInv, TypeOK', NEW p \in Procs, NEW v \in Pages, NEW e \in Stored,
         write_back(p, v, e)
  PROVE  StaleInv' /\ SameWalks(here, here')
PROOF
<1> DEFINE n == here'
<1>1. Kept(here, n) /\ SameWalks(here, n)
  BY WriteBackEffect DEF IInv
<1>2. UNCHANGED <<active, tlbs, stale>> /\ active \in Procs
  BY DEF write_back, IInv, TypeOK
<1>3. here' = n
  OBVIOUS
<1> HIDE DEF n
<1>4. StaleInUse(n, stale)
  BY <1>1 DEF StaleInv, StaleInUse, Kept
<1>5. \A u \in Pages : \A f : Found(here, active, stale, u, f) => Found(n, active, stale, u, f)
  BY <1>1, <1>2, SeenSame DEF Found
<1>6. Fresh(n, active, stale, l1_dtlb) /\ Fresh(n, active, stale, l2_dtlb)
      /\ Fresh(n, active, stale, itlb)
  BY <1>5 DEF StaleInv, Fresh
<1>7. StaleInv'
  BY <1>2, <1>3, <1>4, <1>6, StaleAfter DEF tlbs
<1>8. QED
  BY <1>1, <1>3, <1>7

LEMMA NextStale ==
  ASSUME LowerHalf, Distinct, IInv, StaleInv, WalksAreMapping, [Next]_vars
  PROVE  StaleInv'
PROOF
<1>1. ASSUME NEW p \in Procs, NEW v \in Pages, alloc_and_map(p, v) PROVE StaleInv'
  BY <1>1, AllocStale
<1>2. ASSUME NEW p \in Procs, process_switch(p) PROVE StaleInv'
  BY <1>2, SwitchStale
<1>3. ASSUME NEW c \in Cores, NEW v \in Pages, translate_data(c, v) \/ translate_fetch(c, v)
      PROVE  StaleInv'
  BY <1>3, TranslateStale
<1>4. ASSUME NEW p \in Procs, NEW v \in Pages, NEW e \in Stored, write_back(p, v, e)
      PROVE  StaleInv'
  <2>1. TypeOK'
    BY NextTyped DEF IInv
  <2>2. QED
    BY <1>4, <2>1, WriteBackStale
<1>5. ASSUME UNCHANGED vars PROVE StaleInv'
  <2>1. here' = here
    BY <1>5 DEF vars, memory, here
  <2>2. QED
    BY <1>5, <2>1, StaleAfter DEF StaleInv, vars, tlbs
<1>6. QED
  BY <1>1, <1>2, <1>3, <1>4, <1>5 DEF Next

LEMMA RInvAlways == ASSUME LowerHalf, Distinct PROVE Spec => []RInv
PROOF
<1>1. Init => IInv /\ StaleInv
  BY InitIInv, InitStale
<1>2. IInv => WalksAreMapping
  BY Walks
<1>3. IInv /\ StaleInv /\ WalksAreMapping /\ [Next]_vars => IInv' /\ StaleInv'
  BY NextIInv, NextStale
<1>4. QED
  BY <1>1, <1>2, <1>3, PTL DEF Spec, RInv

(***************************************************************************)
(* Every step is a step of VirtualMemory.                                  *)
(***************************************************************************)
mapping == [p \in Procs |-> [v \in Pages |-> named(p, v)[1]]]
cut_off == {a \in Procs \X Pages : beyond(a[1], a[2])}

Cuts(m) == {a \in Procs \X Pages : Cut(m, a[1], a[2])}

LEMMA MappingIs ==
  ASSUME WalksAreMapping
  PROVE  /\ mapping = [p \in Procs |-> [v \in Pages |-> at(here, p, v, 0)]]
         /\ cut_off = Cuts(here)
         /\ \A p \in Procs, v \in Pages : Abstract!found(p, v) = seen(here, p, v)
PROOF
<1>1. ASSUME NEW p \in Procs, NEW v \in Pages
      PROVE  named(p, v)[1] = at(here, p, v, 0) /\ (beyond(p, v) <=> Cut(here, p, v))
  <2>1. \A level \in 0 .. 3 : named(p, v)[level + 1] = at(here, p, v, level)
    BY DEF WalksAreMapping
  <2>2. \A level \in 1 .. 3 : named(p, v)[level + 1] = at(here, p, v, level)
    BY <2>1
  <2>3. named(p, v)[0 + 1] = at(here, p, v, 0) /\ 0 + 1 = 1
    BY <2>1
  <2>4. QED
    BY <2>2, <2>3 DEF beyond, Cut
<1>2. mapping = [p \in Procs |-> [v \in Pages |-> at(here, p, v, 0)]]
  BY <1>1 DEF mapping
<1>3. cut_off = Cuts(here)
  BY <1>1 DEF cut_off, Cuts
<1>4. ASSUME NEW p \in Procs, NEW v \in Pages PROVE Abstract!found(p, v) = seen(here, p, v)
  <2>1. Abstract!found(p, v) = IF <<p, v>> \in cut_off THEN NoFrame ELSE mapping[p][v]
    BY DEF Abstract!found, cut_off, mapping
  <2>2. <<p, v>> \in cut_off <=> Cut(here, p, v)
    BY <1>3 DEF Cuts
  <2>3. QED
    BY <1>2, <2>1, <2>2 DEF seen
<1>5. QED
  BY <1>2, <1>3, <1>4

LEMMA MappingBecomes ==
  ASSUME WalksAreMapping', NEW n, here' = n
  PROVE  /\ mapping' = [p \in Procs |-> [v \in Pages |-> at(n, p, v, 0)]]
         /\ cut_off' = Cuts(n)
PROOF
<1>1. ASSUME NEW p \in Procs, NEW v \in Pages
      PROVE  named(p, v)[1]' = at(n, p, v, 0) /\ (beyond(p, v)' <=> Cut(n, p, v))
  <2>1. \A level \in 0 .. 3 : (named(p, v)')[level + 1] = at(n, p, v, level)
    BY DEF WalksAreMapping
  <2>2. \A level \in 1 .. 3 : (named(p, v)')[level + 1] = at(n, p, v, level)
    BY <2>1
  <2>3. (named(p, v)')[0 + 1] = at(n, p, v, 0) /\ 0 + 1 = 1
    BY <2>1
  <2>4. QED
    BY <2>2, <2>3 DEF beyond, Cut
<1>2. mapping' = [p \in Procs |-> [v \in Pages |-> at(n, p, v, 0)]]
  BY <1>1 DEF mapping
<1>3. cut_off' = Cuts(n)
  BY <1>1 DEF cut_off, Cuts
<1>4. QED
  BY <1>2, <1>3

\* A step that leaves all walks leaves the mapping and what is cut off.
LEMMA MappingStays ==
  ASSUME WalksAreMapping, WalksAreMapping', NEW n, here' = n, SameWalks(here, n)
  PROVE  mapping' = mapping /\ cut_off' = cut_off
PROOF
<1>1. \A p \in Procs, v \in Pages : at(n, p, v, 0) = at(here, p, v, 0)
  BY DEF SameWalks
<1>2. Cuts(n) = Cuts(here)
  BY SeenSame DEF Cuts
<1>3. QED
  BY <1>1, <1>2, MappingIs, MappingBecomes

\* What mapping a page does to the pages that are cut off.
LEMMA CutStep ==
  ASSUME RInv, WalksAreMapping', NEW p \in Procs, NEW v \in Pages,
         NEW n \in Memories, here' = n, Forest(n), Kept(here, n), Grown(here, n, p, v)
  PROVE  cut_off' = cut_off \/ Abstract!CutOff(p, v)
PROOF
<1>1. /\ here \in Memories /\ Forest(here)
      /\ cut_off = Cuts(here) /\ cut_off' = Cuts(n)
      /\ \A u \in Pages : mapping[p][u] = at(here, p, u, 0)
  BY HereTyped, MappingIs, MappingBecomes DEF RInv, IInv
<1>2. CASE \A q \in Procs, u \in Pages : Cut(n, q, u) => Cut(here, q, u)
  <2>1. \A q \in Procs, u \in Pages : Cut(n, q, u) <=> Cut(here, q, u)
    BY <1>2, CutGrown
  <2>2. QED
    BY <1>1, <2>1 DEF Cuts
<1>3. ASSUME NEW q \in Procs, NEW u \in Pages, Cut(n, q, u), ~Cut(here, q, u)
      PROVE  Abstract!CutOff(p, v)
  <2>1. ~(limit < size) /\ \A r \in Procs, w \in Pages : ~Cut(here, r, w)
    BY <1>1, <1>3, CutOnce
  <2> DEFINE S == {w \in Pages : Cut(n, p, w)}
  <2>2. v \in S
    BY <1>3, CutGrown
  <2>3. \A r \in Procs, w \in Pages : Cut(n, r, w) => r = p /\ at(here, p, w, 0) = NoFrame
    BY <2>1, CutGrown
  <2>4. S \in SUBSET {w \in Pages : mapping[p][w] = NoFrame}
    BY <1>1, <2>3
  <2>5. cut_off' = {p} \X S
    BY <1>1, <2>3 DEF Cuts
  <2>6. cut_off = {}
    BY <1>1, <2>1 DEF Cuts
  <2> HIDE DEF S
  <2>7. \E T \in SUBSET {w \in Pages : mapping[p][w] = NoFrame} : v \in T /\ cut_off' = {p} \X T
    BY <2>2, <2>4, <2>5
  <2>8. QED
    BY <2>1, <2>6, <2>7 DEF Abstract!CutOff, mapping, cut_off
<1>4. QED
  BY <1>2, <1>3

LEMMA MapStep ==
  ASSUME LowerHalf, Distinct, RInv, WalksAreMapping', NEW p \in Procs, NEW v \in Pages,
         alloc_and_map(p, v)
  PROVE  Abstract!Map(p, v)
PROOF
<1> DEFINE used == {mapping[q][u] : q \in Procs, u \in Pages} \cup UNION {stale[u] : u \in Pages}
<1>1. PICK n \in Memories : become(n) /\ AllocResult(here, n, p, v)
  BY AllocEffect DEF RInv, IInv
<1>2. here' = n /\ active' = active
  BY <1>1, Become DEF alloc_and_map
<1>3. /\ mapping = [q \in Procs |-> [u \in Pages |-> at(here, q, u, 0)]]
      /\ mapping' = [q \in Procs |-> [u \in Pages |-> at(n, q, u, 0)]]
  BY <1>2, MappingIs, MappingBecomes DEF RInv
<1>4. cut_off' = cut_off \/ Abstract!CutOff(p, v)
  <2>1. Forest(n) /\ Kept(here, n) /\ Grown(here, n, p, v)
    <3>1. Forest(here) /\ Kept(here, here) /\ Grown(here, here, p, v)
      BY DEF RInv, IInv, Kept, Grown
    <3>2. QED
      BY <1>1, <3>1 DEF AllocResult, Mapped
  <2>2. QED
    BY <1>2, <2>1, CutStep
<1>5. CASE (n = here \/ SamePages(here, n)) /\ answer' = <<p, v, NoFrame>> /\ stale' = stale
  <2>1. \A q \in Procs, u \in Pages : at(n, q, u, 0) = at(here, q, u, 0)
    BY <1>5 DEF SamePages
  <2>2. mapping' = mapping
    BY <1>3, <2>1
  <2>3. QED
    BY <1>2, <1>4, <1>5, <2>2 DEF Abstract!Map, mapping, cut_off
<1>6. ASSUME NEW f \in Frames, ~InUse(here, f), Mapped(here, n, p, v, f),
             answer' = <<p, v, f>>, stale' = lost(p, v)
      PROVE  Abstract!Map(p, v)
  <2>1. f \notin used
    <3>1. \A q \in Procs, u \in Pages : mapping[q][u] # f
      <4>1. \A q \in Procs, u \in Pages : at(here, q, u, 0) # f
        BY <1>6 DEF RInv, IInv, Forest, NamedInUse, Frames, NoFrame
      <4>2. QED
        BY <1>3, <4>1
    <3>2. \A u \in Pages : f \notin stale[u]
      BY <1>6 DEF RInv, StaleInv, StaleInUse
    <3>3. QED
      BY <3>1, <3>2
  <2>2. mapping' = [mapping EXCEPT ![p][v] = f]
    <3>1. \A q \in Procs, u \in Pages :
            at(n, q, u, 0) = IF q = p /\ u = v THEN f ELSE at(here, q, u, 0)
      BY <1>6 DEF Mapped, Distinct, Same
    <3>2. QED
      BY <1>3, <3>1
  <2>3. Abstract!found(p, v) = page_walk(p, v)
    BY MappingIs DEF RInv, WalksAreMapping
  <2>4. stale' = IF p = active
                   THEN [stale EXCEPT ![v] = @ \cup ({Abstract!found(p, v)} \ {NoFrame})]
                   ELSE stale
    BY <1>6, <2>3 DEF lost
  <2>5. f \notin Abstract!used
    BY <2>1 DEF Abstract!used, mapping
  <2>6. QED
    BY <1>2, <1>4, <1>6, <2>2, <2>4, <2>5 DEF Abstract!Map, mapping, cut_off
<1>7. QED
  BY <1>1, <1>2, <1>5, <1>6 DEF AllocResult

LEMMA AccessStep ==
  ASSUME RInv, WalksAreMapping', NEW c \in Cores, NEW v \in Pages,
         translate_data(c, v) \/ translate_fetch(c, v)
  PROVE  Abstract!Access(v)
PROOF
<1>1. UNCHANGED <<active, stale>> /\ here' = here
  BY DEF translate_data, translate_fetch, memory, here
<1>2. mapping' = mapping /\ cut_off' = cut_off
  BY <1>1, MappingIs, MappingBecomes DEF RInv
<1>3. active \in Procs /\ Abstract!found(active, v) = page_walk(active, v)
      /\ page_walk(active, v) = seen(here, active, v)
  BY MappingIs DEF RInv, IInv, TypeOK, WalksAreMapping
<1>4. \A f \in {l1_dtlb[c][v], l2_dtlb[c][v], itlb[c][v]} :
        f # NoFrame => f \in {Abstract!found(active, v)} \cup stale[v]
  BY <1>3 DEF RInv, StaleInv, Fresh, Found
<1>5. \E f \in {Abstract!found(active, v)} \cup stale[v] : answer' = <<v, f>>
  BY <1>3, <1>4 DEF translate_data, translate_fetch
<1>6. QED
  BY <1>1, <1>2, <1>5 DEF Abstract!Access, mapping, cut_off

LEMMA AbstractStep ==
  ASSUME LowerHalf, Distinct, RInv, WalksAreMapping', [Next]_vars
  PROVE  [Abstract!Next]_Abstract!vars
PROOF
<1>1. ASSUME NEW p \in Procs, NEW v \in Pages, alloc_and_map(p, v) PROVE Abstract!Next
  BY <1>1, MapStep DEF Abstract!Next
<1>2. ASSUME NEW p \in Procs, process_switch(p) PROVE Abstract!Next
  <2>1. here' = here
    BY <1>2 DEF process_switch, memory, here
  <2>2. mapping' = mapping /\ cut_off' = cut_off
    BY <2>1, MappingIs, MappingBecomes DEF RInv
  <2>3. Abstract!Switch(p)
    BY <1>2, <2>2 DEF process_switch, Abstract!Switch, Abstract!NoneStale, NoneStale, mapping, cut_off
  <2>4. QED
    BY <2>3 DEF Abstract!Next
<1>3. ASSUME NEW c \in Cores, NEW v \in Pages, translate_data(c, v) \/ translate_fetch(c, v)
      PROVE  Abstract!Next
  BY <1>3, AccessStep DEF Abstract!Next
<1>4. ASSUME NEW p \in Procs, NEW v \in Pages, NEW e \in Stored, write_back(p, v, e)
      PROVE  UNCHANGED Abstract!vars
  <2>1. TypeOK'
    BY NextTyped DEF RInv, IInv
  <2> DEFINE n == here'
  <2>2. SameWalks(here, n)
    BY <1>4, <2>1, WriteBackStale DEF RInv
  <2>3. here' = n
    OBVIOUS
  <2> HIDE DEF n
  <2>4. mapping' = mapping /\ cut_off' = cut_off
    BY <2>2, <2>3, MappingStays DEF RInv
  <2>5. UNCHANGED <<active, stale, answer>>
    BY <1>4 DEF write_back
  <2>6. QED
    BY <2>4, <2>5 DEF Abstract!vars, mapping, cut_off
<1>5. ASSUME UNCHANGED vars PROVE UNCHANGED Abstract!vars
  <2>1. here' = here
    BY <1>5 DEF vars, memory, here
  <2>2. mapping' = mapping /\ cut_off' = cut_off
    BY <2>1, MappingIs, MappingBecomes DEF RInv
  <2>3. QED
    BY <1>5, <2>2 DEF Abstract!vars, vars, mapping, cut_off
<1>6. QED
  BY <1>1, <1>2, <1>3, <1>4, <1>5 DEF Next

\* Together the allocator, the page tables and the TLBs are a private mapping
\* per process.  A page gets a frame nobody has when and only when
\* alloc_and_map says so, nothing else changes the mapping, and an access on
\* any core, by TLB or by walk, gets the frame of its page, or one the page had
\* since the last switch.  It holds for every number of cores, processes and
\* frames and every limit of the allocator, the memory size itself included,
\* while programs stay in the lower halves of their tables and no two pages
\* have the same index at every level.  With the limit at the memory size one
\* table may lie in the last frame: the pages below it, of one process and not
\* mapped before, are mapped and never found; with a smaller limit none is.
THEOREM PrivateMappings ==
  ASSUME LowerHalf, Distinct
  PROVE  Spec => VirtualMemorySpec
PROOF
<1>1. Init => Abstract!Init
  <2>1. SUFFICES ASSUME Init PROVE Abstract!Init
    OBVIOUS
  <2>2. WalksAreMapping
    BY <2>1, InitIInv, Walks
  <2>3. \A p \in Procs, v \in Pages, k \in 0 .. 3 : at(here, p, v, k) = NoFrame
    <3>1. \A p \in Procs, v \in Pages : at(here, p, v, 3) = NoFrame
      BY <2>1, LowerIndex, AtTop DEF Init, here
    <3>2. QED
      BY <3>1, NothingBelow
  <2>4. mapping = [p \in Procs |-> [v \in Pages |-> NoFrame]]
    BY <2>2, <2>3, MappingIs
  <2>5. cut_off = {}
    BY <2>2, <2>3, MappingIs DEF Cuts, Cut
  <2>6. QED
    BY <2>1, <2>4, <2>5 DEF Init, Abstract!Init, Abstract!NoneStale, NoneStale, mapping, cut_off
<1>2. Spec => []RInv
  BY RInvAlways
<1>3. RInv => WalksAreMapping
  BY DEF RInv
<1>4. RInv /\ WalksAreMapping' /\ [Next]_vars => [Abstract!Next]_Abstract!vars
  BY AbstractStep
<1>5. QED
  BY <1>1, <1>2, <1>3, <1>4, PTL DEF Spec, VirtualMemorySpec, Abstract!Spec
=============================================================================
