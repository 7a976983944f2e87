---------------------------- MODULE AddressSpace ----------------------------
(***************************************************************************)
(* Address translation: the frame allocator and the page tables of os.cpp, *)
(* page_walk (memory.cpp), the TLBs of every core (core.h, core.cpp) and   *)
(* translate (cpu.cpp).                                                    *)
(*                                                                         *)
(* Physical memory is a row of frames; a frame is a row of entries of      *)
(* sizeof(PageTableEntry) bytes.  The root table of a process lies in the  *)
(* Process struct, outside this memory.  The other tables are frames of    *)
(* the allocator, but a PageTable has PAGE_TABLE_ENTRIES entries and a     *)
(* frame only FRAME_ENTRIES: 512 entries of 16 bytes are two frames, so    *)
(* the upper half of a table lies in the frame that follows it.            *)
(***************************************************************************)
EXTENDS Naturals, FiniteSets, Sequences

CONSTANTS
  Cores, Procs,
  Pages,                 (* the virtual page numbers programs use          *)
  PAGE_TABLE_ENTRIES,
  FRAME_ENTRIES,         (* PAGE_SIZE / sizeof(PageTableEntry)             *)
  size,                  (* mem->size in frames                            *)
  limit,                 (* fa->limit in frames                            *)
  L1_DTLB_SETS, L2_DTLB_SETS, ITLB_SETS, NUM_TLB_WAYS,
  Stored                 (* what a program's store leaves where an entry   *)
                         (* would lie                                      *)

ASSUME GeometryAssumption ==
  /\ {PAGE_TABLE_ENTRIES, FRAME_ENTRIES, size, limit, L1_DTLB_SETS,
      L2_DTLB_SETS, ITLB_SETS, NUM_TLB_WAYS} \subseteq Nat \ {0}
  /\ limit <= size
  /\ PAGE_TABLE_ENTRIES = 2 * FRAME_ENTRIES
  /\ Pages \subseteq Nat
  /\ Stored \subseteq 0 .. size - 1

VARIABLES
  watermark,    (* fa->watermark: the first frame never handed out         *)
  free_list,    (* fa->free_list, a stack                                  *)
  pml4,         (* pml4[p]: the root table of process p                    *)
  cells,        (* cells[f]: the entries in frame f                        *)
  active,       (* the process active_pml4 points to, on every core        *)
  l1_dtlb, l2_dtlb, itlb,   (* [c][v]: the frame a TLB of core c gives v   *)
  stale,        (* history: the frames the pages of the active process had *)
                (* since the last switch, and lost by being mapped again   *)
  answer        (* the result of the last call                             *)

memory == <<watermark, free_list, pml4, cells>>
tlbs == <<l1_dtlb, l2_dtlb, itlb>>
vars == <<memory, active, tlbs, stale, answer>>

\* Frame 0 is never handed out (every program starts fa.watermark at
\* PAGE_SIZE), so entry 0 stands for an entry that is not present and for
\* UINT64_MAX.  The flags writable and user are stored and never read.
NoFrame == 0
Frames == 1 .. size - 1
Entries == 0 .. size - 1
Index == 0 .. PAGE_TABLE_ENTRIES - 1

\* cells has one frame more than the memory: the bytes behind mem->data, where
\* a table in the last frame has its upper half.
EmptyFrame == [i \in 0 .. FRAME_ENTRIES - 1 |-> NoFrame]

\* The index of page v in a table of the given level, 3 for the root: an entry
\* of that table covers span[level + 1] pages.
span == LET n == PAGE_TABLE_ENTRIES IN <<1, n, n * n, n * n * n>>
index == [v \in Pages |-> [level \in 0 .. 3 |->
            (v \div span[level + 1]) % PAGE_TABLE_ENTRIES]]

\* Programs whose pages have indices in the lower halves of their tables only,
\* and whose page numbers are no longer than the four indices.
LowerHalf == \A v \in Pages, level \in 0 .. 3 : index[v][level] < FRAME_ENTRIES
Distinct ==
  \A u, v \in Pages : (\A level \in 0 .. 3 : index[u][level] = index[v][level]) => u = v

(***************************************************************************)
(* The allocator and the tables, as one record.                            *)
(***************************************************************************)
here == [watermark |-> watermark, free_list |-> free_list,
         pml4 |-> pml4, cells |-> cells]

\* Mutant: the frame that starts at the limit is handed out too.
next_frame_at_the_limit(m) ==
  IF m.free_list # <<>> THEN m.free_list[Len(m.free_list)]
  ELSE IF m.watermark > limit THEN NoFrame
  ELSE m.watermark

\* alloc_frame: the frame it gives, and the memory afterwards.
next_frame(m) ==
  IF m.free_list # <<>> THEN m.free_list[Len(m.free_list)]
  ELSE IF m.watermark + 1 > limit THEN NoFrame
  ELSE m.watermark

\* Mutant: a recycled frame is not taken off the free list.
take_frame_keeps_listed(m) ==
  LET f == next_frame(m)
  IN  IF m.free_list # <<>>
        THEN [m EXCEPT !.cells[f] = EmptyFrame]
        ELSE [m EXCEPT !.watermark = f + 1, !.cells[f] = EmptyFrame]

take_frame(m) ==
  LET f == next_frame(m)
  IN  IF m.free_list # <<>>
        THEN [m EXCEPT !.free_list = SubSeq(@, 1, Len(@) - 1), !.cells[f] = EmptyFrame]
        ELSE [m EXCEPT !.watermark = f + 1, !.cells[f] = EmptyFrame]

free_frame(m, f) == [m EXCEPT !.free_list = Append(@, f)]

\* Table NoFrame is the root table of p, table f starts in frame f.
entry(m, p, table, i) ==
  IF table = NoFrame THEN m.pml4[p][i]
  ELSE m.cells[table + i \div FRAME_ENTRIES][i % FRAME_ENTRIES]

set_entry(m, p, table, i, e) ==
  IF table = NoFrame THEN [m EXCEPT !.pml4[p][i] = e]
  ELSE [m EXCEPT !.cells[table + i \div FRAME_ENTRIES][i % FRAME_ENTRIES] = e]

\* One round of map_page's loop: d is the memory, the table reached and
\* whether every missing table so far could be allocated.
descend(d, p, v, level) ==
  LET i == index[v][level]
      below == entry(d.m, p, d.table, i)
      f == next_frame(d.m)
  IN  IF ~d.ok THEN d
      ELSE IF below # NoFrame THEN [d EXCEPT !.table = below]
      ELSE IF f = NoFrame THEN [d EXCEPT !.ok = FALSE]
      ELSE [d EXCEPT !.m = set_entry(take_frame(d.m), p, d.table, i, f),
                     !.table = f]

\* map_page for a page of p and a frame: the three tables, then the entry.
map_page(m, p, v, pa) ==
  LET root == [m |-> m, table |-> NoFrame, ok |-> TRUE]
      d == descend(descend(descend(root, p, v, 3), p, v, 2), p, v, 1)
  IN  IF d.ok THEN [d EXCEPT !.m = set_entry(d.m, p, d.table, index[v][0], pa)]
              ELSE d

\* page_walk below the root: stops at an absent entry and at a table that
\* would not end within the memory.
walk_from(table, v, level) ==
  IF table = NoFrame \/ size < 2 \/ table > size - 2
    THEN NoFrame
    ELSE cells[table + index[v][level] \div FRAME_ENTRIES][index[v][level] % FRAME_ENTRIES]

page_walk(p, v) ==
  LET t2 == walk_from(pml4[p][index[v][3]], v, 2)
      t1 == walk_from(t2, v, 1)
  IN  walk_from(t1, v, 0)

(***************************************************************************)
(* TLBs.  A fill takes a free way of the set or replaces any entry of a    *)
(* full one; which entry PLRU picks is abstracted.                         *)
(***************************************************************************)
tlb_fill(tlb, sets, v, f) ==
  LET set == {u \in Pages : u % sets = v % sets /\ tlb[u] # NoFrame}
      filled == [tlb EXCEPT ![v] = f]
  IN  IF Cardinality(set) < NUM_TLB_WAYS
        THEN {filled} ELSE {[filled EXCEPT ![u] = NoFrame] : u \in set}

NoTLB == [v \in Pages |-> NoFrame]

(***************************************************************************)
(* The operations.                                                         *)
(***************************************************************************)
become(m) ==
  /\ watermark' = m.watermark
  /\ free_list' = m.free_list
  /\ pml4' = m.pml4
  /\ cells' = m.cells

NoneStale == [v \in Pages |-> {}]

\* History: after page v of p got another frame.
lost(p, v) == IF p = active THEN [stale EXCEPT ![v] = @ \cup ({page_walk(p, v)} \ {NoFrame})]
                            ELSE stale

\* Mutant: when map_page fails the frame stays in use.
alloc_and_map_without_free(p, v) ==
  LET f == next_frame(here)
      mapped == map_page(take_frame(here), p, v, f)
  IN  /\ IF f = NoFrame THEN become(here) ELSE become(mapped.m)
      /\ answer' = <<p, v, f>>
      /\ stale' = lost(p, v)
      /\ UNCHANGED <<active, tlbs>>

\* The frame is allocated first; a failing map_page gives it back and keeps
\* the tables it has made.
alloc_and_map(p, v) ==
  LET f == next_frame(here)
      mapped == map_page(take_frame(here), p, v, f)
  IN  /\ IF f = NoFrame THEN become(here) /\ answer' = <<p, v, NoFrame>>
         ELSE IF mapped.ok THEN become(mapped.m) /\ answer' = <<p, v, f>>
         ELSE become(free_frame(mapped.m, f)) /\ answer' = <<p, v, NoFrame>>
      /\ stale' = IF f # NoFrame /\ mapped.ok THEN lost(p, v) ELSE stale
      /\ UNCHANGED <<active, tlbs>>

\* Mutant: the instruction TLBs keep their entries.
process_switch_keeps_itlb(p) ==
  /\ active' = p
  /\ l1_dtlb' = [c \in Cores |-> NoTLB]
  /\ l2_dtlb' = [c \in Cores |-> NoTLB]
  /\ stale' = NoneStale
  /\ answer' = <<>>
  /\ UNCHANGED <<memory, itlb>>

\* Every core gets the root table and loses its TLB entries (tlb_flush).
process_switch(p) ==
  /\ active' = p
  /\ l1_dtlb' = [c \in Cores |-> NoTLB]
  /\ l2_dtlb' = [c \in Cores |-> NoTLB]
  /\ itlb' = [c \in Cores |-> NoTLB]
  /\ stale' = NoneStale
  /\ answer' = <<>>
  /\ UNCHANGED memory

\* translate for reads and writes: L1 DTLB, L2 DTLB, page walk.
translate_data(c, v) ==
  LET l1 == l1_dtlb[c]
      l2 == l2_dtlb[c]
      f == page_walk(active, v)
  IN  /\ \/ /\ l1[v] # NoFrame
            /\ answer' = <<v, l1[v]>>
            /\ UNCHANGED <<l1_dtlb, l2_dtlb>>
         \/ /\ l1[v] = NoFrame /\ l2[v] # NoFrame
            /\ answer' = <<v, l2[v]>>
            /\ \E t \in tlb_fill(l1, L1_DTLB_SETS, v, l2[v]) :
                 l1_dtlb' = [l1_dtlb EXCEPT ![c] = t]
            /\ UNCHANGED l2_dtlb
         \/ /\ l1[v] = NoFrame /\ l2[v] = NoFrame /\ f # NoFrame
            /\ answer' = <<v, f>>
            /\ \E t \in tlb_fill(l1, L1_DTLB_SETS, v, f) :
                 l1_dtlb' = [l1_dtlb EXCEPT ![c] = t]
            /\ \E t \in tlb_fill(l2, L2_DTLB_SETS, v, f) :
                 l2_dtlb' = [l2_dtlb EXCEPT ![c] = t]
         \/ /\ l1[v] = NoFrame /\ l2[v] = NoFrame /\ f = NoFrame
            /\ answer' = <<v, NoFrame>>
            /\ UNCHANGED <<l1_dtlb, l2_dtlb>>
      /\ UNCHANGED <<memory, active, itlb, stale>>

\* translate for fetches: ITLB, page walk.
translate_fetch(c, v) ==
  LET f == page_walk(active, v)
  IN  /\ \/ /\ itlb[c][v] # NoFrame
            /\ answer' = <<v, itlb[c][v]>>
            /\ UNCHANGED itlb
         \/ /\ itlb[c][v] = NoFrame /\ f # NoFrame
            /\ answer' = <<v, f>>
            /\ \E t \in tlb_fill(itlb[c], ITLB_SETS, v, f) :
                 itlb' = [itlb EXCEPT ![c] = t]
         \/ /\ itlb[c][v] = NoFrame /\ f = NoFrame
            /\ answer' = <<v, NoFrame>>
            /\ UNCHANGED itlb
      /\ UNCHANGED <<memory, active, l1_dtlb, l2_dtlb, stale>>

\* What a program has stored in a page of its own reaches the memory when the
\* L2 evicts the line (evict_l2), long after the store and in any order.
write_back(p, v, e) ==
  /\ page_walk(p, v) # NoFrame
  /\ cells' = [cells EXCEPT ![page_walk(p, v)] = [i \in DOMAIN @ |-> e]]
  /\ UNCHANGED <<watermark, free_list, pml4, active, tlbs, stale, answer>>

(***************************************************************************)
(* The specification.  Every program creates its processes and switches to *)
(* one of them first.                                                      *)
(***************************************************************************)
Init ==
  /\ watermark = 1
  /\ free_list = <<>>
  /\ pml4 = [p \in Procs |-> [i \in Index |-> NoFrame]]
  /\ cells = [f \in 0 .. size |-> EmptyFrame]
  /\ active \in Procs
  /\ l1_dtlb = [c \in Cores |-> NoTLB]
  /\ l2_dtlb = [c \in Cores |-> NoTLB]
  /\ itlb = [c \in Cores |-> NoTLB]
  /\ stale = NoneStale
  /\ answer = <<>>

Next ==
  \/ \E p \in Procs, v \in Pages : alloc_and_map(p, v)
  \/ \E p \in Procs : process_switch(p)
  \/ \E c \in Cores, v \in Pages : translate_data(c, v) \/ translate_fetch(c, v)
  \/ \E p \in Procs, v \in Pages, e \in Stored : write_back(p, v, e)

Spec == Init /\ [][Next]_vars

(***************************************************************************)
(* Properties.                                                             *)
(***************************************************************************)

\* The allocator, the tables and the TLBs keep their types: frames below the
\* limit, entries that name frames of the memory.
TypeOK ==
  /\ watermark \in 1 .. limit
  /\ free_list \in Seq(Frames)
  /\ pml4 \in [Procs -> [Index -> Entries]]
  /\ cells \in [0 .. size -> [0 .. FRAME_ENTRIES - 1 -> Entries]]
  /\ active \in Procs
  /\ {l1_dtlb, l2_dtlb, itlb} \subseteq [Cores -> [Pages -> Entries]]

\* The frame named by the entry of page v in its table of the given level.
frame_at(p, v, level) ==
  LET t3 == pml4[p][index[v][3]]
      t2 == walk_from(t3, v, 2)
      t1 == walk_from(t2, v, 1)
      t0 == walk_from(t1, v, 0)
  IN  <<t0, t1, t2, t3>>[level + 1]

\* Every allocated frame plays one role: no two entries of the page tables of
\* all processes name the same frame, whether it is a table or a page, and
\* none of them is on the free list, however often alloc_and_map failed half
\* way and gave its frame back.
FramesExclusive ==
  LET at == [p \in Procs |-> [v \in Pages |-> [level \in 0 .. 3 |-> frame_at(p, v, level)]]]
  IN  /\ \A p \in Procs, v \in Pages, level \in 0 .. 3 :
           at[p][v][level] # NoFrame =>
             /\ \A q \in Procs, u \in Pages, other \in 0 .. 3 :
                  at[q][u][other] = at[p][v][level]
                  => /\ p = q /\ level = other
                     /\ \A up \in level .. 3 : index[v][up] = index[u][up]
             /\ \A n \in DOMAIN free_list : free_list[n] # at[p][v][level]
      /\ \A n \in DOMAIN free_list :
           /\ free_list[n] < watermark
           /\ \A m \in DOMAIN free_list : m # n => free_list[m] # free_list[n]

\* No TLB of any core gives the active process a frame that belongs to
\* another one, or a page table; so it stays when processes are switched
\* between a fill and a hit, and when a page is mapped again.
TranslationsStayInProcess ==
  \A c \in Cores, v \in Pages :
    \A f \in {l1_dtlb[c][v], l2_dtlb[c][v], itlb[c][v]} \ {NoFrame} :
      \A q \in Procs, u \in Pages, level \in 0 .. 3 :
        q # active \/ level # 0 => frame_at(q, u, level) # f

\* The frames the tables of p name for page v, without page_walk's bound.
linked(table, v, level) ==
  IF table = NoFrame THEN NoFrame
  ELSE cells[table + index[v][level] \div FRAME_ENTRIES][index[v][level] % FRAME_ENTRIES]

named(p, v) ==
  LET t3 == pml4[p][index[v][3]]
      t2 == linked(t3, v, 2)
      t1 == linked(t2, v, 1)
      t0 == linked(t1, v, 0)
  IN  <<t0, t1, t2, t3>>

\* A table on the way to page v of p lies in the last frame.
beyond(p, v) ==
  LET frames == named(p, v)
  IN  \E level \in 1 .. 3 : frames[level + 1] = size - 1 /\ frames[level + 1] # NoFrame

\* Together they are a private mapping per process: what alloc_and_map has
\* answered is what every later access of the process gets, on any core, by
\* TLB or by page walk, whatever other pages are mapped or written.  Only a
\* page mapped again may be found at an old frame of its own, and only until
\* the next switch; and only when the allocator's limit is the memory size can
\* pages be cut off, by one table in the last frame.
Abstract ==
  INSTANCE VirtualMemory WITH
    mapping <- [p \in Procs |-> [v \in Pages |-> named(p, v)[1]]],
    cut_off <- {a \in Procs \X Pages : beyond(a[1], a[2])},
    TablesFit <- limit < size

VirtualMemorySpec == Abstract!Spec
=============================================================================
