---------------------------- MODULE MesiProtocol ----------------------------
(***************************************************************************)
(* The coherence protocol of cpu.cpp: per-core L1D and L1I caches above a  *)
(* shared inclusive L2 that records, for every line, which cores hold it   *)
(* (core_valid_d, core_valid_i).  One action is one whole cpu_read,        *)
(* cpu_write or cpu_fetch after address translation: the handlers hold     *)
(* bus_lock from entry to return, so no other access interleaves.          *)
(*                                                                         *)
(* A cache is a function from line numbers (physical address / LINE_SIZE)  *)
(* to the content of the way that holds the line.  Which way that is and   *)
(* which resident line PLRU picks as victim is abstracted: a full set      *)
(* gives up any one of its lines.  Likewise the stream table of the        *)
(* prefetcher is abstracted to its effect: after an L2 demand miss of a    *)
(* read or a write any absent lines of the missed page may be filled.      *)
(***************************************************************************)
EXTENDS Naturals, FiniteSets

CONSTANTS
  Cores,         (* NUM_CORES core ids                                     *)
  NumLines,      (* mem->size / LINE_SIZE                                  *)
  L1_SETS,       (* also the number of lines in a page: bits [11:6]        *)
  L2_SETS,
  NUM_L1_WAYS,
  NUM_L2_WAYS,
  Words,         (* positions in a line that one access can touch          *)
  Vals,          (* what a word can hold                                   *)
  Zero           (* the content of fresh memory                            *)

\* L1_SETS divides L2_SETS, so the lines of one page never share an L2 set.
ASSUME GeometryAssumption ==
  /\ {NumLines, L1_SETS, L2_SETS, NUM_L1_WAYS, NUM_L2_WAYS} \subseteq Nat \ {0}
  /\ L2_SETS % L1_SETS = 0

ASSUME DataAssumption == Zero \in Vals /\ Words # {}

VARIABLES
  l1d,    (* l1d[c][l]: line l in core c's data cache                      *)
  l1i,    (* l1i[c][l]: line l in core c's instruction cache               *)
  l2,     (* l2[l]: line l in the shared cache, with its sharer masks      *)
  mem,    (* mem[l]: the bytes of line l in main memory                    *)
  abort,  (* which std::abort ended the process, or "none"                 *)
  ret     (* the last access: <<>> or <<line, the data delivered>>         *)

vars == <<l1d, l1i, l2, mem, abort, ret>>

(***************************************************************************)
(* Lines, indices and states (types.h).                                    *)
(***************************************************************************)
Lines == 0 .. NumLines - 1
Data == [Words -> Vals]
ZeroLine == [w \in Words |-> Zero]

l1_to_index(l) == l % L1_SETS
l2_to_index(l) == l % L2_SETS
page_of(l) == l \div L1_SETS

INVALID == "I"
MODIFIED == "M"
EXCLUSIVE == "E"
SHARED == "S"
MESIState == {INVALID, MODIFIED, EXCLUSIVE, SHARED}

L1Line == [state : MESIState, data : Data]
L2Line == [state : MESIState, d : SUBSET Cores, i : SUBSET Cores, data : Data]

\* The bytes and tag left in an INVALID way are never read (find_l1_way and
\* l2_find_way skip it), so an absent line has one representation.
NoL1Line == [state |-> INVALID, data |-> ZeroLine]
NoL2Line == [state |-> INVALID, d |-> {}, i |-> {}, data |-> ZeroLine]

Aborts == {"none", "inclusion", "stale_core_valid", "write_hit_not_in_l2",
           "fetch_of_modified"}

\* The memory hierarchy as one record: the helpers of cpu.cpp are operators
\* from hierarchies to hierarchies, and a handler is their composition.
Hierarchy == [l1d : [Cores -> [Lines -> L1Line]],
              l1i : [Cores -> [Lines -> L1Line]],
              l2 : [Lines -> L2Line],
              mem : [Lines -> Data],
              abort : Aborts]

here == [l1d |-> l1d, l1i |-> l1i, l2 |-> l2, mem |-> mem, abort |-> abort]

\* std::abort: the first one wins, nothing runs after it.
abort_if(s, why, condition) ==
  IF s.abort = "none" /\ condition THEN [s EXCEPT !.abort = why] ELSE s

(***************************************************************************)
(* Victims.  A set with a free (INVALID) way evicts nothing; a full one    *)
(* evicts one line.  evict_l1 and evict_l2 take the victims as a set.      *)
(***************************************************************************)
in_l1_set(cache, l) ==
  {k \in Lines : l1_to_index(k) = l1_to_index(l) /\ cache[k].state # INVALID}

in_l2_set(s, l) ==
  {k \in Lines : l2_to_index(k) = l2_to_index(l) /\ s.l2[k].state # INVALID}

l1_victims(cache, l) ==
  IF Cardinality(in_l1_set(cache, l)) < NUM_L1_WAYS
    THEN {{}}
    ELSE {{k} : k \in in_l1_set(cache, l)}

\* One victim in each full L2 set among the sets of the lines in fills.
l2_victims(s, fills) ==
  LET full == {l \in fills : Cardinality(in_l2_set(s, l)) >= NUM_L2_WAYS}
  IN  {V \in SUBSET UNION {in_l2_set(s, l) : l \in full} :
         \A l \in full : Cardinality(V \cap in_l2_set(s, l)) = 1}

(***************************************************************************)
(* Snooping (cpu.cpp) and the L2 primitives (uncore.cpp).                  *)
(***************************************************************************)
holds(cache, l) == cache[l].state # INVALID

\* The line as the sharers leave it in line_inout / line_out: the bytes of a
\* MODIFIED peer, else those the L2 already had.
snooped_data(s, sharers, l) ==
  LET owners == {c \in sharers : s.l1d[c][l].state = MODIFIED}
  IN  IF owners = {} THEN s.l2[l].data
                     ELSE s.l1d[CHOOSE c \in owners : TRUE][l].data

\* Mutant: a MODIFIED peer's bytes are not written back to the L2.
snoop_downgrade_without_write_back(s, sharers, l) ==
  [s EXCEPT
     !.l2[l].state = SHARED,
     !.l1d = [c \in Cores |->
                IF c \in sharers /\ holds(s.l1d[c], l)
                  THEN [s.l1d[c] EXCEPT ![l].state = SHARED]
                  ELSE s.l1d[c]]]

\* BusRead snoop: peers drop to SHARED, the L2 becomes SHARED whatever it was.
snoop_downgrade_peers(s, sharers, l) ==
  [s EXCEPT
     !.l2[l].state = SHARED,
     !.l2[l].data = snooped_data(s, sharers, l),
     !.l1d = [c \in Cores |->
                IF c \in sharers /\ holds(s.l1d[c], l)
                  THEN [s.l1d[c] EXCEPT ![l].state = SHARED]
                  ELSE s.l1d[c]]]

\* Mutant: the sharer bits are cleared, the peers keep their copies.
snoop_invalidate_clears_only_the_mask(s, sharers, l) ==
  [s EXCEPT !.l2[l].d = @ \ sharers]

\* BusRdX / upgrade snoop: peers lose the line and their core_valid_d bit.
snoop_invalidate_peers(s, sharers, l) ==
  [s EXCEPT
     !.l2[l].d = @ \ sharers,
     !.l1d = [c \in Cores |->
                IF c \in sharers THEN [s.l1d[c] EXCEPT ![l] = NoL1Line]
                                 ELSE s.l1d[c]]]

\* Mutant: the masks are cleared, the stale instruction copies stay.
snoop_clears_only_the_mask_i(s, sharers, l) == [s EXCEPT !.l2[l].i = {}]

\* Self-modifying-code snoop; the caller's core_valid_i = 0 included.
snoop_invalidate_peers_i(s, sharers, l) ==
  [s EXCEPT
     !.l2[l].i = {},
     !.l1i = [c \in Cores |->
                IF c \in sharers THEN [s.l1i[c] EXCEPT ![l] = NoL1Line]
                                 ELSE s.l1i[c]]]

\* A hit in the L2 adds the reader to the data or the instruction sharers.
l2_cache_read_way_d(s, c, l) == [s EXCEPT !.l2[l].d = @ \cup {c}]
l2_cache_read_way_i(s, c, l) == [s EXCEPT !.l2[l].i = @ \cup {c}]

\* A store leaves the writing core as the only data sharer of a MODIFIED line.
l2_owned_by(s, c, l) == [s EXCEPT !.l2[l].d = {c}, !.l2[l].state = MODIFIED]

\* Dirty write-back of an L1D victim into its L2 line.
l2_cache_write_way(e, c, line) ==
  [e EXCEPT !.data = line, !.state = MODIFIED, !.d = @ \ {c}]

\* Mutant: the last sharer leaves and the line stays SHARED.
last_sharer_unnoticed(e) == e

\* A SHARED L2 line nobody holds any more becomes EXCLUSIVE.
last_sharer_gone(e) ==
  IF e.d = {} /\ e.i = {} /\ e.state = SHARED
    THEN [e EXCEPT !.state = EXCLUSIVE] ELSE e

\* Mutant: the data mask is cleared for an instruction line.
release_i_in_data_mask(e, c) == last_sharer_gone([e EXCEPT !.d = @ \ {c}])

release_d(e, c) == last_sharer_gone([e EXCEPT !.d = @ \ {c}])
release_i(e, c) == last_sharer_gone([e EXCEPT !.i = @ \ {c}])

\* evict_l1<false>: write a dirty victim back, release a clean one.
evict_l1_d(s, c, V) ==
  abort_if(
    [s EXCEPT
       !.l1d[c] = [l \in Lines |-> IF l \in V THEN NoL1Line ELSE s.l1d[c][l]],
       !.l2 = [l \in Lines |->
                 IF l \notin V THEN s.l2[l]
                 ELSE IF s.l1d[c][l].state = MODIFIED
                   THEN l2_cache_write_way(s.l2[l], c, s.l1d[c][l].data)
                   ELSE release_d(s.l2[l], c)]],
    "inclusion", \E l \in V : s.l2[l].state = INVALID)

\* evict_l1<true>: instruction lines are never dirty.
evict_l1_i(s, c, V) ==
  abort_if(
    [s EXCEPT
       !.l1i[c] = [l \in Lines |-> IF l \in V THEN NoL1Line ELSE s.l1i[c][l]],
       !.l2 = [l \in Lines |-> IF l \in V THEN release_i(s.l2[l], c)
                                          ELSE s.l2[l]]],
    "inclusion", \E l \in V : s.l2[l].state = INVALID)

l2_dirty(s, l) ==
  \/ s.l2[l].state = MODIFIED
  \/ \E c \in s.l2[l].d : s.l1d[c][l].state = MODIFIED

\* Mutant: the L1I copies survive the eviction.
evict_l2_spares_l1i(s, V) ==
  [s EXCEPT
     !.l1d = [c \in Cores |-> [l \in Lines |->
                IF l \in V /\ c \in s.l2[l].d THEN NoL1Line ELSE s.l1d[c][l]]],
     !.mem = [l \in Lines |->
                IF l \in V /\ l2_dirty(s, l)
                  THEN snooped_data(s, s.l2[l].d, l) ELSE s.mem[l]],
     !.l2 = [l \in Lines |-> IF l \in V THEN NoL2Line ELSE s.l2[l]]]

\* evict_l2: back-invalidate every sharer, collect a MODIFIED L1D copy, write
\* the line to memory when the L2 (now) holds it MODIFIED, clear the masks.
evict_l2(s, V) ==
  abort_if(
    [s EXCEPT
       !.l1d = [c \in Cores |-> [l \in Lines |->
                  IF l \in V /\ c \in s.l2[l].d THEN NoL1Line ELSE s.l1d[c][l]]],
       !.l1i = [c \in Cores |-> [l \in Lines |->
                  IF l \in V /\ c \in s.l2[l].i THEN NoL1Line ELSE s.l1i[c][l]]],
       !.mem = [l \in Lines |->
                  IF l \in V /\ l2_dirty(s, l)
                    THEN snooped_data(s, s.l2[l].d, l) ELSE s.mem[l]],
       !.l2 = [l \in Lines |-> IF l \in V THEN NoL2Line ELSE s.l2[l]]],
    "stale_core_valid",
    \E l \in V : \/ \E c \in s.l2[l].d : ~holds(s.l1d[c], l)
                 \/ \E c \in s.l2[l].i : ~holds(s.l1i[c], l))

l2_cache_fill(s, l, line, state, d, i) ==
  [s EXCEPT !.l2[l] = [state |-> state, d |-> d, i |-> i, data |-> line]]

l1d_fill(s, c, l, line, state) ==
  [s EXCEPT !.l1d[c][l] = [state |-> state, data |-> line]]

l1i_fill(s, c, l, line) ==
  [s EXCEPT !.l1i[c][l] = [state |-> SHARED, data |-> line]]

(***************************************************************************)
(* Prefetching.  pf_fill_l2 fills absent lines of the missed page as       *)
(* EXCLUSIVE without an owner.  The lines of a burst lie in different L2   *)
(* sets, so their evictions and fills do not affect each other and the     *)
(* burst is one simultaneous update.                                       *)
(***************************************************************************)
pf_fill_l2(s, fills, V) ==
  LET e == evict_l2(s, V)
  IN  [e EXCEPT !.l2 = [l \in Lines |->
         IF l \in fills
           THEN [state |-> EXCLUSIVE, d |-> {}, i |-> {}, data |-> e.mem[l]]
           ELSE e.l2[l]]]

\* Lines pf_fill_l2 accepts: same page, not line 0, inside memory, not in L2.
prefetchable(s, l) ==
  {k \in Lines \ {0, l} : page_of(k) = page_of(l) /\ s.l2[k].state = INVALID}

\* Every hierarchy the stream prefetcher may leave behind after a miss on l.
after_stream_miss(s, l) ==
  UNION {{pf_fill_l2(s, fills, V) : V \in l2_victims(s, fills)} :
           fills \in SUBSET prefetchable(s, l)}

\* The same for the next-line instruction prefetcher, which always fires.
after_nextline_miss(s, l) ==
  LET fills == prefetchable(s, l) \cap {l + 1}
  IN  {pf_fill_l2(s, fills, V) : V \in l2_victims(s, fills)}

(***************************************************************************)
(* The handlers.  Each is split on where the line is found.                *)
(***************************************************************************)
become(s) ==
  /\ l1d' = s.l1d
  /\ l1i' = s.l1i
  /\ l2' = s.l2
  /\ mem' = s.mem
  /\ abort' = s.abort

\* L1D hit: M, E and S all serve a read.
read_l1_hit(c, l) ==
  /\ holds(l1d[c], l)
  /\ ret' = <<l, l1d[c][l].data>>
  /\ become(here)

\* Mutant: instruction sharers are not counted among the other sharers.
read_l2_hit_ignores_l1i(s, c, l, V) ==
  LET e == evict_l1_d(s, c, V)
      t == l2_cache_read_way_d(e, c, l)
      d_sharers == t.l2[l].d \ {c}
      u == snoop_downgrade_peers(t, d_sharers, l)
  IN  IF d_sharers # {} THEN l1d_fill(u, c, l, u.l2[l].data, SHARED)
                        ELSE l1d_fill(t, c, l, t.l2[l].data, EXCLUSIVE)

\* L2 hit: EXCLUSIVE when no other core has the line in L1D or L1I, else
\* SHARED after the snoop.  V is what evict_l1 gives up to make room.
read_l2_hit_result(s, c, l, V) ==
  LET e == evict_l1_d(s, c, V)
      t == l2_cache_read_way_d(e, c, l)
      d_sharers == t.l2[l].d \ {c}
      i_sharers == t.l2[l].i \ {c}
      u == snoop_downgrade_peers(t, d_sharers, l)
  IN  IF d_sharers \cup i_sharers # {}
        THEN l1d_fill(u, c, l, u.l2[l].data, SHARED)
        ELSE l1d_fill(t, c, l, t.l2[l].data, EXCLUSIVE)

read_l2_hit(c, l) ==
  /\ ~holds(l1d[c], l)
  /\ l2[l].state # INVALID
  /\ \E V \in l1_victims(l1d[c], l) :
       LET t == read_l2_hit_result(here, c, l, V)
       IN  ret' = <<l, t.l1d[c][l].data>> /\ become(t)

\* L2 miss: evict_l2, then evict_l1, fill both levels from memory.
read_miss_fill(s, c, l, V) ==
  LET e == evict_l1_d(s, c, V)
      f == l2_cache_fill(e, l, e.mem[l], EXCLUSIVE, {c}, {})
  IN  l1d_fill(f, c, l, e.mem[l], EXCLUSIVE)

read_miss(c, l) ==
  /\ ~holds(l1d[c], l)
  /\ l2[l].state = INVALID
  /\ ret' = <<l, mem[l]>>
  /\ \E V2 \in l2_victims(here, {l}) :
       LET e == evict_l2(here, V2)
       IN  \E V1 \in l1_victims(e.l1d[c], l) :
             \E t \in after_stream_miss(read_miss_fill(e, c, l, V1), l) :
               become(t)

cpu_read(c, l) == read_l1_hit(c, l) \/ read_l2_hit(c, l) \/ read_miss(c, l)

\* Mutant: the sharer bit is made from the line's way, not from the core id.
write_l1_hit_marks_way(s, c, l, w, x) ==
  l1d_fill(l2_owned_by(s, l, l), c, l, [s.l1d[c][l].data EXCEPT ![w] = x], MODIFIED)

\* L1D hit: SHARED first invalidates the peers' L1D copies; every hit
\* invalidates all L1I copies, the core's own included, and makes the L2
\* line MODIFIED with this core as the only holder.
write_l1_hit_result(s, c, l, w, x) ==
  LET others == s.l2[l].d \ {c}
      t == IF s.l1d[c][l].state = SHARED
             THEN snoop_invalidate_peers(s, others, l) ELSE s
      u == snoop_invalidate_peers_i(t, t.l2[l].i, l)
      line == [s.l1d[c][l].data EXCEPT ![w] = x]
  IN  l1d_fill(l2_owned_by(u, c, l), c, l, line, MODIFIED)

write_l1_hit(c, l, w, x) ==
  /\ holds(l1d[c], l)
  /\ IF l2[l].state = INVALID
       THEN become([here EXCEPT !.abort = "write_hit_not_in_l2"])
       ELSE become(write_l1_hit_result(here, c, l, w, x))
  /\ ret' = <<>>

\* Mutant: the word is merged into the L2's bytes, a dirty peer's are lost.
write_l2_hit_ignores_dirty_peer(s, c, l, w, x, V) ==
  LET others == s.l2[l].d \ {c}
      line == [s.l2[l].data EXCEPT ![w] = x]
      e == evict_l1_d(snoop_invalidate_peers(s, others, l), c, V)
      f == l1d_fill(e, c, l, line, MODIFIED)
      u == snoop_invalidate_peers_i(f, f.l2[l].i, l)
  IN  l2_owned_by(u, c, l)

\* L2 hit: the line is taken from a MODIFIED peer or from the L2, the peers
\* are invalidated, the word is merged and the line enters L1D MODIFIED; the
\* L2 keeps its old bytes until the line is evicted from L1D.
write_l2_hit_result(s, c, l, w, x, V) ==
  LET others == s.l2[l].d \ {c}
      line == [snooped_data(s, others, l) EXCEPT ![w] = x]
      e == evict_l1_d(snoop_invalidate_peers(s, others, l), c, V)
      f == l1d_fill(e, c, l, line, MODIFIED)
      u == snoop_invalidate_peers_i(f, f.l2[l].i, l)
  IN  l2_owned_by(u, c, l)

write_l2_hit(c, l, w, x) ==
  /\ ~holds(l1d[c], l)
  /\ l2[l].state # INVALID
  /\ ret' = <<>>
  /\ \E V \in l1_victims(l1d[c], l) :
       become(write_l2_hit_result(here, c, l, w, x, V))

\* L2 miss: write-allocate; both levels are filled with the merged line.
write_miss_fill(s, c, l, w, x, V) ==
  LET line == [s.mem[l] EXCEPT ![w] = x]
      e == evict_l1_d(s, c, V)
      f == l2_cache_fill(e, l, line, MODIFIED, {c}, {})
  IN  l1d_fill(f, c, l, line, MODIFIED)

write_miss(c, l, w, x) ==
  /\ ~holds(l1d[c], l)
  /\ l2[l].state = INVALID
  /\ ret' = <<>>
  /\ \E V2 \in l2_victims(here, {l}) :
       LET e == evict_l2(here, V2)
       IN  \E V1 \in l1_victims(e.l1d[c], l) :
             \E t \in after_stream_miss(write_miss_fill(e, c, l, w, x, V1), l) :
               become(t)

cpu_write(c, l, w, x) ==
  write_l1_hit(c, l, w, x) \/ write_l2_hit(c, l, w, x) \/ write_miss(c, l, w, x)

fetch_l1_hit(c, l) ==
  /\ holds(l1i[c], l)
  /\ ret' = <<l, l1i[c][l].data>>
  /\ become(here)

\* Fetching a line the L2 holds MODIFIED aborts before any side effect.
fetch_modified(c, l) ==
  /\ ~holds(l1i[c], l)
  /\ l2[l].state = MODIFIED
  /\ become([here EXCEPT !.abort = "fetch_of_modified"])
  /\ UNCHANGED ret

\* L2 hit: L1I always fills SHARED; L1D peers are downgraded as for a read.
fetch_l2_hit_result(s, c, l, V) ==
  LET e == evict_l1_i(s, c, V)
      t == l2_cache_read_way_i(e, c, l)
      d_sharers == t.l2[l].d \ {c}
      i_sharers == t.l2[l].i \ {c}
      u == IF d_sharers \cup i_sharers # {}
             THEN snoop_downgrade_peers(t, d_sharers, l) ELSE t
  IN  l1i_fill(u, c, l, u.l2[l].data)

fetch_l2_hit(c, l) ==
  /\ ~holds(l1i[c], l)
  /\ l2[l].state \in {EXCLUSIVE, SHARED}
  /\ \E V \in l1_victims(l1i[c], l) :
       LET t == fetch_l2_hit_result(here, c, l, V)
       IN  ret' = <<l, t.l1i[c][l].data>> /\ become(t)

fetch_miss_fill(s, c, l, V) ==
  LET e == evict_l1_i(s, c, V)
      f == l2_cache_fill(e, l, e.mem[l], EXCLUSIVE, {}, {c})
  IN  l1i_fill(f, c, l, e.mem[l])

fetch_miss(c, l) ==
  /\ ~holds(l1i[c], l)
  /\ l2[l].state = INVALID
  /\ ret' = <<l, mem[l]>>
  /\ \E V2 \in l2_victims(here, {l}) :
       LET e == evict_l2(here, V2)
       IN  \E V1 \in l1_victims(e.l1i[c], l) :
             \E t \in after_nextline_miss(fetch_miss_fill(e, c, l, V1), l) :
               become(t)

cpu_fetch(c, l) ==
  fetch_l1_hit(c, l) \/ fetch_modified(c, l) \/ fetch_l2_hit(c, l) \/ fetch_miss(c, l)

(***************************************************************************)
(* The specification.                                                      *)
(***************************************************************************)
Init ==
  /\ l1d = [c \in Cores |-> [l \in Lines |-> NoL1Line]]
  /\ l1i = [c \in Cores |-> [l \in Lines |-> NoL1Line]]
  /\ l2 = [l \in Lines |-> NoL2Line]
  /\ mem = [l \in Lines |-> ZeroLine]
  /\ abort = "none"
  /\ ret = <<>>

\* A program that accesses only the lines in accessed.
NextOn(accessed) ==
  /\ abort = "none"
  /\ \E c \in Cores, l \in accessed :
       \/ cpu_read(c, l)
       \/ \E w \in Words, x \in Vals : cpu_write(c, l, w, x)
       \/ cpu_fetch(c, l)

Next == NextOn(Lines)

Spec == Init /\ [][Next]_vars

(***************************************************************************)
(* Properties.                                                             *)
(***************************************************************************)

\* The variables keep the types the structs of core.h and uncore.h give them.
TypeOK ==
  /\ here \in Hierarchy
  /\ ret \in {<<>>} \cup (Lines \X Data)

\* evict_l2 back-invalidates every copy before it drops a line, so an L1 line
\* is always in the L2 too ("Inclusive invariant", cpu.cpp:186).
Inclusion ==
  \A c \in Cores, l \in Lines :
    holds(l1d[c], l) \/ holds(l1i[c], l) => l2[l].state # INVALID

\* The sharer masks the L2 keeps are exact in both directions: a missing bit
\* would leave a copy no snoop finds, a stale one makes evict_l2 abort.
DirectoryExact ==
  \A c \in Cores, l \in Lines :
    /\ c \in l2[l].d <=> holds(l1d[c], l)
    /\ c \in l2[l].i <=> holds(l1i[c], l)

\* A core that may write a line without a snoop (MODIFIED or EXCLUSIVE in its
\* L1D) is its only holder; next to a MODIFIED copy no L1I copy exists either.
SingleWriter ==
  \A c \in Cores, l \in Lines :
    /\ l1d[c][l].state \in {MODIFIED, EXCLUSIVE} =>
         \A o \in Cores \ {c} : ~holds(l1d[o], l) /\ ~holds(l1i[o], l)
    /\ l1d[c][l].state = MODIFIED => ~holds(l1i[c], l)

\* The state the L2 records bounds what the L1s hold: only under an L2
\* MODIFIED line can an L1D be MODIFIED, an L1D SHARED copy means L2 SHARED,
\* and a SHARED L2 line still has a sharer (evict_l1 promotes the last one).
LevelsAgree ==
  \A l \in Lines :
    /\ \A c \in Cores :
         /\ l1d[c][l].state = MODIFIED => l2[l].state = MODIFIED
         /\ l1d[c][l].state = SHARED => l2[l].state = SHARED
         /\ holds(l1i[c], l) => l2[l].state \in {EXCLUSIVE, SHARED}
    /\ l2[l].state = SHARED => l2[l].d \cup l2[l].i # {}

\* Every copy that is not MODIFIED carries the bytes the L2 has: snoops move
\* dirty data to the L2 before anybody else can fill from it.
CleanCopiesAgree ==
  \A c \in Cores, l \in Lines :
    /\ l1d[c][l].state \in {EXCLUSIVE, SHARED} => l1d[c][l].data = l2[l].data
    /\ holds(l1i[c], l) => l1i[c][l].data = l2[l].data

\* The aborts that report a broken hierarchy (cpu.cpp:188, 264, 282, 588) are
\* unreachable; the one a program can cause is fetching a MODIFIED line.
NoInternalAbort == abort \in {"none", "fetch_of_modified"}

\* The value of a line as the hierarchy stands: the MODIFIED L1D copy, else
\* the L2's bytes, else main memory.
current(l) ==
  IF \E c \in Cores : l1d[c][l].state = MODIFIED \/ l2[l].state # INVALID
    THEN snooped_data(here, Cores, l) ELSE mem[l]

\* A word of line l is stored by some core in this step.
stored(l) ==
  \E c \in Cores, w \in Words, x \in Vals :
    /\ l1d'[c][l].state = MODIFIED
    /\ current(l)' = [current(l) EXCEPT ![w] = x]

\* The value of a line changes only by a store, and then in one word (a false
\* sharer's word survives), or when the L2 evicts the line from a state
\* other than MODIFIED and so does not write it back.
ValueChangesOnlyByStoreOrCleanEviction ==
  [][\A l \in Lines :
       \/ current(l)' = current(l)
       \/ stored(l)
       \/ l2[l].state \in {EXCLUSIVE, SHARED} /\ l2'[l].state = INVALID]_vars

\* Whatever level serves a cpu_read or cpu_fetch, it delivers the current
\* value of the line, and the access itself does not change that value.
ReadsDeliverCurrentValue ==
  [][\/ ret' = <<>>
     \/ abort' # "none"
     \/ \E l \in Lines : ret' = <<l, current(l)>> /\ current(l)' = current(l)]_vars

\* The caches are invisible to the program: the hierarchy implements one flat
\* memory whose content is the current value of every line.
AbstractMemory ==
  INSTANCE CoherentMemory WITH memory <- [l \in Lines |-> current(l)]

CoherentMemorySpec == AbstractMemory!Spec

\* A working set: lines that fit the L2 together with every line the
\* prefetchers may add when one of them misses.
FitsL2(accessed) ==
  /\ \A l \in accessed, k \in Lines \ {0} : page_of(k) = page_of(l) => k \in accessed
  /\ \A l \in accessed :
       Cardinality({k \in accessed : l2_to_index(k) = l2_to_index(l)}) <= NUM_L2_WAYS
=============================================================================
