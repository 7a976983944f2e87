--------------------------- MODULE CacheHierarchy ---------------------------
(***************************************************************************)
(* The caches of cpu.cpp, core.cpp and uncore.cpp with everything          *)
(* MesiProtocol leaves open: ways, tags, pseudo-LRU trees, the stream      *)
(* table that chooses the lines to prefetch, the performance counter and   *)
(* the callback events of every access.  At this level the code is         *)
(* deterministic: cpu_read, cpu_write and cpu_fetch are operators from the *)
(* state before a call to the state after it, and an action applies one.   *)
(*                                                                         *)
(* INVALID ways keep their tag, as in the code.                            *)
(***************************************************************************)
EXTENDS Integers, Sequences, FiniteSets

CONSTANTS
  NUM_CORES, NumLines, L1_SETS, L2_SETS, NUM_L1_WAYS, NUM_L2_WAYS,
  NUM_STREAMS, PREFETCH_DISTANCE,
  Words, Vals, Zero,
  Workloads   (* the programs considered: which <<kind, line>> pairs each  *)
              (* core accesses, kind one of "read", "write", "fetch"       *)

\* As MesiProtocol assumes: the lines of a page lie in different L2 sets.
ASSUME GeometryAssumption ==
  /\ {NUM_CORES, NumLines, L1_SETS, L2_SETS, NUM_L1_WAYS, NUM_L2_WAYS, NUM_STREAMS,
      PREFETCH_DISTANCE} \subseteq Nat \ {0}
  /\ L2_SETS % L1_SETS = 0

VARIABLES
  l1d, l1i,   (* [Cores -> [L1 index -> set]]                              *)
  l2,         (* [L2 index -> set]                                         *)
  mem,        (* main memory                                               *)
  pf,         (* the stream table of each core                             *)
  abort, ret, (* as in MesiProtocol                                        *)
  workload    (* the program that runs                                     *)

vars == <<l1d, l1i, l2, mem, pf, abort, ret, workload>>

Cores == 0 .. NUM_CORES - 1
Lines == 0 .. NumLines - 1
ZeroLine == [w \in Words |-> Zero]
INVALID == "I"
MODIFIED == "M"
EXCLUSIVE == "E"
SHARED == "S"

Plru1 == INSTANCE PlruTree WITH WAYS <- NUM_L1_WAYS
Plru2 == INSTANCE PlruTree WITH WAYS <- NUM_L2_WAYS

Pf(c) == INSTANCE StreamPrefetcher WITH
  PAGE_LINES <- L1_SETS, streams <- pf[c].streams, lru_age <- pf[c].lru_age,
  issued <- [miss |-> 0, lines |-> {}]

(***************************************************************************)
(* Addresses (types.h), in lines: bits [11:6] and [17:6] are the indices.  *)
(***************************************************************************)
l1_to_index(l) == l % L1_SETS
l1_to_tag(l) == l \div L1_SETS
l1_to_addr(tag, i) == tag * L1_SETS + i
l2_to_index(l) == l % L2_SETS
l2_to_tag(l) == l \div L2_SETS
l2_to_addr(tag, j) == tag * L2_SETS + j

(***************************************************************************)
(* Sets and ways.                                                          *)
(***************************************************************************)
EmptyL1Way == [tag |-> 0, state |-> INVALID, data |-> ZeroLine]
EmptyL2Way == [tag |-> 0, state |-> INVALID, data |-> ZeroLine, d |-> {}, i |-> {}]
EmptyL1Set == [way |-> [w \in Plru1!Ways |-> EmptyL1Way], plru |-> Plru1!NoBits]
EmptyL2Set == [way |-> [w \in Plru2!Ways |-> EmptyL2Way], plru |-> Plru2!NoBits]

\* Mutant: the loop stops one way early.
find_way_but_the_last(set, tag) ==
  {w \in DOMAIN set.way :
     set.way[w].tag = tag /\ set.way[w].state # INVALID /\ w + 1 \in DOMAIN set.way}

\* find_l1_way and l2_find_way: the ways that hold the tag; callers take the
\* first one.
find_way(set, tag) ==
  {w \in DOMAIN set.way : set.way[w].tag = tag /\ set.way[w].state # INVALID}

first(ways) == CHOOSE w \in ways : \A v \in ways : w <= v

invalid_ways(set) == {w \in DOMAIN set.way : set.way[w].state = INVALID}

\* Where evict_l1 and evict_l2 make room: an INVALID way, else PLRU's victim.
l1_room(set) == IF invalid_ways(set) # {} THEN first(invalid_ways(set))
                                          ELSE Plru1!plru_victim(set.plru)
l2_room(set) == IF invalid_ways(set) # {} THEN first(invalid_ways(set))
                                          ELSE Plru2!plru_victim(set.plru)

l1_touch(set, w) == [set EXCEPT !.plru = Plru1!plru_update(@, w)]
l2_touch(set, w) == [set EXCEPT !.plru = Plru2!plru_update(@, w)]

\* l1_cache_fill, and what both overloads of l2_cache_fill store.
l1_cache_fill(set, w, tag, line, state) ==
  l1_touch([set EXCEPT !.way[w] = [tag |-> tag, state |-> state, data |-> line]], w)

l2_filled(set, w, tag, line, state, d, i) ==
  l2_touch([set EXCEPT !.way[w] = [tag |-> tag, state |-> state, data |-> line,
                                   d |-> d, i |-> i]], w)

\* A way whose state becomes INVALID keeps its tag.  Its bytes are read nowhere
\* until a fill replaces them, so the model forgets them.
invalidated(way) == [way EXCEPT !.state = INVALID, !.data = ZeroLine]

\* The lines a cache holds, as MesiProtocol sees them.
l1_lines(cache) ==
  [l \in Lines |->
     LET ways == find_way(cache[l1_to_index(l)], l1_to_tag(l))
         way == cache[l1_to_index(l)].way[first(ways)]
     IN  IF ways = {} THEN [state |-> INVALID, data |-> ZeroLine]
                      ELSE [state |-> way.state, data |-> way.data]]

l2_lines ==
  [l \in Lines |->
     LET ways == find_way(l2[l2_to_index(l)], l2_to_tag(l))
         way == l2[l2_to_index(l)].way[first(ways)]
     IN  IF ways = {}
           THEN [state |-> INVALID, d |-> {}, i |-> {}, data |-> ZeroLine]
           ELSE [state |-> way.state, d |-> way.d, i |-> way.i, data |-> way.data]]

Mesi == INSTANCE MesiProtocol WITH
  l1d <- [c \in Cores |-> l1_lines(l1d[c])],
  l1i <- [c \in Cores |-> l1_lines(l1i[c])],
  l2 <- l2_lines,
  Vals <- Vals \cup {Zero}

(***************************************************************************)
(* The state threaded through a handler: the variables, the events of the  *)
(* access so far, the counter it increments and the data it returns.       *)
(***************************************************************************)
now == [l1d |-> l1d, l1i |-> l1i, l2 |-> l2, mem |-> mem, pf |-> pf,
        abort |-> abort, ret |-> <<>>, events |-> <<>>, counted |-> "none"]

\* g_cpu_callback(...): <<>> stands for a null data pointer.
event(type, core, level, set, way, addr, old, new, data) ==
  [type |-> type, core_id |-> core, cache_level |-> level, set_index |-> set,
   way |-> way, address |-> addr, old_state |-> old, new_state |-> new,
   data |-> data]

emit(s, e) == [s EXCEPT !.events = Append(@, e)]

\* l2_cache_fill aborts when the way still has sharers.
l2_cache_fill(s, l, w, line, state, d, i) ==
  LET j == l2_to_index(l)
      way == s.l2[j].way[w]
  IN  IF way.d \cup way.i # {} THEN [s EXCEPT !.abort = "fill_over_sharers"]
      ELSE [s EXCEPT !.l2[j] = l2_filled(@, w, l2_to_tag(l), line, state, d, i)]

\* The while loops over a sharer mask visit the cores in increasing order:
\* after[n] is the state when those below n have been visited.
for_each(s, sharers, Visit(_, _)) ==
  LET after[n \in 0 .. NUM_CORES] ==
        IF n = 0 THEN s
        ELSE IF n - 1 \in sharers THEN Visit(after[n - 1], n - 1) ELSE after[n - 1]
  IN  after[NUM_CORES]

(***************************************************************************)
(* Snoops.  j and w name the L2 set and way that hold line l.              *)
(***************************************************************************)
\* A sharer that is found drops to SHARED; if it was MODIFIED it leaves its
\* bytes in the L2.
downgrade(s, c, l, j, w) ==
  LET i == l1_to_index(l)
      ways == find_way(s.l1d[c][i], l1_to_tag(l))
      v == first(ways)
      peer == s.l1d[c][i].way[v]
      e == event("SNOOP_DOWNGRADE", c, 1, i, v, 0, peer.state, SHARED, peer.data)
  IN  IF ways = {} THEN s
      ELSE emit([s EXCEPT
             !.l2[j].way[w].data = IF peer.state = MODIFIED THEN peer.data ELSE @,
             !.l1d[c][i].way[v].state = SHARED], e)

snoop_downgrade_peers(s, sharers, l, j, w) ==
  for_each([s EXCEPT !.l2[j].way[w].state = SHARED], sharers,
           LAMBDA t, c : downgrade(t, c, l, j, w))

\* A sharer that is found is invalidated, a sharer's bit is cleared.
invalidate_d(s, c, l, j, w) ==
  LET i == l1_to_index(l)
      ways == find_way(s.l1d[c][i], l1_to_tag(l))
      v == first(ways)
      peer == s.l1d[c][i].way[v]
      e == event("SNOOP_INVALIDATE", c, 1, i, v, 0, peer.state, INVALID, peer.data)
      t == [s EXCEPT !.l2[j].way[w].d = @ \ {c}]
  IN  IF ways = {} THEN t
      ELSE emit([t EXCEPT !.l1d[c][i].way[v] = invalidated(@)], e)

snoop_invalidate_peers(s, sharers, l, j, w) ==
  for_each(s, sharers, LAMBDA t, c : invalidate_d(t, c, l, j, w))

\* The instruction copies, and the caller's core_valid_i = 0.
invalidate_i(s, c, l) ==
  LET i == l1_to_index(l)
      ways == find_way(s.l1i[c][i], l1_to_tag(l))
      v == first(ways)
      e == event("L1I_SNOOP_INVALIDATE", c, 1, i, v, 0,
                 s.l1i[c][i].way[v].state, INVALID, <<>>)
  IN  IF ways = {} THEN s
      ELSE emit([s EXCEPT !.l1i[c][i].way[v] = invalidated(@)], e)

snoop_invalidate_peers_i(s, l, j, w) ==
  LET t == for_each(s, s.l2[j].way[w].i, LAMBDA u, c : invalidate_i(u, c, l))
  IN  [t EXCEPT !.l2[j].way[w].i = {}]

\* The bytes line_out gets: a MODIFIED sharer's, else those of the L2.
snooped_line(s, sharers, l, j, w) ==
  LET i == l1_to_index(l)
      copies == UNION {{s.l1d[c][i].way[v] : v \in find_way(s.l1d[c][i], l1_to_tag(l))} :
                       c \in sharers}
      dirty == {e \in copies : e.state = MODIFIED}
  IN  IF dirty = {} THEN s.l2[j].way[w].data ELSE (CHOOSE e \in dirty : TRUE).data

(***************************************************************************)
(* Evictions.                                                              *)
(***************************************************************************)
\* evict_l1<false> of way v: nothing to do for an INVALID way; a MODIFIED
\* victim is written to its L2 line, a clean one leaves the sharer mask.
evict_l1_d_way(s, c, i, v) ==
  LET old == s.l1d[c][i].way[v]
      l == l1_to_addr(old.tag, i)
      j == l2_to_index(l)
      ways == find_way(s.l2[j], l2_to_tag(l))
      e == event("L1D_EVICT", c, 1, i, v, l, old.state, INVALID, old.data)
  IN  IF old.state = INVALID THEN s
      ELSE IF ways = {} THEN [s EXCEPT !.abort = "inclusion"]
      ELSE emit([s EXCEPT
             !.l2[j].way[first(ways)] = IF old.state = MODIFIED
                                          THEN Mesi!l2_cache_write_way(@, c, old.data)
                                          ELSE Mesi!release_d(@, c),
             !.l1d[c][i].way[v] = invalidated(@)], e)

evict_l1_d(s, c, i) == evict_l1_d_way(s, c, i, l1_room(s.l1d[c][i]))

\* evict_l1<true>.  The event it reports is the one of the data cache.
evict_l1_i_way(s, c, i, v) ==
  LET old == s.l1i[c][i].way[v]
      l == l1_to_addr(old.tag, i)
      j == l2_to_index(l)
      ways == find_way(s.l2[j], l2_to_tag(l))
      e == event("L1D_EVICT", c, 1, i, v, l, old.state, INVALID, old.data)
  IN  IF old.state = INVALID THEN s
      ELSE IF ways = {} THEN [s EXCEPT !.abort = "inclusion"]
      ELSE emit([s EXCEPT !.l2[j].way[first(ways)] = Mesi!release_i(@, c),
                          !.l1i[c][i].way[v] = invalidated(@)], e)

evict_l1_i(s, c, i) == evict_l1_i_way(s, c, i, l1_room(s.l1i[c][i]))

\* The data copy and the instruction copy of the line in L2 way v; MODIFIED
\* bytes move to the L2.
drop_d(s, c, l, j, v) ==
  LET i == l1_to_index(l)
      ways == find_way(s.l1d[c][i], l1_to_tag(l))
      w == first(ways)
      peer == s.l1d[c][i].way[w]
      e == event("SNOOP_INVALIDATE", c, 1, i, w, l, peer.state, INVALID, peer.data)
      t == IF peer.state = MODIFIED
             THEN [s EXCEPT !.l2[j].way[v].data = peer.data,
                            !.l2[j].way[v].state = MODIFIED] ELSE s
  IN  IF c \notin s.l2[j].way[v].d THEN s
      ELSE IF ways = {} THEN [s EXCEPT !.abort = "stale_core_valid"]
      ELSE emit([t EXCEPT !.l1d[c][i].way[w] = invalidated(@)], e)

drop_i(s, c, l, j, v) ==
  LET i == l1_to_index(l)
      ways == find_way(s.l1i[c][i], l1_to_tag(l))
      w == first(ways)
      e == event("L1I_SNOOP_INVALIDATE", c, 1, i, w, l,
                 s.l1i[c][i].way[w].state, INVALID, <<>>)
  IN  IF c \notin s.l2[j].way[v].i THEN s
      ELSE IF ways = {} THEN [s EXCEPT !.abort = "stale_core_valid"]
      ELSE emit([s EXCEPT !.l1i[c][i].way[w] = invalidated(@)], e)

\* The copies go core by core, first the data copy, then the instruction copy.
back_invalidate(s, l, j, v) ==
  for_each(s, s.l2[j].way[v].d \cup s.l2[j].way[v].i,
           LAMBDA t, c : drop_i(drop_d(t, c, l, j, v), c, l, j, v))

\* Then the line itself: written to memory if it is MODIFIED, cleared.
drop_l2(s, l, j, v) ==
  LET old == s.l2[j].way[v]
  IN  emit([s EXCEPT !.mem[l] = IF old.state = MODIFIED THEN old.data ELSE @,
                     !.l2[j].way[v] = [invalidated(@) EXCEPT !.d = {}, !.i = {}]],
           event("L2_EVICT", 0, 2, j, v, l, old.state, INVALID, old.data))

evict_l2_way(s, j, v) ==
  LET l == l2_to_addr(s.l2[j].way[v].tag, j)
  IN  IF s.l2[j].way[v].state = INVALID THEN s
      ELSE drop_l2(back_invalidate(s, l, j, v), l, j, v)

evict_l2(s, j) == evict_l2_way(s, j, l2_room(s.l2[j]))

(***************************************************************************)
(* Prefetching.                                                            *)
(***************************************************************************)
\* The fill of a prefetched line, where evict_l2 has made room.
pf_store(s, l, j, w) ==
  emit(l2_cache_fill(s, l, w, s.mem[l], EXCLUSIVE, {}, {}),
       event("PREFETCH_L2", 0, 2, j, w, l, INVALID, EXCLUSIVE, s.mem[l]))

pf_make_room(s, l, j) ==
  LET t == evict_l2(s, j)
  IN  pf_store(t, l, j, l2_room(t.l2[j]))

\* Mutant: the line is filled though the L2 holds it.
pf_fill_l2_always(s, l) == pf_make_room(s, l, l2_to_index(l))

\* pf_fill_l2 for a line inside the page and the memory.
pf_fill_l2(s, l) ==
  LET j == l2_to_index(l)
  IN  IF find_way(s.l2[j], l2_to_tag(l)) # {} THEN s ELSE pf_make_room(s, l, j)

\* pf_nextline_on_miss: the next line, unless it is on another page or
\* outside the memory.
pf_nextline_on_miss(s, l) ==
  IF l + 1 \in Lines /\ l1_to_tag(l + 1) = l1_to_tag(l) THEN pf_fill_l2(s, l + 1) ELSE s

\* The loop of a burst, in the direction of the stream: filled[n] is the state
\* after n rounds; the burst ends where lines does.
fill_burst(s, head, dir, lines) ==
  LET filled[n \in 0 .. PREFETCH_DISTANCE + 1] ==
        IF n = 0 THEN s
        ELSE IF head + n * dir \in lines THEN pf_fill_l2(filled[n - 1], head + n * dir)
                                         ELSE filled[n - 1]
  IN  filled[PREFETCH_DISTANCE + 1]

\* The first matching stream advances and its burst is filled; a miss no stream
\* matches starts a new one.
pf_stream_on_miss(s, c, miss) ==
  LET table == s.pf[c].streams
      matching == {k \in 0 .. NUM_STREAMS - 1 : Pf(c)!matches(table[k], miss)}
      k == first(matching)
      filled == fill_burst(s, Pf(c)!head_after(table[k], miss),
                           Pf(c)!direction_after(table[k], miss),
                           Pf(c)!burst(table[k], miss))
      trained(t, n, stream) ==
        [t EXCEPT !.pf[c].streams[n] = stream,
                  !.pf[c].lru_age = Pf(c)!pf_lru_update(@, n)]
  IN  IF matching = {}
        THEN trained(s, Pf(c)!pf_lru_evict(s.pf[c].lru_age), Pf(c)!started(miss))
        ELSE trained(filled, k, Pf(c)!advanced(table[k], miss))

(***************************************************************************)
(* The handlers, after translation.                                        *)
(***************************************************************************)
\* Fill line l into core c's L1D, or L1I, where evict_l1 has made room.
l1d_fill(s, c, l, line, state) ==
  LET i == l1_to_index(l)
      w == l1_room(s.l1d[c][i])
  IN  emit([s EXCEPT !.l1d[c][i] = l1_cache_fill(@, w, l1_to_tag(l), line, state)],
           event("L1D_FILL", c, 1, i, w, l, INVALID, state, line))

l1i_fill(s, c, l, line) ==
  LET i == l1_to_index(l)
  IN  [s EXCEPT !.l1i[c][i] =
         l1_cache_fill(@, l1_room(@), l1_to_tag(l), line, SHARED)]

returns(s, l, line, counter) == [s EXCEPT !.ret = <<l, line>>, !.counted = counter]

read_l1_hit(s, c, l, i, v) ==
  LET way == s.l1d[c][i].way[v]
      e == event("L1D_HIT", c, 1, i, v, l, way.state, way.state, way.data)
  IN  returns(emit([s EXCEPT !.l1d[c][i] = l1_touch(@, v)], e), l, way.data, "l1d_hits")

read_l2_hit(s, c, l, j, w) ==
  LET state == s.l2[j].way[w].state
      e == evict_l1_d(emit(s, event("L2_HIT", c, 2, j, w, l, state, state, <<>>)),
                      c, l1_to_index(l))
      shared_by_c == [e.l2[j].way[w] EXCEPT !.d = @ \cup {c}]
      t == [e EXCEPT !.l2[j] = l2_touch([@ EXCEPT !.way[w] = shared_by_c], w)]
      d_sharers == t.l2[j].way[w].d \ {c}
      i_sharers == t.l2[j].way[w].i \ {c}
      shared == d_sharers \cup i_sharers # {}
      u == IF shared THEN snoop_downgrade_peers(t, d_sharers, l, j, w) ELSE t
      line == u.l2[j].way[w].data
  IN  returns(l1d_fill(u, c, l, line, IF shared THEN SHARED ELSE EXCLUSIVE),
              l, line, "l2_hits")

\* The L2 and L1D fills of a data miss, with their events.
l2_then_l1d_fill(s, c, l, j, w, line, state) ==
  LET t == emit(l2_cache_fill(s, l, w, line, state, {c}, {}),
                event("L2_FILL", c, 2, j, w, l, INVALID, state, line))
  IN  emit(l1d_fill(t, c, l, line, state),
           event("MEM_FETCH", c, 3, 0, 0, l, INVALID, INVALID, line))

miss_fill(s, c, l, line, state) ==
  LET j == l2_to_index(l)
      t == evict_l1_d(evict_l2(s, j), c, l1_to_index(l))
  IN  l2_then_l1d_fill(t, c, l, j, l2_room(t.l2[j]), line, state)

cpu_read(s, c, l) ==
  LET i == l1_to_index(l)
      j == l2_to_index(l)
      l1_ways == find_way(s.l1d[c][i], l1_to_tag(l))
      l2_ways == find_way(s.l2[j], l2_to_tag(l))
      line == s.mem[l]
  IN  IF l1_ways # {} THEN read_l1_hit(s, c, l, i, first(l1_ways))
      ELSE IF l2_ways # {} THEN read_l2_hit(s, c, l, j, first(l2_ways))
      ELSE returns(pf_stream_on_miss(miss_fill(s, c, l, line, EXCLUSIVE), c, l),
                   l, line, "mem_fetches")

\* A SHARED line is first taken from the peers (which also counts as a use
\* of the L2 way), all instruction copies go, the L2 line is the writer's.
write_l1_hit(s, c, l, i, v, j, w, word, x) ==
  LET old == s.l1d[c][i].way[v]
      others == s.l2[j].way[w].d \ {c}
      peers_gone == snoop_invalidate_peers(s, others, l, j, w)
      t == IF old.state = SHARED
             THEN [peers_gone EXCEPT !.l2[j] = l2_touch(@, w)] ELSE s
      u == snoop_invalidate_peers_i(t, l, j, w)
      line == [old.data EXCEPT ![word] = x]
  IN  emit([u EXCEPT
              !.l2[j].way[w].d = {c}, !.l2[j].way[w].state = MODIFIED,
              !.l1d[c][i] = l1_touch([@ EXCEPT !.way[v].data = line,
                                               !.way[v].state = MODIFIED], v),
              !.counted = "l1d_hits"],
           event("L1D_HIT", c, 1, i, v, l, old.state, MODIFIED, line))

write_l2_hit(s, c, l, j, w, word, x) ==
  LET state == s.l2[j].way[w].state
      h == emit(s, event("L2_HIT", c, 2, j, w, l, state, state, <<>>))
      others == s.l2[j].way[w].d \ {c}
      line == [snooped_line(s, others, l, j, w) EXCEPT ![word] = x]
      e == evict_l1_d(snoop_invalidate_peers(h, others, l, j, w), c, l1_to_index(l))
      u == snoop_invalidate_peers_i(l1d_fill(e, c, l, line, MODIFIED), l, j, w)
  IN  [u EXCEPT !.l2[j] = l2_touch([@ EXCEPT !.way[w].d = {c},
                                             !.way[w].state = MODIFIED], w),
                !.counted = "l2_hits"]

cpu_write(s, c, l, word, x) ==
  LET i == l1_to_index(l)
      j == l2_to_index(l)
      l1_ways == find_way(s.l1d[c][i], l1_to_tag(l))
      l2_ways == find_way(s.l2[j], l2_to_tag(l))
      line == [s.mem[l] EXCEPT ![word] = x]
  IN  IF l1_ways # {}
        THEN IF l2_ways = {}
               THEN [s EXCEPT !.abort = "write_hit_not_in_l2"]
               ELSE write_l1_hit(s, c, l, i, first(l1_ways), j, first(l2_ways), word, x)
      ELSE IF l2_ways # {} THEN write_l2_hit(s, c, l, j, first(l2_ways), word, x)
      ELSE [pf_stream_on_miss(miss_fill(s, c, l, line, MODIFIED), c, l)
              EXCEPT !.counted = "mem_fetches"]

\* A fetch reports no hit and no fill, only what it evicts and snoops.
fetch_l2_hit(s, c, l, j, w) ==
  LET e == evict_l1_i(s, c, l1_to_index(l))
      shared_by_c == [e.l2[j].way[w] EXCEPT !.i = @ \cup {c}]
      t == [e EXCEPT !.l2[j] = l2_touch([@ EXCEPT !.way[w] = shared_by_c], w)]
      d_sharers == t.l2[j].way[w].d \ {c}
      i_sharers == t.l2[j].way[w].i \ {c}
      u == IF d_sharers \cup i_sharers # {}
             THEN snoop_downgrade_peers(t, d_sharers, l, j, w) ELSE t
      line == u.l2[j].way[w].data
  IN  returns(l1i_fill(u, c, l, line), l, line, "l2_hits")

fetch_miss(s, c, l, j) ==
  LET line == s.mem[l]
      e == evict_l1_i(evict_l2(s, j), c, l1_to_index(l))
      w == l2_room(e.l2[j])
      t == l2_cache_fill(e, l, w, line, EXCLUSIVE, {}, {c})
  IN  returns(pf_nextline_on_miss(l1i_fill(t, c, l, line), l), l, line, "mem_fetches")

cpu_fetch(s, c, l) ==
  LET i == l1_to_index(l)
      j == l2_to_index(l)
      l1_ways == find_way(s.l1i[c][i], l1_to_tag(l))
      l2_ways == find_way(s.l2[j], l2_to_tag(l))
      v == first(l1_ways)
  IN  IF l1_ways # {}
        THEN returns([s EXCEPT !.l1i[c][i] = l1_touch(@, v)], l,
                     s.l1i[c][i].way[v].data, "l1i_hits")
      ELSE IF l2_ways # {}
        THEN IF s.l2[j].way[first(l2_ways)].state = MODIFIED
               THEN [s EXCEPT !.abort = "fetch_of_modified", !.ret = ret]
               ELSE fetch_l2_hit(s, c, l, j, first(l2_ways))
      ELSE fetch_miss(s, c, l, j)

(***************************************************************************)
(* The specification.                                                      *)
(***************************************************************************)
become(s) ==
  /\ l1d' = s.l1d
  /\ l1i' = s.l1i
  /\ l2' = s.l2
  /\ mem' = s.mem
  /\ pf' = s.pf
  /\ abort' = s.abort
  /\ ret' = s.ret
  /\ UNCHANGED workload

Init ==
  /\ l1d = [c \in Cores |-> [i \in 0 .. L1_SETS - 1 |-> EmptyL1Set]]
  /\ l1i = [c \in Cores |-> [i \in 0 .. L1_SETS - 1 |-> EmptyL1Set]]
  /\ l2 = [j \in 0 .. L2_SETS - 1 |-> EmptyL2Set]
  /\ mem = [l \in Lines |-> ZeroLine]
  /\ pf = [c \in Cores |->
             [streams |-> [k \in 0 .. NUM_STREAMS - 1 |-> Pf(c)!NoStream],
              lru_age |-> [k \in 0 .. NUM_STREAMS - 1 |-> NUM_STREAMS - 1 - k]]]
  /\ abort = "none"
  /\ ret = <<>>
  /\ workload \in Workloads

Next ==
  /\ abort = "none"
  /\ \E c \in Cores, l \in Lines :
       \/ <<"read", l>> \in workload[c] /\ become(cpu_read(now, c, l))
       \/ /\ <<"write", l>> \in workload[c]
          /\ \E w \in Words, x \in Vals : become(cpu_write(now, c, l, w, x))
       \/ <<"fetch", l>> \in workload[c] /\ become(cpu_fetch(now, c, l))

Spec == Init /\ [][Next]_vars

(***************************************************************************)
(* Properties.                                                             *)
(***************************************************************************)

\* A line is in at most one way of its set, though INVALID ways keep old tags
\* and every handler stops at the first way find_l1_way or l2_find_way finds.
OneWayPerLine ==
  LET distinct(set) ==
        \A v, w \in DOMAIN set.way \ invalid_ways(set) :
          set.way[v].tag = set.way[w].tag => v = w
  IN  /\ \A c \in Cores, i \in 0 .. L1_SETS - 1 : distinct(l1d[c][i]) /\ distinct(l1i[c][i])
      /\ \A j \in 0 .. L2_SETS - 1 : distinct(l2[j])

\* Ways, tags, replacement trees and stream tables implement the protocol of
\* MesiProtocol, so what is proved of the protocol holds of the code: PLRU
\* picks victims only from full sets, tags name the line that was evicted,
\* the loops of evict_l2 and of a burst leave what their one-step forms say.
MesiProtocolSpec == Mesi!Spec
=============================================================================
