----------------------------- MODULE Visualizer -----------------------------
(***************************************************************************)
(* A program drives the simulator and records a trace; the visualizer of   *)
(* renderer.cpp plays it back.                                             *)
(*                                                                         *)
(* "setup": accesses before the callback is set, as in producer_consumer.  *)
(* "recording": every thread takes a step number (event_begin_step) and    *)
(* then makes its access; the accesses follow each other in the order of   *)
(* bus_lock, not in the order of their numbers.  "viewing": the main loop  *)
(* of renderer_run, one action per key and one per frame.                  *)
(*                                                                         *)
(* The shadow state has no tags: the code stores and never reads them.     *)
(***************************************************************************)
EXTENDS CacheHierarchy, FiniteSetsExt

CONSTANTS
  Keys,         (* the keys the user presses                               *)
  MaxAccesses,  (* bound: accesses of the program                          *)
  MAX_SPEED,    (* 64 in the code                                          *)
  FLASH         (* frames a prefetched way flashes; 10 in the code         *)

\* The keys the loop of renderer_run has a case for.
ASSUME KeysAssumption == Keys \subseteq {"escape", "space", "right", "left", "up", "down"}

VARIABLES
  phase, budget,
  pmc,          (* the performance counters of each core                   *)
  queue,        (* the event queue, oldest first                           *)
  next_seq,     (* of the queue                                            *)
  step,         (* the current_seq of each thread, NoStep between accesses *)
  history,      (* history[k + 1]: the caches after the access of event k  *)
  cursor,       (* number of events applied; 0 is the null pointer         *)
  shadow, current_seq, playing, speed, running

recorder == <<phase, budget, pmc, queue, next_seq, step, history>>
renderer == <<cursor, shadow, current_seq, playing, speed, running>>
visualizer_vars == <<vars, recorder, renderer>>

NoStep == -1
SetsOfL1 == 0 .. L1_SETS - 1
SetsOfL2 == 0 .. L2_SETS - 1

(***************************************************************************)
(* The shadow state.                                                       *)
(***************************************************************************)
ShadowCell == [state |-> INVALID, data |-> ZeroLine]

ShadowCounters == [l1d_hits |-> 0, l2_hits |-> 0, mem_fetches |-> 0,
                   snoops |-> 0, prefetches |-> 0]

ShadowState ==
  [l1d |-> [c \in Cores |-> [i \in SetsOfL1 |-> [w \in Plru1!Ways |-> ShadowCell]]],
   l2 |-> [j \in SetsOfL2 |-> [cell |-> [w \in Plru2!Ways |-> ShadowCell],
                               l2_dominant |-> INVALID]],
   flash |-> [j \in SetsOfL2 |-> [w \in Plru2!Ways |-> 0]],
   counters |-> [c \in Cores |-> ShadowCounters]]

\* The counters an event moves; forward by one up, backward by one down.
counters_of(e) ==
  CASE e.type = "L1D_HIT" -> {"l1d_hits"}
    [] e.type = "L2_HIT" -> {"l2_hits"}
    [] e.type = "MEM_FETCH" -> {"mem_fetches"}
    [] e.type \in {"SNOOP_DOWNGRADE", "SNOOP_INVALIDATE"} -> {"snoops"}
    [] e.type = "PREFETCH_L2" -> {"prefetches"}
    [] OTHER -> {}

update_counters(s, e, delta) ==
  [s EXCEPT !.counters[e.core_id] =
     [k \in DOMAIN @ |-> IF k \in counters_of(e) THEN @[k] + delta ELSE @[k]]]

mesi_priority == [M |-> 3, E |-> 2, S |-> 1, I |-> 0]

\* The strongest of some states.
dominant(states) ==
  CHOOSE a \in states : \A b \in states : mesi_priority[a] >= mesi_priority[b]

recompute_l2_dominant(set) ==
  [set EXCEPT !.l2_dominant = dominant({set.cell[w].state : w \in Plru2!Ways})]

\* memcpy of the event's bytes, if it has any.
with_data(cell, e) == IF e.data = <<>> THEN cell ELSE [cell EXCEPT !.data = e.data]

L1Types == {"L1D_FILL", "L1D_EVICT", "L1D_HIT", "SNOOP_INVALIDATE", "SNOOP_DOWNGRADE"}
L2Types == {"L2_FILL", "PREFETCH_L2", "L2_EVICT", "L2_HIT"}

\* Mutant: a hit keeps the state the line had.
cell_forward_hit_keeps_state(cell, e) ==
  CASE e.type \in {"L1D_FILL", "SNOOP_DOWNGRADE", "L2_FILL", "PREFETCH_L2"} ->
         with_data([cell EXCEPT !.state = e.new_state], e)
    [] e.type \in {"L1D_EVICT", "SNOOP_INVALIDATE", "L2_EVICT"} ->
         [cell EXCEPT !.state = INVALID]
    [] e.type \in {"L1D_HIT", "L2_HIT"} -> cell

\* What an event does to its cell, forward.
cell_forward(cell, e) ==
  CASE e.type \in {"L1D_FILL", "L1D_HIT", "SNOOP_DOWNGRADE", "L2_FILL", "PREFETCH_L2"} ->
         with_data([cell EXCEPT !.state = e.new_state], e)
    [] e.type \in {"L1D_EVICT", "SNOOP_INVALIDATE", "L2_EVICT"} ->
         [cell EXCEPT !.state = INVALID]
    [] e.type = "L2_HIT" -> [cell EXCEPT !.state = e.new_state]

\* Mutant: stepping back over an eviction from the L2 leaves the way empty.
cell_backward_forgets_l2_evict(cell, e) ==
  CASE e.type \in {"L1D_FILL", "L2_FILL", "PREFETCH_L2"} -> [cell EXCEPT !.state = INVALID]
    [] e.type = "L1D_EVICT" -> with_data([cell EXCEPT !.state = e.old_state], e)
    [] e.type \in {"SNOOP_INVALIDATE", "SNOOP_DOWNGRADE", "L1D_HIT", "L2_HIT"} ->
         [cell EXCEPT !.state = e.old_state]
    [] e.type = "L2_EVICT" -> cell

\* Mutant: stepping back over a downgrade leaves the line SHARED.
cell_backward_skips_downgrade(cell, e) ==
  CASE e.type \in {"L1D_FILL", "L2_FILL", "PREFETCH_L2"} -> [cell EXCEPT !.state = INVALID]
    [] e.type \in {"L1D_EVICT", "L2_EVICT"} ->
         with_data([cell EXCEPT !.state = e.old_state], e)
    [] e.type \in {"SNOOP_INVALIDATE", "L1D_HIT", "L2_HIT"} ->
         [cell EXCEPT !.state = e.old_state]
    [] e.type = "SNOOP_DOWNGRADE" -> cell

\* And backward: only an eviction has its bytes restored.
cell_backward(cell, e) ==
  CASE e.type \in {"L1D_FILL", "L2_FILL", "PREFETCH_L2"} -> [cell EXCEPT !.state = INVALID]
    [] e.type \in {"L1D_EVICT", "L2_EVICT"} ->
         with_data([cell EXCEPT !.state = e.old_state], e)
    [] e.type \in {"SNOOP_INVALIDATE", "SNOOP_DOWNGRADE", "L1D_HIT", "L2_HIT"} ->
         [cell EXCEPT !.state = e.old_state]

\* The part common to both directions: which cell an event names.
apply_to_cell(s, e, Cell(_, _)) ==
  LET set == [s.l2[e.set_index] EXCEPT !.cell[e.way] = Cell(@, e)]
  IN  IF e.cache_level = 1 /\ e.type \in L1Types
        THEN [s EXCEPT !.l1d[e.core_id][e.set_index][e.way] = Cell(@, e)]
      ELSE IF e.cache_level = 2 /\ e.type \in L2Types
        THEN [s EXCEPT !.l2[e.set_index] = recompute_l2_dominant(set)]
      ELSE s

apply_event_forward(s, e) ==
  LET t == apply_to_cell(update_counters(s, e, 1), e, cell_forward)
  IN  IF e.type = "PREFETCH_L2" THEN [t EXCEPT !.flash[e.set_index][e.way] = FLASH] ELSE t

apply_event_backward(s, e) == apply_to_cell(update_counters(s, e, -1), e, cell_backward)

(***************************************************************************)
(* Stepping.  A step is a run of neighbouring events with one seq.         *)
(***************************************************************************)
\* Mutant: a step is one event.
stops_everywhere == 1 .. Len(queue)

\* The ends of the steps; the cursor is 0 or on one of them.
stops == {k \in 1 .. Len(queue) : k = Len(queue) \/ queue[k].seq # queue[k + 1].seq}

\* Where the cursor stops when it steps forward from k, or back from k.
stop_after(k) == IF k = Len(queue) THEN k ELSE Min({n \in stops : n > k})

stop_before(k) == Max({0} \cup {n \in stops : n < k})

\* The shadow state after the events up to stop, or after undoing them.
shadow_forward(stop) ==
  LET after[k \in cursor .. stop] ==
        IF k = cursor THEN shadow ELSE apply_event_forward(after[k - 1], queue[k])
  IN  after[stop]

shadow_backward(stop) ==
  LET before[k \in stop .. cursor] ==
        IF k = cursor THEN shadow ELSE apply_event_backward(before[k + 1], queue[k + 1])
  IN  before[stop]

step_forward ==
  /\ cursor' = stop_after(cursor)
  /\ current_seq' = IF cursor = Len(queue) THEN current_seq ELSE queue[cursor + 1].seq
  /\ shadow' = shadow_forward(stop_after(cursor))

step_backward ==
  /\ cursor' = stop_before(cursor)
  /\ current_seq' = IF stop_before(cursor) = 0 THEN 0 ELSE queue[stop_before(cursor)].seq
  /\ shadow' = shadow_backward(stop_before(cursor))

\* The cursor after n iterations of the auto-play loop.
stop_after_steps(n) ==
  LET stop[i \in 0 .. n] == IF i = 0 THEN cursor ELSE stop_after(stop[i - 1])
  IN  stop[n]

\* Mutant: the loop never turns auto-play off.
playing_for_ever == playing

\* An iteration that finds the cursor on the last event ends auto-play.
still_playing == playing /\ stop_after_steps(speed - 1) \notin {Len(queue)} \ {0}

(***************************************************************************)
(* The recorder.                                                           *)
(***************************************************************************)
snapshot(s, counters) ==
  [l1d |-> [c \in Cores |-> [i \in SetsOfL1 |-> s.l1d[c][i].way]],
   l2 |-> [j \in SetsOfL2 |-> s.l2[j].way],
   pmc |-> counters]

\* pmc.<counter>++ of the handler.
count(counters, c, counter) ==
  IF counter \in DOMAIN counters[c] THEN [counters EXCEPT ![c][counter] = @ + 1] ELSE counters

event_begin_step(c) ==
  /\ phase = "recording"
  /\ step[c] = NoStep
  /\ budget > 0
  /\ abort = "none"
  /\ budget' = budget - 1
  /\ step' = [step EXCEPT ![c] = next_seq]
  /\ next_seq' = next_seq + 1
  /\ UNCHANGED <<vars, phase, pmc, queue, history, renderer>>

\* An access before the recording starts: event_begin_step does nothing.
unrecorded(c, s) ==
  /\ phase = "setup"
  /\ budget > 0
  /\ budget' = budget - 1
  /\ become(s)
  /\ pmc' = count(pmc, c, s.counted)
  /\ UNCHANGED <<phase, queue, next_seq, step, history, renderer>>

numbered(e, n) ==
  [seq |-> n, type |-> e.type, core_id |-> e.core_id, cache_level |-> e.cache_level,
   set_index |-> e.set_index, way |-> e.way, address |-> e.address,
   old_state |-> e.old_state, new_state |-> e.new_state, data |-> e.data]

\* event_callback pushes the events of the access with the thread's number.
recorded(c, s) ==
  /\ phase = "recording"
  /\ step[c] # NoStep
  /\ become(s)
  /\ pmc' = count(pmc, c, s.counted)
  /\ queue' = queue \o [k \in DOMAIN s.events |-> numbered(s.events[k], step[c])]
  /\ history' = history \o [k \in DOMAIN s.events |-> snapshot(s, pmc')]
  /\ step' = [step EXCEPT ![c] = NoStep]
  /\ UNCHANGED <<phase, budget, next_seq, renderer>>

access(c, s) == unrecorded(c, s) \/ recorded(c, s)

program(c) ==
  /\ abort = "none"
  /\ \E l \in Lines :
       \/ <<"read", l>> \in workload[c] /\ access(c, cpu_read(now, c, l))
       \/ /\ <<"write", l>> \in workload[c]
          /\ \E w \in Words, x \in Vals : access(c, cpu_write(now, c, l, w, x))
       \/ <<"fetch", l>> \in workload[c] /\ access(c, cpu_fetch(now, c, l))

start_recording ==
  /\ phase = "setup"
  /\ abort = "none"
  /\ phase' = "recording"
  /\ history' = <<snapshot(now, pmc)>>
  /\ UNCHANGED <<vars, budget, pmc, queue, next_seq, step, renderer>>

\* The threads have joined, the trace is written, the visualizer reads it.
open_trace ==
  /\ phase = "recording"
  /\ abort = "none"
  /\ \A c \in Cores : step[c] = NoStep
  /\ phase' = "viewing"
  /\ UNCHANGED <<vars, budget, pmc, queue, next_seq, step, history, renderer>>

(***************************************************************************)
(* renderer_run.                                                           *)
(***************************************************************************)
renderer_init ==
  /\ cursor = 0
  /\ shadow = ShadowState
  /\ current_seq = 0
  /\ playing = FALSE
  /\ speed = 1
  /\ running = TRUE

key_down(k) ==
  /\ phase = "viewing"
  /\ CASE k = "escape" -> /\ running' = FALSE
                          /\ UNCHANGED <<cursor, shadow, current_seq, playing, speed>>
       [] k = "space" -> /\ playing' = ~playing
                         /\ UNCHANGED <<cursor, shadow, current_seq, speed, running>>
       [] k = "right" -> step_forward /\ UNCHANGED <<playing, speed, running>>
       [] k = "left" -> step_backward /\ UNCHANGED <<playing, speed, running>>
       [] k = "up" -> /\ speed' = IF speed < MAX_SPEED THEN speed * 2 ELSE speed
                      /\ UNCHANGED <<cursor, shadow, current_seq, playing, running>>
       [] k = "down" -> /\ speed' = IF speed > 1 THEN speed \div 2 ELSE speed
                        /\ UNCHANGED <<cursor, shadow, current_seq, playing, running>>
  /\ UNCHANGED <<vars, recorder>>

\* Mutant: the loop stops before the last set.
decayed_but_the_last_set(flash) == [j \in SetsOfL2 |-> [w \in Plru2!Ways |->
                     IF j + 1 \in SetsOfL2 /\ flash[j][w] > 0 THEN flash[j][w] - 1 ELSE flash[j][w]]]

decayed(flash) == [j \in SetsOfL2 |-> [w \in Plru2!Ways |->
                     IF flash[j][w] > 0 THEN flash[j][w] - 1 ELSE 0]]

\* The rest of the loop body: auto-play, the flashes, and the loop condition.
frame ==
  /\ phase = "viewing"
  /\ LET stop == IF playing THEN stop_after_steps(speed) ELSE cursor
     IN  /\ cursor' = stop
         /\ current_seq' = IF stop = cursor THEN current_seq ELSE queue[stop].seq
         /\ shadow' = [shadow_forward(stop) EXCEPT !.flash = decayed(@)]
  /\ playing' = still_playing
  /\ phase' = IF running THEN phase ELSE "closed"
  /\ UNCHANGED <<vars, budget, pmc, queue, next_seq, step, history, speed, running>>

(***************************************************************************)
(* The specification.  The main loop keeps drawing frames: SDL_PollEvent   *)
(* runs out of pending input.                                              *)
(***************************************************************************)
VisualizerInit ==
  /\ Init
  /\ phase = "setup"
  /\ budget = MaxAccesses
  /\ pmc = [c \in Cores |-> [l1d_hits |-> 0, l1i_hits |-> 0, l2_hits |-> 0, mem_fetches |-> 0]]
  /\ queue = <<>>
  /\ next_seq = 0
  /\ step = [c \in Cores |-> NoStep]
  /\ history = <<>>
  /\ renderer_init

VisualizerNext ==
  \/ \E c \in Cores : event_begin_step(c) \/ program(c)
  \/ start_recording
  \/ open_trace
  \/ \E k \in Keys : key_down(k)
  \/ frame

VisualizerSpec == VisualizerInit /\ [][VisualizerNext]_visualizer_vars

FairVisualizerSpec == VisualizerSpec /\ WF_visualizer_vars(frame)

(***************************************************************************)
(* Properties.                                                             *)
(***************************************************************************)
\* The caches as they were after the last step shown.
shown == history[cursor + 1]

\* Some event up to the cursor was about this cell.
touched(c, i, w) ==
  \E k \in 1 .. cursor : /\ queue[k].type \in L1Types
                         /\ queue[k].core_id = c
                         /\ queue[k].set_index = i
                         /\ queue[k].way = w

\* No core of program W fetches more lines of a set of its L1I than it has ways.
code_fits(W) ==
  \A c \in Cores, i \in SetsOfL1 :
    Cardinality({l \in Lines : <<"fetch", l>> \in W[c] /\ l1_to_index(l) = i}) <= NUM_L1_WAYS

\* Wherever the user stepped, forward or back, the L1D states drawn are the
\* states the simulated caches had after that step; only cells that no step so
\* far has touched may show INVALID for a line cached before the recording.
ShadowL1dTrue ==
  phase = "viewing" =>
    \A c \in Cores, i \in SetsOfL1, w \in Plru1!Ways :
      \/ shadow.l1d[c][i][w].state = shown.l1d[c][i][w].state
      \/ ~touched(c, i, w) /\ shadow.l1d[c][i][w].state = INVALID

\* Wherever the user stepped, the hits and fetches in the statistics are what
\* the performance counters gained between the start of the recording and the
\* step shown.  (An instruction fetch counts and reports no event, so this is
\* about the cores whose program has none.)
CountersTrue ==
  phase = "viewing" =>
    \A c \in Cores, k \in {"l1d_hits", "l2_hits", "mem_fetches"} :
      workload[c] \cap ({"fetch"} \X Lines) = {} =>
        shadow.counters[c][k] = shown.pmc[c][k] - history[1].pmc[c][k]

\* Some event up to the cursor was about this L2 way.
touched_l2(j, w) ==
  \E k \in 1 .. cursor : /\ queue[k].type \in L2Types
                         /\ queue[k].set_index = j
                         /\ queue[k].way = w

\* Wherever the user stepped, the L2 ways drawn as filled are the ways that
\* held a line after that step (the states drawn may be old: a write hit and
\* the snoops change the L2 state and report no L2 event, and so does the fill
\* of an instruction fetch, which this leaves out).
ShadowL2Filled ==
  phase = "viewing" /\ (\A c \in Cores : workload[c] \cap ({"fetch"} \X Lines) = {}) =>
    \A j \in SetsOfL2, w \in Plru2!Ways :
      \/ shadow.l2[j].cell[w].state = INVALID <=> shown.l2[j][w].state = INVALID
      \/ ~touched_l2(j, w) /\ shadow.l2[j].cell[w].state = INVALID

\* A line drawn in an L1D has the bytes the cache had after the step shown.
bytes_true ==
  \A c \in Cores, i \in SetsOfL1, w \in Plru1!Ways :
    shadow.l1d[c][i][w].state # INVALID =>
      shadow.l1d[c][i][w].data = shown.l1d[c][i][w].data

\* Moving forward, by key or by auto-play at any speed, keeps the bytes drawn
\* true.  (Moving back does not: a hit carries the bytes after a store.)
ForwardKeepsBytesTrue ==
  [][phase = "viewing" /\ bytes_true /\ cursor' >= cursor => bytes_true']_visualizer_vars

a_key == \E k \in Keys : key_down(k)

\* Auto-play of a trace that is not empty ends, at any speed and from any
\* step, unless the user closes the window or keeps pressing keys.
PlaybackFinishes ==
  \/ []<><<a_key>>_visualizer_vars
  \/ (phase = "viewing" /\ playing /\ queue # <<>>) ~> (~playing \/ phase = "closed")

\* The flashes of prefetched ways fade, unless the user keeps pressing keys.
FlashesFade ==
  \/ []<><<a_key>>_visualizer_vars
  \/ []<>(shadow.flash = ShadowState.flash \/ phase = "closed")
=============================================================================
