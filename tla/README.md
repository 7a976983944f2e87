# A TLA+ development of the cache simulator

The repository simulates the memory system of an Intel Core 2 Duo: two cores
with private L1 caches and TLBs, a shared inclusive L2, MESI coherence, page
tables, prefetchers, and a visualizer for recorded traces. C++ programs drive
the simulator through `cpu_read`, `cpu_write` and `cpu_fetch`. This directory
models its core logic in TLA+, model-checks it with TLC and proves its main
invariants with TLAPS.

## The system

| Component | State | Operations | Talks to |
| --- | --- | --- | --- |
| Coherence (`cpu.cpp`, `uncore.cpp`, `core.cpp`) | L1D and L1I of every core, the L2 with two sharer masks per line, main memory | `cpu_read`, `cpu_write`, `cpu_fetch`, and inside them the snoops, `evict_l1`, `evict_l2` | translation before, prefetcher after a miss, event callback throughout |
| Prefetchers (`cpu.cpp`, `core.cpp`) | stream table and LRU ages of a core | `pf_stream_on_miss`, `pf_nextline_on_miss`, `pf_fill_l2` | fills and evicts L2 lines |
| Translation (`os.cpp`, `memory.cpp`, `cpu.cpp`) | frame allocator, page tables, active root, three TLBs per core | `alloc_and_map`, `process_switch`, `translate`, `page_walk` | page tables lie in the simulated memory and bypass the caches |
| Replacement (`plru.h`) | tree bits of each set | `plru_update`, `plru_victim` | caches, TLBs |
| Events and traces (`event.h`, `event.cpp`) | queue, pool, sequence numbers | `event_begin_step`, `event_callback`, `write_trace`, `read_trace` | called from all threads |
| Visualizer (`renderer.cpp`) | shadow caches, counters, cursor | `step_forward`, `step_backward`, auto-play | a trace that was read |
| Benchmarks (`benchmarks/`) | the simulated program | two threads over one `CPU` | all of the above |

Where the difficulty lies:

- **Interleaving.** Threads call the handlers concurrently, and every handler
  holds `bus_lock` from entry to return, so accesses are atomic, but any order
  of accesses of any cores is possible. What one core may do without a snoop
  (write an EXCLUSIVE line, hit a SHARED one) depends on what all the others
  have done, lost by eviction or prefetched since.
- **Order inside a handler.** A miss evicts from the L2, which invalidates L1
  lines of all cores, then evicts from the L1, which changes L2 states and
  masks, then fills, then prefetches, which evicts again.
- **Stale copies of state.** The L2 mirrors the L1s in its sharer masks and
  states; the TLBs mirror the page tables.
- **Partial failure.** `alloc_and_map` can fail after it took a frame and made
  some of the tables.
- **Boundaries.** The window and the loop bound of a stream, page boundaries,
  the last frame, page tables larger than a frame, the last event of a block.
- **Numbers taken outside the lock.** A thread takes its step number before it
  waits for `bus_lock`, so steps reach the event queue out of order.
- **Undoing.** The visualizer steps back through a trace of events that do not
  report every change of state.
- **Waiting.** The benchmark's threads spin on each other's index through the
  simulated caches; auto-play and flashes end by counting.

`PROJECT.json` lists these hazards at their lines, with the properties that
would notice them going wrong.

## The modules

| Module | Content |
| --- | --- |
| `CoherentMemory` | abstract: one flat memory, whole reads and one-word writes |
| `MesiProtocol` | the three handlers above the L1s, the L2 and memory |
| `MCMesi` | instance for TLC: symmetry of the cores |
| `MesiProtocol_proofs` | the inductive invariant and seven theorems; which bytes the accesses deliver and what may change them: three more |
| `PlruTree` | the pseudo-LRU tree as a pure algorithm |
| `Plru` | one set under any sequence of hits and replacements |
| `Plru_proofs` | the shape of the tree and three theorems |
| `CacheHierarchy` | the handlers with ways, tags, trees, stream tables, counters and callback events |
| `CacheHierarchy_proofs` | sets and ways, and the events that tell of them, through every stage of the handlers and into the picture: four theorems about `CacheHierarchy` and `Visualizer` |
| `MCCaches` | the programs the caches are run with |
| `StreamTable` | abstract: a list of streams, most recent first |
| `StreamPrefetcher` | the stream table with slots and ages, training and bursts |
| `StreamPrefetcher_proofs` | three theorems and the refinement of the list |
| `VirtualMemory` | abstract: a private mapping of every process |
| `AddressSpace` | frames, page tables, TLBs, translation, process switches |
| `AddressSpace_proofs` | three theorems and the refinement of the private mapping |
| `MCSpace` | instance for TLC: symmetry of the processes |
| `EventTrace` | event pool and queue, step numbers, trace files |
| `EventTrace_proofs` | the two inductive invariants and five theorems |
| `Visualizer` | a program that records a trace, and the main loop that plays it back |
| `MCView` | the programs whose traces are viewed |
| `BoundedQueue` | abstract: a bounded first-in first-out queue |
| `ProducerConsumer` | the benchmark's two threads over a flat memory |
| `ProducerConsumer_proofs` | three theorems and the refinement of the queue |
| `QueueOnCaches` | the same threads over `MesiProtocol` |
| `MCQueue` | instance for TLC: the physical lines of a small queue |
| `QueueOnCaches_proofs` | programs that fit the L2: two theorems |

How they are composed:

- `CacheHierarchy` implements `MesiProtocol`, which implements `CoherentMemory`
  as far as the first finding allows (theorem `FlatMemoryUnlessCleanEviction`),
  and wholly for a program that fits the L2 (theorem `WorkingSetIsFlat`).
- `StreamPrefetcher` implements `StreamTable`; `CacheHierarchy` uses its
  operators on the stream table of each core, and `PlruTree` in every set.
- `AddressSpace` implements `VirtualMemory`.
- `ProducerConsumer` implements `BoundedQueue`; `QueueOnCaches` takes the
  threads' steps from it and the memory's steps from `MesiProtocol`, and
  implements `ProducerConsumer` over a flat memory.
- `Visualizer` extends `CacheHierarchy`: what it plays back is what the handlers
  report, and what it shows is compared with what the caches were.

### MesiProtocol

The variables are the structs: `l1d`, `l1i` (`Core::l1d`, `Core::l1i`), `l2`
(`L2Set`, with `d` and `i` for `core_valid_d` and `core_valid_i`), `mem`, and two
that record outcomes: `abort` (which `std::abort` was reached) and `ret` (what
the last access delivered). One action is one handler after translation, split
on the level that serves it: `read_l1_hit`, `read_l2_hit`, `read_miss`, and so
on. The helpers of `cpu.cpp` and `uncore.cpp` are operators from hierarchies
(`here`) to hierarchies, composed in the order of the code.

Abstractions:

- A cache maps line numbers to contents. The way and the pseudo-LRU bits are
  left out: a full set gives up *any* of its lines, so every choice of
  `plru_victim` is included, and a set with an INVALID way evicts nothing.
- An access reads the whole line and writes one word of it: accesses do not
  cross lines (`cpu.h:18-20`).
- After an L2 miss of a read or a write, any subset of the absent lines of the
  page is filled (`after_stream_miss`). Which lines the code picks is the
  subject of `StreamPrefetcher`; its `BurstOnMissedPage` is what justifies
  `prefetchable`. The lines of one page lie in different L2 sets
  (`GeometryAssumption`), so a burst is one simultaneous update.
- The bytes that an INVALID way still holds are never read and are not kept.
- Accesses that page-fault change no cache and are left out. The bounds tests
  at lines 288, 529, 660 and 752 of `cpu.cpp` concern physical addresses outside
  the memory, which no line number of the model names.

### CacheHierarchy

What `MesiProtocol` leaves open is decided here as the code decides it: the first
way that matches, an INVALID way before a victim, the victim of the tree, the
loops over sharer masks core by core, the burst line by line in the direction of
the stream. The handlers are operators from the state before a call to the
state after it; the state carries the callback events of the access, the
counter it increments and the data it returns. INVALID ways keep their tags.

The accesses of a run come from a set of programs (`Workloads`): for each core,
the kinds of access and the lines it uses. The state space of all accesses to
all lines is out of reach with ways, tags and trees; that question is answered
by `MesiProtocol`, and the programs make the cases in which the two could differ
(see Bounds).

### StreamPrefetcher

One core's table. Any line can be the next L2 miss, since the other core and
the evictions decide what the L2 holds. The loop of a burst is given in closed
form: `advanced` moves the head as far as `burst_limit` and `fillable` allow. The
detector never learns whether a line was already in the L2, because
`pf_fill_l2` answers true for both.

### PlruTree, Plru

The tree bits are a function on the inner nodes. `Plru` adds two histories that
the code does not have: the ways used since each way's last use, and the victims
since the last hit.

### AddressSpace

Memory is counted in frames and entries; `cells[f]` are the entries in frame f.
A table has `PAGE_TABLE_ENTRIES` entries and a frame has half as many
(`FRAME_ENTRIES`), as in the code, where 512 entries of 16 bytes take two 4 KB
frames. Process tables (`pml4`) are part of the `Process` struct. `alloc_and_map`
is the whole call with its failures; `process_switch` sets the root and flushes
the TLBs of all cores; `translate_data` and `translate_fetch` are the two
`translate` templates; `write_back` is a dirty line of a program's page reaching
memory. Frame 0 is never handed out (`fa.watermark` starts at `PAGE_SIZE`), so 0
stands for "not present".

A TLB is the partial map its sets hold; which entry of a full set is replaced is
left open, which includes every choice of the tree. A page that is mapped again
keeps its old frame in the TLBs: no function tells them. `stale` is a history of
the frames the active process's pages have lost since the last switch, and
`VirtualMemory` allows an access to see one of those. `VirtualMemory` also allows some
pages to be `cut_off`: mapped, but never found. It allows this once, for one process
and pages not mapped before, and not at all if every frame has room for a table
(`TablesFit`, here `limit < size`).

### EventTrace

`enter`, `event_callback` and `leave` are the lock, the callbacks and the unlock of
one access; `event_begin_step` comes before `enter`, outside the lock, so threads
may overtake each other in between. `push` is `EventPool::alloc` and the linking of
the node; a node's address is its block and offset, and `alloc` fails when
`malloc` does. `write_trace` ends in any of the ways in which `fopen`, `fwrite` and
`fclose` can fail; `read_open`, `read_record`, `read_error` and `read_end` are
`read_trace` in another process, with an empty pool. An event is its step number
and its bytes; the other fields are copied like the number. `order` and
`recorded` are histories.

### Visualizer

`program` is an access of a thread, first unrecorded (before the callback is set),
then recorded with the number the thread took; `open_trace` is the joined
program's trace in the visualizer. Each key of `renderer_run` is an alternative of
`key_down`, and `frame` is the rest of the loop body: auto-play, the decay of the
flashes, the loop condition. `shadow` is `ShadowState` without the tags, which are
stored and never read. `history` keeps the simulated caches and counters after the
access of each event, for comparison.

### ProducerConsumer, QueueOnCaches

One action is one `read32` or `write32` of one thread. The locals (`tail`, `head`,
`i`) are part of a thread's state. `producer_reads(a, v)` says what the producer
does when its read of `a` delivers `v`, and nothing about the memory; the two
modules supply it. In `QueueOnCaches` head and tail are two words of one line, as
in the benchmark, and main stores both through core 0 before it starts the
threads. The slots are the words of the lines behind it. `queue_line` says which
physical line holds which line of the queue: `alloc_and_map` takes frames for the
tables of the first page before the frame of the second, so the pages of the
queue need not be neighbours.

## The runs

Run with `tlc -config <cfg> <module>`.

| Configuration | Module | Question | Result |
| --- | --- | --- | --- |
| `MCMesi_two_cores` | `MCMesi` | directory, states and copies consistent; every access delivers the newest bytes; what may change a value | holds, 67,669 states |
| `MCCaches` | `MCCaches` | a line in one way only; ways, trees, streams and loops implement the protocol | holds, 13,202 states |
| `MCStreams` | `StreamPrefetcher` | head distance, page of a burst, recency of slots and ages | holds, 104,307 states |
| `MCPlru_eight` | `Plru` | which ways the tree protects | holds, 102,279 states |
| `MCSpace` | `MCSpace` | frames used once; translations private; accesses see what was mapped | holds, 148,439 states |
| `MCTrace_threads` | `EventTrace` | list and pool sound; steps in one piece; what is loaded is what was recorded | holds, 724,696 states |
| `MCView` | `MCView` | the picture is true wherever the user steps; auto-play ends, flashes fade | holds, 151,211 states |
| `MCQueue_flat` | `ProducerConsumer` | a bounded queue; both threads return | holds, 255 states |
| `MCQueue_caches` | `MCQueue` | the same over the caches with false sharing | holds, 841 states |
| `MCMesi_lost_write` | `MCMesi` | two cores see a flat memory | violated |
| `MCSpace_upper_half` | `AddressSpace` | accesses see what was mapped, upper-half page indices | violated |
| `MCView_fetch_evicts` | `MCView` | the picture of the data cache is true when code is evicted | violated |

### Bounds

- *Protocol.* Two cores is what `NUM_CORES` says. Three lines over one L1 way and
  two L2 ways make both levels evict in every order and let an L2 hit meet an L1
  eviction. The three lines are on three pages, so nothing is prefetched here;
  prefetching is part of the proofs and of `MCCaches`.
- *Caches.* Twenty lines on five pages of four; two ways at both levels, two stream
  slots, a prefetch distance of two. The L1 has four sets and the L2 eight, so lines
  0, 8 and 16 compete at both levels and line 4 only in the L1. Reading lines 8 and 9
  makes one burst of two real fills, lines 10 and 11, in two L2 sets of their own that
  the other core and other streams fill as well: each fill evicts, and the
  victims are code, lines prefetched before and a line the other core has dirtied.
  The seven programs make: that burst; one downwards to the end of a page; two streams
  over a dirty line; three streams for two slots while the other core takes a
  prefetched line; an L1 set whose tree picks among dirty, shared and clean lines; two
  writers of which one overfills both levels; code that is modified and evicted. All
  accesses of a program come in every order, as often as one likes: no counter
  bounds the run.
- *Streams.* A page of five lines has room for a first burst at distance 2, a miss
  beyond the head and a blocked burst on both ends; with three slots, hits reorder
  the slots before one is replaced; a second page lets a miss cross the border.
- *PLRU.* Eight ways, as the L1 has; the sixteen of the L2 add one level to the
  tree and too many states; the theorems hold for all.
- *Address space.* The eight frames that are handed out are too few for two pages of
  both processes with their tables, so mapping fails at each depth and frames are
  recycled. The limit of the allocator is the memory size, as in every program, so a
  table may lie in the last frame and pages are cut off (observation 6). The two
  pages lie in different tables and compete for the one way of the L1 TLBs. One
  core: TLBs of different cores never touch each other, and a switch flushes all.
  The program's stores look like entries that name a page table. Page indices
  are in the lower half of every table: see finding 2. Remapping is unrestricted.
- *Trace.* Blocks with room for two events and a gap for alignment, memory for two
  blocks (`MaxBlocks`), five events (`MaxEvents`) and three steps (`MaxSteps`): the
  last event that fits, the first that does not, an overtaken thread. The theorems
  hold for all sizes.
- *Visualizer.* Four accesses (`MaxAccesses`), before and in the recording, of three
  programs that make snoops, L2 evictions, fetches and prefetches; a speed of 1 or
  2 (`MAX_SPEED`, 64 in the code) and flashes of two frames (`FLASH`, 10): the loop of
  auto-play meets the end of the trace in its first, a middle and its last turn.
- *Queue.* Three slots hold at most two unread items, and seven items (five over
  the caches) make the indices wrap around. Over the caches the slots fill a line
  and half of the next, which lies in another frame (1,024 slots on 64 lines in the
  code); with one L1 way the lines of the queue push each other out.

### Liveness and fairness

- `BothThreadsReturn`, `QueueDrains`: weak fairness of main, producer and consumer,
  each as a whole. A waiting thread calls `std::this_thread::yield()` and holds no
  lock, so the scheduler runs the other one; `bus_lock` is released at the end of
  every access. Over a flat memory the read of a spinning thread is a stutter, so
  fairness asks nothing of it; the run shows that the other thread then moves.
- `PlaybackFinishes`, `FlashesFade`: weak fairness of `frame`. `renderer_run` draws a
  frame per round of its loop, after `SDL_PollEvent` has run out of input. Both
  properties except a user who presses keys for ever.

No other property is temporal beyond single steps. A handler returns in a bounded
number of steps by itself.

### Deadlock

`MCMesi_*` and `MCCaches` set `CHECK_DEADLOCK FALSE`, since `std::abort` ends the
process when a core fetches a line that is MODIFIED in the L2
(`cpu.cpp:728-730`); `MCTrace_threads` and `MCView*` because the process ends. The
threads of the queue end in a step that stutters, so a deadlock between
them would be found.

## What the checks found

With a run:

1. **A store can be lost** (`MCMesi_lost_write`). `snoop_downgrade_peers` makes
   the L2 line SHARED (`cpu.cpp:31`) although its bytes are newer than memory,
   and `evict_l2` writes back only MODIFIED lines (`cpu.cpp:287`). Core 0 stores,
   core 1 reads, the line leaves the L2: the next read delivers the old value.
   `ValueChangesOnlyByStoreOrCleanEviction` shows that this is the only way a
   value is lost, and `WorkingSetIsFlat` that a program whose lines fit the L2
   never meets it; the benchmark is one (`QueueRunsOnFlatMemory`).
2. **A page table does not fit its frame** (`MCSpace_upper_half`). Entries 256 to
   511 of a table lie in the frame behind it, which `alloc_frame` hands out and
   zeroes.
3. **Evicted code removes data from the picture** (`MCView_fetch_evicts`).
   `evict_l1<true>` reports `CACHE_L1D_EVICT` (`cpu.cpp:212`), so the visualizer
   invalidates the data line in the same set and way.

Seen while modelling, without a run:

4. Two streams can match one miss, against the comment at `cpu.cpp:380-381`: two
   TRAINING streams on either side of the missed line, or a TRAINING stream and
   the window of a STEADY one. The lower slot wins, and the properties of
   streams hold for either.
5. A fetch of a line that is dirty passes the test for MODIFIED at `cpu.cpp:728`
   once another core has read it, because of 1. It delivers the right bytes.
6. A table in the last frame is never entered: `page_walk` requires 8 KB behind a
   table (`memory.cpp:22`), `alloc_frame` 4 KB. `alloc_and_map` answers with a frame
   for a page below that table, and every access to the page faults. It takes a
   memory that is used up to its last frame; `MCSpace` reaches it, and `cut_off` in
   `VirtualMemory` says which pages it can befall.
7. Stepping back over a store leaves the new bytes in the picture
   (`renderer.cpp:218-221`): a hit carries the bytes after the store only. States
   and counters do step back (`ShadowL1dTrue`, `CountersTrue`), and moving forward
   keeps bytes true (`ForwardKeepsBytesTrue`).
8. L2 states drawn can be old: write hits and downgrades change the L2 state
   (`cpu.cpp:604`) and report no L2 event. Which ways are filled is right
   (`ShadowL2Filled`), except for code.
9. Instruction fetches count in `pmc` and report neither hits nor fills, so the
   statistics of the visualizer leave them out; `CountersTrue` is about cores whose
   program has none.

## What is proved

For all values of the constants that satisfy the assumptions named in the
modules. TLC evaluates those assumptions in every run.

**`MesiProtocol_proofs`**: `TypeCorrect`, `InclusionHolds`, `DirectoryIsExact`,
`AtMostOneWriter`, `LevelsAlwaysAgree`, `CleanCopiesAlwaysAgree`,
`InternalAbortsUnreachable`.
None of these is inductive alone: inclusion needs exact masks (an unlisted
copy survives `evict_l2`), exact masks need the states (a store resets the mask
to the writer without a snoop when its line is EXCLUSIVE), clean copies need the
single writer. The inductive invariant `IInv` says that the hierarchy is
`Coherent` (every line has exact masks, fitting states and agreeing clean
copies: `LineOK`), that `ret` has its type and that no internal abort happened.
All of it speaks of one line at a time, so each stage of a handler (snoop,
eviction, fill, change of masks) has two lemmas: its effect on each line, and
that it leaves a coherent hierarchy, or what is still missing on the accessed
line. The handlers compose the stages, and `NextIInv` the handlers.

The second part proves `ReadsDeliverTheCurrentValue`,
`ValuesChangeOnlyByStoreOrCleanEviction` and `FlatMemoryUnlessCleanEviction`. The
current value of a line (`Value`) is the MODIFIED copy if an L1 has one, else the
L2's, else memory's. Each stage of a handler gets a third lemma: it keeps the
value of every line, stores into one, or loses one by evicting it clean
(`Carries`). Replacing one line by another in the same handler is where the
lemmas meet: the missed line must survive the evictions, the prefetches of its
own miss and their evictions, which follows from the lines of a page lying in
different L2 sets. In a coherent hierarchy `Value` is what `snooped_data` gives
(`CurrentOfCoherent`), so each access is one of three steps (`NextIsAStep`), and
the last theorem states finding 1 the other way around: every step that loses no
clean line is a step of the flat memory of `CoherentMemory`.

**`CacheHierarchy_proofs`**: `LinesHaveOneWay`, for every number of cores, lines, sets
and ways, every stream table and every program. INVALID ways keep their tags, so
the danger is a stale way that becomes valid again beside a newer one: a snoop, an
eviction or a write sets states in ways found earlier. The inductive invariant
`SingleWays` is `OneWayPerLine` for caches of the right shape. Within a handler the
caches only shed lines (`LessCaches(t, b)`: compared with base `b`, no tag has
changed and no way is valid that was not) until a fill puts a line into a set
in which `find_way` found none, and sheds preserve that finding (`LessMisses`). A
stage that sets a state works on a way that was valid in the base: `evict_l2` takes
itself as base, since the dirty bytes of a sharer go into a victim that is valid,
and a write to a line of the L2 takes the caches as they were but with the filled
L1D. The loops over sharers and bursts are recursive functions, choices among the
functions that satisfy an equation: `LoopExists` gives one, `LoopLess` the
induction over its rounds.

The second half of the module is about the picture: `DrawnStatesAreTrue`,
`FilledWaysAreTrue`, `StatisticsAreTrue`, the invariants of `Visualizer` for traces of
any length, recorded by any interleaving of the threads and played with any keys.
The argument has three layers.

1. *A handler tells a story.* `Carries(X, t, s)`: whatever the events up to `s` tell of
   the caches named in `X`, the events up to `t` tell with what changed between.
   A stage (`Stage`) either leaves the picture alone or reports one event that
   names the way that changed, its old and its new state (`L1Told`, `L2Told`). An
   L2 state may change without an event as long as the way stays filled.
   `ReadTold`, `WriteTold` and `FetchTold` compose the stages: at most one counter moves, and if
   it is one the visualizer shows, exactly one event says so.
2. *The queue is a film.* `IsFilm`: there is a picture between any two events of the
   queue, each event tells the next picture from the one before it, and at the end of
   a step the picture is what `history` kept. An access appends its story. Threads
   take their numbers outside the lock, so numbers are not in the order of the film;
   what is needed is that a step ends where the number changes or the queue ends.
3. *The shadow state is one picture of the film.* `ShadowTells`: the one at the cursor,
   but for cells no event has been about yet. An event read forward leads to the
   next picture, read backward to the previous one: its old state is what the way
   held. So each round of `step_forward` and `step_backward`, auto-play at any speed
   and every key keep it.

The inductive invariant `Viewed(X)` joins these with `SingleWays`, from which the
stages take the shape of the caches. `KeysAssumption` says that the keys are those
`renderer_run` has a case for. The last two theorems need no more: `CountersTrue` and
`ShadowL2Filled` leave code out in their own words. `DrawnStatesAreTrue` assumes `CodeFits`,
that no core fetches more lines of an L1I set than the set has ways, for then
`evict_l1` of an L1I is never called: `SingleWays` adds that the ways of an
L1I, valid or not, hold lines the core fetches (`CodeOnly`), so a line that misses finds
one free (`RoomForCode`). Finding 3 shows that the hypothesis is needed. `MCView`
assumes it of its programs, and its opposite of the one that evicts code.

**`StreamPrefetcher_proofs`**: `TypeCorrect`, `SteadyStreamsRunAhead`,
`BurstsStayOnMissedPage`, `StreamsAreAListByRecency`. A STEADY stream's head is exactly the prefetch distance
ahead of its last miss on the same page. The next matching miss lies between
the two or one line behind the head, so the loop of `PREFETCH_DISTANCE + 1` rounds
is enough and its first line is on the missed page. Extrema of sets of numbers
(the victim slot, the end of a burst) come from the well-foundedness of < on
the naturals. For the refinement of `StreamTable` the invariant is extended by
`Permutation(lru_age)`: the ages are always 0 to `NUM_STREAMS - 1`, each once,
because `lru_update` ages exactly the slots younger than the one it makes 0. So
the slots by age are a sequence, a hit moves its stream to the front
(`UseMovesToFront`), and the victim of a full table is the last.

**`AddressSpace_proofs`**: `TypeCorrect`, `AllocatedFramesExclusive`,
`TranslationsPrivate`, `PrivateMappings`. Types hold for every geometry. The others
assume `LowerHalf`, that no page has an index in the upper half of a table: that is
what finding 2 shows to be necessary, and the programs of the repository meet it:
their pages start at 0x600000 and are few. The inductive invariant says that the tables of all
processes are a `Forest`: the entry of a page at a level, reached from its root
(`at`), names a frame that is handed out and not on the free list, and no other
entry names the same frame. It must hold of memory in the middle of `map_page` as
well, between taking a frame and linking it, so every stage (`TakeFrame`, `Link`,
`FreeFrame`, one round of the loop: `DescendStep`) has its lemma about any memory.
A table that is linked in is blank, otherwise its leftover entries would name
frames: this is where the proof needs `alloc_frame` to zero a recycled frame.
`Kept` says what a whole call does to frames in use: they stay in use and get no
new name. With it, a frame that entered a TLB by a page walk stays a page of the
active process whatever is mapped afterwards (`Safe`). `PrivateMappings` needs one
more hypothesis, `Distinct`: two page numbers differ in one of their four indices, as
48-bit addresses do. Its invariant adds that every TLB entry is what a page walk would
find now, or a frame the page has lost since the last switch. The limit of the
allocator is any number up to the memory size. A walk finds the frame the tables name
(`seen`) unless a table on its way lies in the last frame (`Cut`, observation 6). `Grown`
says that `map_page` adds tables on the way to its own page only, and `CutOnce` that
the pages it cuts off are the first, since a frame has one name and there is one
last frame; they had no mapping, and if the limit is below the memory size there
are none. `MCSpace` assumes both hypotheses of its instance, so TLC evaluates them.

**`ProducerConsumer_proofs`**: `TypeCorrect`, `RingIsSound`, `ItemsArriveInOrder`,
`RingImplementsQueue`, for every buffer size and number of items. `IInv` is
`TypeOK /\ RingHoldsUnreadItems /\ ReceivedInOrder /\ LocalsFresh`: each index
agrees with its thread's count, the slots between them hold the unread items, and
a thread's local copy of its own index is still the index, since nobody else
stores it. A thread that has found room (or an item) may run later: the other one
can only have made more of it. The refinement maps the ring to the sequence of
unread items; every access is a put, a get or a stutter. The theorems are about
the specification without fairness.

**`QueueOnCaches_proofs`**: `WorkingSetIsFlat`, `QueueRunsOnFlatMemory`. `FitsL2(W)` says
that the lines of `W`, which include what the prefetchers may add, do not
outnumber the ways of any L2 set. For accesses to `W` only, `IInv` is extended by
`Confined`: the L2 holds no other line. So a missing line of `W`, accessed or
prefetched, finds a way free (`SetNotFull`) and there are no
victims (`NoVictims`). Each handler then only adds lines to the L2 (`ReadAdds`,
`WriteAdds`, `FetchAdds`), an L1 eviction leaves its line there, and the lemmas of
`MesiProtocol_proofs` give the step of the flat memory. The
benchmark is such a program: its addresses are different words (`WordsApart`) of lines
of `W`, so a read delivers the content of its address (`Read32`) and a store changes that
alone, whatever the other core does to its half of the line (`Write32`). `QInv` adds that
the threads' locals have their types and that the indices in memory lie inside the
buffer. The hypothesis is `BenchmarkFits(W)`: the
benchmark's 65 lines lie on two pages of 64 lines, at most two lines in any set of
16 ways; `MCQueue` assumes it of its instance. `QueueOverFlatMemory` is the
specification `ProducerConsumer_proofs` reasons about, over another memory: its
theorems then say that on the caches, too, items arrive in order. That last step is
made here and not by the tool, which cannot cite the theorems of an instance.

**`Plru_proofs`**: `TypeCorrect`, `RecentWaysSurvive`, `MissesSweep`, for every number of
ways, so for the sixteen of the L2. A recursive definition is a choice among the
functions that satisfy its equation, so the first step is that one does:
the nodes reached from a node (`Reached`) give the path to the root and the end
of a walk (`PathUnfold`, `VictimIsPointed`). Induction from the root to the leaves is the
least node outside a set (`Climb`). All of the path of a victim is pointed at. For the
first property, `RecentInv` says that a bit that points at a way was set by some way used since,
on its other side; different levels have different ones, so a victim has
at least as many (`VictimIsOld`). For the second, `SweepInv` says that a bit
points to a side that is not ahead: below its other side equally many ways were
given up, or one more (`Balanced`). Both sides have equally many ways (`EqualSizes`), so
below each node of the victim's path there is one not yet given up (`VictimIsNew`).
The bits at the start of a sweep do not matter. The assumption that the tree is
complete is stated beside the power of two, since the provers know
nothing of `^`.

**`EventTrace_proofs`**: `TypeCorrect`, `PoolPlacesDisjoint`, `LinksInPushOrder`,
`StepsAreContiguous`, `LoadedTraceIsRecorded`, from two invariants.
`QueueInv` (theorem `QueueAlwaysSound`) is about pool and list: nodes lie inside
their blocks and in front of the allocator's offset (`Placed`), which is what makes
the next one disjoint from all of them, and the links follow the order of the
pushes. `TraceInv` (theorem `TraceAlwaysSound`) adds who may extend which step
while threads record (`Recording`: numbers in use are below `next_seq` and belong
to one thread each, a thread that waits for the lock has pushed nothing, the
steps of the one inside are at the end), that the file is a prefix of the
recording (`FileOK`), and that the reader's queue is a prefix of the file
(`Reading`).

**Model-checked only.** Liveness (`BothThreadsReturn`, `QueueDrains`,
`PlaybackFinishes`, `FlashesFade`), which is out of the prover's reach, as is ENABLED.
The refinement of `MesiProtocol` by `CacheHierarchy`. That moving forward keeps the
bytes drawn true (`ForwardKeepsBytesTrue`): the stories tell states, not bytes.

## Mutants

Definitions under a comment "Mutant:" are variants of the definition that follows
them, with one plausible mistake each. No specification uses them. Every
property has one that violates it when it replaces the original, listed in
`PROJECT.json`.

## Plan

Done: protocol, caches, prefetchers, replacement, translation, traces,
visualizer and the producer/consumer benchmark are modelled and checked; the
protocol and the bytes it delivers, the streams, address spaces, the ring buffer
on a flat memory and on the caches, the event queue, the replacement trees, the ways
of the caches and the picture of them have proofs.

Left: the refinement of `MesiProtocol` by `CacheHierarchy` for every geometry, of which
`LinesHaveOneWay` is the part about ways, and the bytes drawn.

## Not modelled

- Drawing and the window: output only. The shadow tags: stored, never read.
- `Process::brk` and `stack_top` (never used), the flags `writable` and `user` of
  page-table entries (stored, never read).
- The benchmarks other than producer/consumer, and `example_code`: straight-line
  callers; their set-up gives the initial states.
- The way a TLB entry lies in: left open in `AddressSpace`. The TLBs use the tree of
  `PlruTree` like the caches.
- `process_switch` beside running threads: it takes no `bus_lock`, and every program
  of the repository switches before it starts its threads. It is atomic in the model.
- Translation and caches are two models. An access translates first, under the
  same lock, and page walks read memory past the caches; `write_back` is what the
  caches do to the frames.
- Build files: no behaviour.
