-------------------------- MODULE StreamPrefetcher --------------------------
(***************************************************************************)
(* The stream prefetcher of one core: the stream table and its LRU ages    *)
(* (core.h, core.cpp), trained by pf_stream_on_miss (cpu.cpp) on every L2  *)
(* miss of a read or a write.  Addresses are line numbers.                 *)
(*                                                                         *)
(* Which accesses miss depends on the L2, which the other core, the        *)
(* fetches and evictions change at any time: any line may be the next      *)
(* miss.  The detector sees nothing else of the caches, since pf_fill_l2   *)
(* reports an already present line as filled.                              *)
(***************************************************************************)
EXTENDS Integers, FiniteSets

CONSTANTS
  NumLines,            (* mem->size / LINE_SIZE                            *)
  PAGE_LINES,          (* 4 KB / LINE_SIZE                                 *)
  NUM_STREAMS,
  PREFETCH_DISTANCE

ASSUME PrefetcherAssumption ==
  {NumLines, PAGE_LINES, NUM_STREAMS, PREFETCH_DISTANCE} \subseteq Nat \ {0}

VARIABLES
  streams,    (* the stream table                                          *)
  lru_age,    (* 0 for the most recently used slot                         *)
  issued      (* the last miss and the lines its burst asked pf_fill_l2 for *)

vars == <<streams, lru_age, issued>>

Lines == 0 .. NumLines - 1
Slots == 0 .. NUM_STREAMS - 1
page_of(l) == l \div PAGE_LINES

\* StreamDirection: the sign of the stride.
UNKNOWN == 0
FORWARD == 1
BACKWARD == -1

Stream == [last_line : Lines, prefetch_head : Lines,
           direction : {UNKNOWN, FORWARD, BACKWARD},
           confidence : {"INVALID", "TRAINING", "STEADY"}]

NoStream == [last_line |-> 0, prefetch_head |-> 0,
             direction |-> UNKNOWN, confidence |-> "INVALID"]

(***************************************************************************)
(* LRU ages (core.cpp).                                                    *)
(***************************************************************************)
\* Mutant: every other slot ages, not only the younger ones.
pf_lru_update_ages_all(age, index) ==
  [i \in Slots |-> IF i = index THEN 0 ELSE age[i] + 1]

pf_lru_update(age, index) ==
  [i \in Slots |-> IF i = index THEN 0
                   ELSE IF age[i] < age[index] THEN age[i] + 1
                   ELSE age[i]]

\* Mutant: the most recently used slot is replaced.
pf_lru_evict_youngest(age) ==
  CHOOSE i \in Slots : \A j \in Slots : age[i] <= age[j]

\* The first slot of the greatest age.
pf_lru_evict(age) ==
  CHOOSE i \in Slots :
    \A j \in Slots : age[j] < age[i] \/ (age[j] = age[i] /\ i <= j)

(***************************************************************************)
(* Matching and bursts (cpu.cpp).                                          *)
(***************************************************************************)
\* A TRAINING stream matches the next line on either side; a STEADY one what
\* lies after its last demand miss, up to one line beyond its head.
matches(stream, miss) ==
  \/ /\ stream.confidence = "TRAINING"
     /\ miss \in {stream.last_line - 1, stream.last_line + 1}
  \/ /\ stream.confidence = "STEADY"
     /\ (miss - stream.last_line) * stream.direction >= 1
     /\ (miss - stream.prefetch_head) * stream.direction <= 1

\* The direction and the head a matched stream starts its burst with.
direction_after(stream, miss) ==
  IF stream.confidence = "STEADY" THEN stream.direction
                                  ELSE miss - stream.last_line

head_after(stream, miss) ==
  IF stream.confidence = "STEADY" THEN stream.prefetch_head ELSE miss

\* Mutant: the page check of pf_fill_l2 is forgotten.
fillable_across_pages(head, next) == next >= 1 /\ next < NumLines

\* pf_fill_l2 accepts next: on the page of the head, neither line 0 nor
\* beyond the memory.  The page is compared with the head before the burst,
\* which is the page of every line the burst has passed.
fillable(head, next) ==
  page_of(next) = page_of(head) /\ next >= 1 /\ next < NumLines

\* Mutant: the loop runs one time too few for a head that is behind the miss.
burst_limit_off_by_one(head, dir, miss) ==
  LET missing == PREFETCH_DISTANCE - (head - miss) * dir
  IN  IF missing > PREFETCH_DISTANCE THEN PREFETCH_DISTANCE ELSE missing

\* How many lines the loop may issue: until the head is PREFETCH_DISTANCE
\* lines ahead of the miss, at most PREFETCH_DISTANCE + 1.
burst_limit(head, dir, miss) ==
  LET missing == PREFETCH_DISTANCE - (head - miss) * dir
  IN  IF missing > PREFETCH_DISTANCE + 1 THEN PREFETCH_DISTANCE + 1 ELSE missing

\* The numbers of issued lines before the first one pf_fill_l2 refuses.
issuable(head, dir, limit) ==
  {n \in 0 .. PREFETCH_DISTANCE + 1 :
     n <= limit /\ \A k \in 1 .. n : fillable(head, head + k * dir)}

\* A burst that gets stuck sends the stream back to TRAINING.
advanced(stream, miss) ==
  LET dir == direction_after(stream, miss)
      head == head_after(stream, miss)
      limit == burst_limit(head, dir, miss)
      n == CHOOSE m \in issuable(head, dir, limit) :
             \A k \in issuable(head, dir, limit) : k <= m
      blocked == n < limit
  IN  [last_line |-> miss,
       prefetch_head |-> head + n * dir,
       direction |-> IF blocked THEN UNKNOWN ELSE dir,
       confidence |-> IF blocked THEN "TRAINING" ELSE "STEADY"]

\* The lines the burst of a matched stream passes to pf_fill_l2.
burst(stream, miss) ==
  LET dir == direction_after(stream, miss)
      head == head_after(stream, miss)
      end == advanced(stream, miss).prefetch_head
  IN  {l \in Lines : (l - head) * dir >= 1 /\ (end - l) * dir >= 0}

started(miss) == [last_line |-> miss, prefetch_head |-> miss,
                  direction |-> UNKNOWN, confidence |-> "TRAINING"]

\* The first slot that matches takes the miss; without one the least recently
\* used slot is restarted.
pf_stream_on_miss(miss) ==
  LET matching == {i \in Slots : matches(streams[i], miss)}
  IN  \/ \E i \in matching :
           /\ \A j \in matching : i <= j
           /\ streams' = [streams EXCEPT ![i] = advanced(@, miss)]
           /\ lru_age' = pf_lru_update(lru_age, i)
           /\ issued' = [miss |-> miss, lines |-> burst(streams[i], miss)]
      \/ /\ matching = {}
         /\ LET victim == pf_lru_evict(lru_age)
            IN  /\ streams' = [streams EXCEPT ![victim] = started(miss)]
                /\ lru_age' = pf_lru_update(lru_age, victim)
         /\ issued' = [miss |-> miss, lines |-> {}]

Init ==
  /\ streams = [i \in Slots |-> NoStream]
  /\ lru_age = [i \in Slots |-> NUM_STREAMS - 1 - i]
  /\ issued = [miss |-> 0, lines |-> {}]

Next == \E miss \in Lines : pf_stream_on_miss(miss)

Spec == Init /\ [][Next]_vars

(***************************************************************************)
(* Properties.                                                             *)
(***************************************************************************)

\* The fields keep their ranges; ages stay below NUM_STREAMS, so the uint8_t
\* ages of core.h never wrap.
TypeOK ==
  /\ streams \in [Slots -> Stream]
  /\ lru_age \in [Slots -> 0 .. NUM_STREAMS - 1]
  /\ issued \in [miss : Lines, lines : SUBSET Lines]

\* After every miss a STEADY stream has a direction and its head exactly
\* PREFETCH_DISTANCE lines ahead of the last miss, on the same page: the
\* PREFETCH_DISTANCE + 1 iterations of the loop (cpu.cpp:412) are enough even
\* for a head one line behind the miss.  A TRAINING stream has no direction.
SteadyRunsAhead ==
  \A i \in Slots :
    LET s == streams[i]
    IN  /\ s.confidence = "STEADY" =>
             /\ s.direction \in {FORWARD, BACKWARD}
             /\ (s.prefetch_head - s.last_line) * s.direction = PREFETCH_DISTANCE
             /\ page_of(s.prefetch_head) = page_of(s.last_line)
        /\ s.confidence = "TRAINING" => s.direction = UNKNOWN

\* A burst stays on the page of the miss that triggered it and never asks for
\* line 0, also when the miss has entered a page the stream's head has not
\* reached (cpu.cpp:317-325).  MesiProtocol relies on it: prefetchable.
BurstOnMissedPage ==
  \A l \in issued.lines : page_of(l) = page_of(issued.miss) /\ l # 0

\* Slots and ages implement the list of streams by recency: lru_age orders the
\* slots, and the slot it gives up is the least recent one.
by_recency ==
  [k \in 1 .. NUM_STREAMS |->
     streams[CHOOSE i \in Slots : lru_age[i] = k - 1]]

Recency ==
  INSTANCE StreamTable WITH
    table <- by_recency, Misses <- Lines,
    Matches <- matches, Advanced <- advanced, Started <- started

StreamTableSpec == Recency!Spec
=============================================================================
