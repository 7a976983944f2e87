----------------------- MODULE StreamPrefetcher_proofs -----------------------
(***************************************************************************)
(* Proofs about StreamPrefetcher for every memory size, page size, number  *)
(* of streams and prefetch distance.                                       *)
(***************************************************************************)
EXTENDS StreamPrefetcher, SequenceTheorems, WellFoundedInduction, TLAPS

(***************************************************************************)
(* Extrema of sets of naturals, from the well-foundedness of <.            *)
(***************************************************************************)
LEMMA Least ==
  ASSUME NEW T, T \subseteq Nat, T # {}
  PROVE  \E x \in T : \A y \in T : x <= y
PROOF
<1>1. PICK x \in T : \A y \in T : ~(<<y, x>> \in OpToRel(<, Nat))
  BY NatLessThanWellFounded, WFMin
<1>2. ASSUME NEW y \in T PROVE x <= y
  <2>1. <<y, x>> \notin OpToRel(<, Nat)
    BY <1>1
  <2>2. ~(y < x)
    BY <2>1 DEF OpToRel
  <2>3. QED
    BY <2>2
<1>3. QED
  BY <1>2

LEMMA Greatest ==
  ASSUME NEW T, NEW bound \in Nat, T \subseteq 0 .. bound, T # {}
  PROVE  \E x \in T : \A y \in T : y <= x
PROOF
<1> DEFINE D == {bound - y : y \in T}
<1>1. D \subseteq Nat /\ D # {}
  <2>1. \A y \in T : y \in 0 .. bound
    OBVIOUS
  <2>2. \A y \in T : bound - y \in Nat
    BY <2>1
  <2>3. \E y \in T : bound - y \in D
    OBVIOUS
  <2>4. QED
    BY <2>2, <2>3
<1>2. PICK d \in D : \A e \in D : d <= e
  BY <1>1, Least
<1>3. PICK x \in T : d = bound - x
  BY <1>2
<1>4. ASSUME NEW y \in T PROVE y <= x
  BY <1>2, <1>3
<1>5. QED
  BY <1>4

\* pf_lru_evict always names a slot: the first of those with the greatest age.
LEMMA VictimIsSlot ==
  ASSUME NEW age \in [Slots -> 0 .. NUM_STREAMS - 1]
  PROVE  pf_lru_evict(age) \in Slots
PROOF
<1> USE PrefetcherAssumption
<1> DEFINE ages == {age[i] : i \in Slots}
<1>1. ages \subseteq 0 .. NUM_STREAMS - 1 /\ ages # {} /\ NUM_STREAMS - 1 \in Nat
  BY DEF Slots
<1> HIDE DEF ages
<1>2. PICK top \in ages : \A a \in ages : a <= top
  BY <1>1, Greatest
<1> DEFINE oldest == {i \in Slots : age[i] = top}
<1>3. oldest \subseteq Nat /\ oldest # {}
  BY <1>2 DEF Slots, ages
<1>4. PICK first \in oldest : \A j \in oldest : first <= j
  BY <1>3, Least
<1>5. ASSUME NEW j \in Slots
      PROVE  age[j] < age[first] \/ (age[j] = age[first] /\ first <= j)
  <2>1. age[j] \in ages /\ age[first] = top
    BY <1>4 DEF ages
  <2>2. age[j] <= top /\ age[j] \in Int /\ top \in Int
    BY <1>1, <1>2, <2>1
  <2>3. QED
    BY <1>4, <2>1, <2>2
<1>6. \E i \in Slots : \A j \in Slots : age[j] < age[i] \/ (age[j] = age[i] /\ i <= j)
  BY <1>4, <1>5
<1>7. QED
  BY <1>6 DEF pf_lru_evict

LEMMA AgesStayInRange ==
  ASSUME NEW age \in [Slots -> 0 .. NUM_STREAMS - 1], NEW index \in Slots
  PROVE  pf_lru_update(age, index) \in [Slots -> 0 .. NUM_STREAMS - 1]
BY PrefetcherAssumption DEF pf_lru_update, Slots

(***************************************************************************)
(* One stream.                                                             *)
(***************************************************************************)

\* Lines between two lines of a page are on that page.
LEMMA Between ==
  ASSUME NEW a \in Int, NEW b \in Int, NEW c \in Int, a <= b, b <= c,
         page_of(a) = page_of(c)
  PROVE  page_of(b) = page_of(a)
PROOF
<1> DEFINE P == PAGE_LINES
<1>1. P \in Nat /\ P > 0
  BY PrefetcherAssumption
<1> HIDE DEF P
<1>2. ASSUME NEW l \in Int
      PROVE  l \div P \in Int /\ P * (l \div P) <= l /\ l < P * (l \div P) + P
  BY <1>1
<1>3. a \div P = c \div P
  BY DEF page_of, P
<1> DEFINE q == a \div P
           r == b \div P
<1>4. /\ q \in Int /\ r \in Int
      /\ P * q <= a /\ c < P * q + P
      /\ P * r <= b /\ b < P * r + P
  BY <1>2, <1>3
<1> HIDE DEF q, r
<1>5. ~(r < q)
  <2>1. SUFFICES ASSUME r + 1 <= q PROVE FALSE
    BY <1>4
  <2>2. P * (r + 1) <= P * q
    BY <1>1, <1>4, <2>1
  <2>3. P * (r + 1) = P * r + P
    BY <1>1, <1>4
  <2>4. QED
    BY <1>1, <1>4, <2>2, <2>3
<1>6. ~(q < r)
  <2>1. SUFFICES ASSUME q + 1 <= r PROVE FALSE
    BY <1>4
  <2>2. P * (q + 1) <= P * r
    BY <1>1, <1>4, <2>1
  <2>3. P * (q + 1) = P * q + P
    BY <1>1, <1>4
  <2>4. QED
    BY <1>1, <1>4, <2>2, <2>3
<1>7. q = r
  BY <1>4, <1>5, <1>6
<1>8. QED
  BY <1>7 DEF page_of, P, q, r

\* What SteadyRunsAhead says of one stream.
StreamOK(s) ==
  /\ s.confidence = "STEADY" =>
       /\ s.direction \in {FORWARD, BACKWARD}
       /\ (s.prefetch_head - s.last_line) * s.direction = PREFETCH_DISTANCE
       /\ page_of(s.prefetch_head) = page_of(s.last_line)
  /\ s.confidence = "TRAINING" => s.direction = UNKNOWN

\* A matched stream has a direction, the miss is at most one line beyond its
\* head, and the loop has lines left to issue, never more than its bound.
LEMMA BurstStart ==
  ASSUME NEW s \in Stream, StreamOK(s), NEW miss \in Lines, matches(s, miss)
  PROVE  LET dir == direction_after(s, miss)
             head == head_after(s, miss)
         IN  /\ dir \in {FORWARD, BACKWARD} /\ head \in Lines
             /\ (head - miss) * dir \in -1 .. PREFETCH_DISTANCE - 1
             /\ burst_limit(head, dir, miss) = PREFETCH_DISTANCE - (head - miss) * dir
PROOF
<1> USE PrefetcherAssumption DEF Lines
<1> DEFINE dir == direction_after(s, miss)
           head == head_after(s, miss)
<1>1. /\ dir \in {FORWARD, BACKWARD} /\ head \in Lines
      /\ (head - miss) * dir \in -1 .. PREFETCH_DISTANCE - 1
  <2>1. CASE s.confidence = "STEADY"
    <3>1. dir = s.direction /\ head = s.prefetch_head
      BY <2>1 DEF direction_after, head_after
    <3>2. /\ s.direction \in {FORWARD, BACKWARD}
          /\ (s.prefetch_head - s.last_line) * s.direction = PREFETCH_DISTANCE
          /\ (miss - s.last_line) * s.direction >= 1
          /\ (miss - s.prefetch_head) * s.direction <= 1
      BY <2>1 DEF StreamOK, matches
    <3>3. s.prefetch_head \in Lines /\ s.last_line \in Lines
      BY DEF Stream
    <3>4. CASE s.direction = 1
      BY <3>1, <3>2, <3>3, <3>4 DEF FORWARD, BACKWARD
    <3>5. CASE s.direction = -1
      BY <3>1, <3>2, <3>3, <3>5 DEF FORWARD, BACKWARD
    <3>6. QED
      BY <3>2, <3>4, <3>5 DEF FORWARD, BACKWARD
  <2>2. CASE s.confidence # "STEADY"
    <3>1. dir = miss - s.last_line /\ head = miss
      BY <2>2 DEF direction_after, head_after
    <3>2. miss \in {s.last_line - 1, s.last_line + 1} /\ s.last_line \in Lines
      BY <2>2 DEF matches, Stream
    <3>3. dir \in {1, -1} /\ (head - miss) * dir = 0
      BY <3>1, <3>2
    <3>4. QED
      BY <3>1, <3>3 DEF FORWARD, BACKWARD
  <2>3. QED
    BY <2>1, <2>2
<1> HIDE DEF dir, head
<1>2. (head - miss) * dir \in Int
  BY <1>1
<1>3. burst_limit(head, dir, miss) = PREFETCH_DISTANCE - (head - miss) * dir
  BY <1>1, <1>2 DEF burst_limit
<1>4. QED
  BY <1>1, <1>3 DEF dir, head

\* Where a burst ends: after n issued lines, all of them on the head's page,
\* and with nothing left to issue unless it was blocked.
LEMMA BurstEnd ==
  ASSUME NEW s \in Stream, StreamOK(s), NEW miss \in Lines, matches(s, miss)
  PROVE  LET dir == direction_after(s, miss)
             head == head_after(s, miss)
             limit == burst_limit(head, dir, miss)
         IN  \E n \in Nat :
               /\ n <= limit
               /\ \A k \in 1 .. n : fillable(head, head + k * dir)
               /\ advanced(s, miss) =
                    [last_line |-> miss,
                     prefetch_head |-> head + n * dir,
                     direction |-> IF n < limit THEN UNKNOWN ELSE dir,
                     confidence |-> IF n < limit THEN "TRAINING" ELSE "STEADY"]
PROOF
<1> DEFINE dir == direction_after(s, miss)
           head == head_after(s, miss)
           limit == burst_limit(head, dir, miss)
           S == issuable(head, dir, limit)
           n == CHOOSE m \in S : \A k \in S : k <= m
<1>1. limit \in Nat
  BY BurstStart, PrefetcherAssumption DEF FORWARD, BACKWARD
<1> HIDE DEF dir, head, limit
<1>2. S \subseteq 0 .. PREFETCH_DISTANCE + 1 /\ 0 \in S /\ PREFETCH_DISTANCE + 1 \in Nat
  BY <1>1, PrefetcherAssumption DEF issuable
<1> HIDE DEF S
<1>3. \E m \in S : \A k \in S : k <= m
  BY <1>2, Greatest
<1>4. n \in S
  BY <1>3
<1>5. advanced(s, miss) =
        [last_line |-> miss,
         prefetch_head |-> head + n * dir,
         direction |-> IF n < limit THEN UNKNOWN ELSE dir,
         confidence |-> IF n < limit THEN "TRAINING" ELSE "STEADY"]
  BY DEF advanced, dir, head, limit, S
<1> HIDE DEF n
<1>6. n \in Nat /\ n <= limit /\ \A k \in 1 .. n : fillable(head, head + k * dir)
  BY <1>4, PrefetcherAssumption DEF S, issuable
<1>7. QED
  BY <1>5, <1>6 DEF dir, head, limit

LEMMA AdvancedOK ==
  ASSUME NEW s \in Stream, StreamOK(s), NEW miss \in Lines, matches(s, miss)
  PROVE  /\ advanced(s, miss) \in Stream /\ StreamOK(advanced(s, miss))
         /\ \A l \in burst(s, miss) : page_of(l) = page_of(miss) /\ l # 0
PROOF
<1> USE PrefetcherAssumption
<1> DEFINE dir == direction_after(s, miss)
           head == head_after(s, miss)
           limit == burst_limit(head, dir, miss)
           a == advanced(s, miss)
<1>1. /\ dir \in {FORWARD, BACKWARD} /\ head \in Lines
      /\ (head - miss) * dir \in -1 .. PREFETCH_DISTANCE - 1
      /\ limit = PREFETCH_DISTANCE - (head - miss) * dir
  BY BurstStart
<1>2. PICK n \in Nat :
        /\ n <= limit
        /\ \A k \in 1 .. n : fillable(head, head + k * dir)
        /\ a = [last_line |-> miss,
                prefetch_head |-> head + n * dir,
                direction |-> IF n < limit THEN UNKNOWN ELSE dir,
                confidence |-> IF n < limit THEN "TRAINING" ELSE "STEADY"]
  BY BurstEnd
<1>3. burst(s, miss) = {l \in Lines : (l - head) * dir >= 1 /\ (a.prefetch_head - l) * dir >= 0}
  BY DEF burst
<1> HIDE DEF dir, head, limit, a
<1>4. head \in Int /\ dir \in {1, -1} /\ limit \in Int /\ miss \in Int
  BY <1>1 DEF Lines, FORWARD, BACKWARD
<1>5. \A k \in 1 .. n : /\ page_of(head + k * dir) = page_of(head)
                        /\ head + k * dir >= 1 /\ head + k * dir < NumLines
  BY <1>2 DEF fillable
<1>6. head + n * dir \in Lines /\ page_of(head + n * dir) = page_of(head)
  <2>1. CASE n = 0
    <3>1. head + n * dir = head
      BY <1>4, <2>1
    <3>2. QED
      BY <1>1, <3>1
  <2>2. CASE n # 0
    <3>1. n \in 1 .. n
      BY <2>2
    <3>2. head + n * dir \in Int
      BY <1>4
    <3>3. QED
      BY <1>5, <3>1, <3>2 DEF Lines
  <2>3. QED
    BY <2>1, <2>2
<1>7. a \in Stream
  BY <1>1, <1>2, <1>6 DEF Stream
\* The line the head reaches and the miss lie on one page.
<1>8. n # 0 => page_of(miss) = page_of(head)
  <2>1. CASE miss = head + dir /\ n # 0
    <3>1. 1 \in 1 .. n /\ 1 * dir = dir
      BY <1>4, <2>1
    <3>2. page_of(head + 1 * dir) = page_of(head)
      BY <1>5, <3>1
    <3>3. QED
      BY <2>1, <3>1, <3>2
  <2>2. CASE miss # head + dir
    <3>1. CASE s.confidence = "STEADY"
      <4>1. /\ head = s.prefetch_head /\ dir = s.direction
            /\ (s.prefetch_head - s.last_line) * s.direction = PREFETCH_DISTANCE
            /\ page_of(s.prefetch_head) = page_of(s.last_line)
            /\ (miss - s.last_line) * s.direction >= 1
            /\ (miss - s.prefetch_head) * s.direction <= 1
        BY <3>1 DEF StreamOK, matches, head, dir, head_after, direction_after
      <4>2. s.last_line \in Int
        BY DEF Stream, Lines
      <4>3. PAGE_LINES \in Nat \ {0}
        OBVIOUS
      <4>4. \/ s.last_line <= miss /\ miss <= head
            \/ head <= miss /\ miss <= s.last_line
        <5>1. CASE dir = 1
          BY <1>4, <2>2, <4>1, <4>2, <5>1
        <5>2. CASE dir = -1
          BY <1>4, <2>2, <4>1, <4>2, <5>2
        <5>3. QED
          BY <1>4, <5>1, <5>2
      <4>5. page_of(s.last_line) = page_of(head)
        BY <4>1
      <4>6. QED
        BY <1>4, <4>2, <4>3, <4>4, <4>5, Between
    <3>2. CASE s.confidence # "STEADY"
      BY <3>2 DEF head, head_after
    <3>3. QED
      BY <3>1, <3>2
  <2>3. QED
    BY <2>1, <2>2
<1>9. StreamOK(a)
  <2>1. CASE n < limit
    BY <1>2, <2>1 DEF StreamOK
  <2>2. CASE ~(n < limit)
    <3>1. n = limit
      BY <1>2, <1>4, <2>2
    <3>2. (head + n * dir - miss) * dir = PREFETCH_DISTANCE
      <4>1. CASE dir = 1
        BY <1>1, <1>4, <3>1, <4>1
      <4>2. CASE dir = -1
        BY <1>1, <1>4, <3>1, <4>2
      <4>3. QED
        BY <1>4, <4>1, <4>2
    <3>3. page_of(head + n * dir) = page_of(miss)
      <4>1. CASE n # 0
        BY <1>6, <1>8, <4>1
      <4>2. CASE n = 0
        BY <1>1, <1>4, <3>1, <4>2
      <4>3. QED
        BY <4>1, <4>2
    <3>5. PICK end \in Int : end = head + n * dir
      BY <1>4
    <3>4. /\ a.last_line = miss /\ a.prefetch_head = end
          /\ a.direction = dir /\ a.confidence = "STEADY"
      BY <1>2, <2>2, <3>5
    <3>6. (end - miss) * dir = PREFETCH_DISTANCE /\ page_of(end) = page_of(miss)
      BY <1>4, <3>2, <3>3, <3>5
    <3>7. QED
      BY <1>1, <3>4, <3>6 DEF StreamOK
  <2>3. QED
    BY <2>1, <2>2
<1>10. ASSUME NEW l \in burst(s, miss) PROVE page_of(l) = page_of(miss) /\ l # 0
  <2>9. a.prefetch_head = head + n * dir
    BY <1>2
  <2>1. /\ l \in Lines /\ (l - head) * dir >= 1
        /\ (head + n * dir - l) * dir >= 0
    <3>1. /\ l \in Lines /\ (l - head) * dir >= 1
          /\ (a.prefetch_head - l) * dir >= 0
      BY <1>3
    <3>2. QED
      BY <1>4, <2>9, <3>1
  <2> DEFINE k == (l - head) * dir
  <2>2. k \in 1 .. n /\ l = head + k * dir
    <3>1. CASE dir = 1
      BY <1>4, <2>1, <3>1 DEF Lines
    <3>2. CASE dir = -1
      BY <1>4, <2>1, <3>2 DEF Lines
    <3>3. QED
      BY <1>4, <3>1, <3>2
  <2>3. n # 0 /\ page_of(l) = page_of(head) /\ l >= 1
    BY <1>5, <2>2
  <2>4. QED
    BY <1>8, <2>1, <2>3
<1>11. QED
  BY <1>7, <1>9, <1>10 DEF a

(***************************************************************************)
(* The inductive invariant.  It is the three invariants together: a burst  *)
(* stays on the missed page because a STEADY stream's head is on the page  *)
(* of its last miss, and that holds because bursts end on the page.        *)
(***************************************************************************)
IInv == TypeOK /\ SteadyRunsAhead /\ BurstOnMissedPage

LEMMA InitIInv == Init => IInv
PROOF
<1> SUFFICES ASSUME Init PROVE IInv
  OBVIOUS
<1> USE PrefetcherAssumption
<1>1. 0 \in Lines /\ NoStream \in Stream
  BY DEF Lines, NoStream, Stream
<1>2. TypeOK
  BY <1>1 DEF Init, TypeOK, Slots
<1>3. SteadyRunsAhead
  BY DEF Init, SteadyRunsAhead, NoStream
<1>4. BurstOnMissedPage
  BY DEF Init, BurstOnMissedPage
<1>5. QED
  BY <1>2, <1>3, <1>4 DEF IInv

LEMMA MissIInv ==
  ASSUME IInv, NEW miss \in Lines, pf_stream_on_miss(miss)
  PROVE  IInv'
PROOF
<1>1. /\ streams \in [Slots -> Stream]
      /\ lru_age \in [Slots -> 0 .. NUM_STREAMS - 1]
      /\ \A i \in Slots : StreamOK(streams[i])
  BY DEF IInv, TypeOK, SteadyRunsAhead, StreamOK
\* Whatever slot the miss changes, it changes to a good stream.
<1>2. ASSUME NEW i \in Slots, NEW s \in Stream, StreamOK(s), NEW burst_lines,
             burst_lines \subseteq Lines,
             \A l \in burst_lines : page_of(l) = page_of(miss) /\ l # 0,
             streams' = [streams EXCEPT ![i] = s],
             lru_age' = pf_lru_update(lru_age, i),
             issued' = [miss |-> miss, lines |-> burst_lines]
      PROVE  IInv'
  <2>1. streams' \in [Slots -> Stream] /\ \A j \in Slots : StreamOK(streams'[j])
    BY <1>1, <1>2
  <2>2. lru_age' \in [Slots -> 0 .. NUM_STREAMS - 1]
    BY <1>1, <1>2, AgesStayInRange
  <2>3. TypeOK'
    BY <1>2, <2>1, <2>2 DEF TypeOK, Slots, Stream, Lines
  <2>4. SteadyRunsAhead'
    BY <2>1 DEF SteadyRunsAhead, StreamOK, Slots, page_of
  <2>5. BurstOnMissedPage'
    BY <1>2 DEF BurstOnMissedPage, page_of
  <2>6. QED
    BY <2>3, <2>4, <2>5 DEF IInv
<1>3. CASE \E i \in Slots :
             /\ matches(streams[i], miss)
             /\ streams' = [streams EXCEPT ![i] = advanced(@, miss)]
             /\ lru_age' = pf_lru_update(lru_age, i)
             /\ issued' = [miss |-> miss, lines |-> burst(streams[i], miss)]
  <2>1. PICK i \in Slots :
          /\ matches(streams[i], miss)
          /\ streams' = [streams EXCEPT ![i] = advanced(streams[i], miss)]
          /\ lru_age' = pf_lru_update(lru_age, i)
          /\ issued' = [miss |-> miss, lines |-> burst(streams[i], miss)]
    BY <1>3
  <2>2. streams[i] \in Stream /\ StreamOK(streams[i])
    BY <1>1
  <2>3. /\ advanced(streams[i], miss) \in Stream /\ StreamOK(advanced(streams[i], miss))
        /\ \A l \in burst(streams[i], miss) : page_of(l) = page_of(miss) /\ l # 0
    BY <2>1, <2>2, AdvancedOK
  <2>4. burst(streams[i], miss) \subseteq Lines
    BY DEF burst
  <2>5. QED
    BY <1>2, <2>1, <2>3, <2>4
<1>4. CASE LET victim == pf_lru_evict(lru_age)
           IN  /\ streams' = [streams EXCEPT ![victim] = started(miss)]
               /\ lru_age' = pf_lru_update(lru_age, victim)
               /\ issued' = [miss |-> miss, lines |-> {}]
  <2>1. pf_lru_evict(lru_age) \in Slots
    BY <1>1, VictimIsSlot
  <2>2. started(miss) \in Stream /\ StreamOK(started(miss))
    BY DEF started, Stream, StreamOK
  <2> DEFINE victim == pf_lru_evict(lru_age)
             none == {}
  <2>3. /\ streams' = [streams EXCEPT ![victim] = started(miss)]
        /\ lru_age' = pf_lru_update(lru_age, victim)
        /\ issued' = [miss |-> miss, lines |-> none]
    BY <1>4
  <2>4. none \subseteq Lines /\ \A l \in none : page_of(l) = page_of(miss) /\ l # 0
    OBVIOUS
  <2> HIDE DEF victim, none
  <2>5. victim \in Slots
    BY <2>1 DEF victim
  <2>6. QED
    BY <1>2, <2>2, <2>3, <2>4, <2>5
<1>5. QED
  BY <1>3, <1>4 DEF pf_stream_on_miss

LEMMA IInvAlways == Spec => []IInv
PROOF
<1>1. IInv /\ [Next]_vars => IInv'
  <2>1. ASSUME IInv, UNCHANGED vars PROVE IInv'
    BY <2>1 DEF vars, IInv, TypeOK, SteadyRunsAhead, BurstOnMissedPage, Slots,
       Stream, Lines, page_of
  <2>2. QED
    BY <2>1, MissIInv DEF Next
<1>2. QED
  BY <1>1, InitIInv, PTL DEF Spec

\* Type correctness; in particular no LRU age ever exceeds NUM_STREAMS - 1.
THEOREM TypeCorrect == Spec => []TypeOK
PROOF
<1>1. IInv => TypeOK
  BY DEF IInv
<1>2. QED
  BY <1>1, IInvAlways, PTL

\* A STEADY stream is always exactly PREFETCH_DISTANCE lines ahead, on the
\* page of its last miss: the loop bound of cpu.cpp:412 never cuts a burst.
THEOREM SteadyStreamsRunAhead == Spec => []SteadyRunsAhead
PROOF
<1>1. IInv => SteadyRunsAhead
  BY DEF IInv
<1>2. QED
  BY <1>1, IInvAlways, PTL

\* Bursts stay on the missed page, the assumption of MesiProtocol's prefetchable.
THEOREM BurstsStayOnMissedPage == Spec => []BurstOnMissedPage
PROOF
<1>1. IInv => BurstOnMissedPage
  BY DEF IInv
<1>2. QED
  BY <1>1, IInvAlways, PTL

(***************************************************************************)
(* The refinement.  The slots implement a list by recency because the ages *)
(* are a permutation: every age is the age of exactly one slot.            *)
(***************************************************************************)
Ages == 0 .. NUM_STREAMS - 1

Permutation(age) ==
  /\ \A i, j \in Slots : age[i] = age[j] => i = j
  /\ \A a \in Ages : \E i \in Slots : age[i] = a

LEMMA InitialAges == Permutation([i \in Slots |-> NUM_STREAMS - 1 - i])
PROOF
<1> USE PrefetcherAssumption
<1>1. ASSUME NEW a \in Ages
      PROVE  \E i \in Slots : NUM_STREAMS - 1 - i = a
  <2>1. /\ NUM_STREAMS - 1 - a \in Slots
        /\ NUM_STREAMS - 1 - (NUM_STREAMS - 1 - a) = a
    BY DEF Ages, Slots
  <2>2. QED
    BY <2>1
<1>2. \A i, j \in Slots : NUM_STREAMS - 1 - i = NUM_STREAMS - 1 - j => i = j
  BY DEF Slots
<1>3. QED
  BY <1>1, <1>2 DEF Permutation

\* pf_lru_update ages the slots that were younger, so no age is taken twice.
LEMMA UpdatePermutes ==
  ASSUME NEW age \in [Slots -> Ages], Permutation(age), NEW index \in Slots
  PROVE  Permutation(pf_lru_update(age, index))
PROOF
<1> DEFINE new == pf_lru_update(age, index)
<1>1. \A i \in Slots : age[i] \in Nat /\ age[i] <= NUM_STREAMS - 1 /\ NUM_STREAMS \in Nat
  BY PrefetcherAssumption DEF Ages
<1>2. \A i \in Slots : new[i] = IF i = index THEN 0
                                ELSE IF age[i] < age[index] THEN age[i] + 1
                                ELSE age[i]
  BY DEF pf_lru_update
<1> HIDE DEF new
<1>3. ASSUME NEW i \in Slots, NEW j \in Slots, new[i] = new[j]
      PROVE  i = j
  <2>1. age[i] = age[j] => i = j
    BY DEF Permutation
  <2>2. age[i] = age[index] => i = index
    BY DEF Permutation
  <2>3. age[j] = age[index] => j = index
    BY DEF Permutation
  <2>4. QED
    BY <1>1, <1>2, <1>3, <2>1, <2>2, <2>3
<1>4. ASSUME NEW a \in Ages
      PROVE  \E i \in Slots : new[i] = a
  <2>1. CASE a = 0
    BY <1>2, <2>1
  <2>2. CASE a > age[index]
    <3>1. PICK i \in Slots : age[i] = a
      BY DEF Permutation
    <3>2. QED
      BY <1>1, <1>2, <2>2, <3>1
  <2>3. CASE a > 0 /\ a <= age[index]
    <3>1. a - 1 \in Ages /\ a \in Int
      BY <2>3, PrefetcherAssumption DEF Ages
    <3>2. PICK i \in Slots : age[i] = a - 1
      BY <3>1 DEF Permutation
    <3>3. age[i] < age[index] /\ i # index
      BY <1>1, <2>3, <3>1, <3>2
    <3>4. QED
      BY <1>2, <3>1, <3>2, <3>3
  <2>4. a \in Nat
    BY <1>1 DEF Ages
  <2>5. QED
    BY <1>1, <2>1, <2>2, <2>3, <2>4
<1>5. QED
  BY <1>3, <1>4 DEF Permutation, new

\* The slot pf_lru_evict gives up is the last one of the list.
LEMMA VictimIsOldest ==
  ASSUME NEW age \in [Slots -> Ages], Permutation(age)
  PROVE  age[pf_lru_evict(age)] = NUM_STREAMS - 1
PROOF
<1>1. PICK i \in Slots :
        \A j \in Slots : age[j] < age[i] \/ (age[j] = age[i] /\ i <= j)
  <2>1. NUM_STREAMS - 1 \in Ages /\ NUM_STREAMS \in Nat
    BY PrefetcherAssumption DEF Ages
  <2>2. PICK i \in Slots : age[i] = NUM_STREAMS - 1
    BY <2>1 DEF Permutation
  <2>3. ASSUME NEW j \in Slots
        PROVE  age[j] < age[i] \/ (age[j] = age[i] /\ i <= j)
    <3>1. age[j] = age[i] => i = j
      BY DEF Permutation
    <3>2. QED
      BY <2>1, <2>2, <3>1 DEF Ages, Slots
  <2>4. QED
    BY <2>3
<1> DEFINE victim == pf_lru_evict(age)
<1>2. /\ victim \in Slots
      /\ \A j \in Slots : age[j] < age[victim] \/ (age[j] = age[victim] /\ victim <= j)
  BY <1>1 DEF pf_lru_evict
<1> HIDE DEF victim
<1>3. NUM_STREAMS - 1 \in Ages
  BY PrefetcherAssumption DEF Ages
<1>4. PICK j \in Slots : age[j] = NUM_STREAMS - 1
  BY <1>3 DEF Permutation
<1>5. age[victim] = NUM_STREAMS - 1
  BY <1>2, <1>4, PrefetcherAssumption DEF Ages
<1>6. QED
  BY <1>5 DEF victim

\* The list of slots a table and its ages stand for.
Listed(tab, age) == [k \in 1 .. NUM_STREAMS |-> tab[CHOOSE i \in Slots : age[i] = k - 1]]

LEMMA ListedAt ==
  ASSUME NEW tab, NEW age \in [Slots -> Ages], Permutation(age), NEW i \in Slots
  PROVE  Listed(tab, age)[age[i] + 1] = tab[i]
PROOF
<1>1. age[i] + 1 \in 1 .. NUM_STREAMS /\ (age[i] + 1) - 1 = age[i]
  BY PrefetcherAssumption DEF Ages
<1>2. (CHOOSE j \in Slots : age[j] = age[i]) = i
  BY DEF Permutation
<1>3. QED
  BY <1>1, <1>2 DEF Listed

LEMMA ListedAll ==
  ASSUME NEW tab \in [Slots -> Stream], NEW age \in [Slots -> Ages], Permutation(age)
  PROVE  LET seq == Listed(tab, age)
         IN  /\ seq \in Seq(Stream) /\ Len(seq) = NUM_STREAMS
             /\ \A n \in 1 .. NUM_STREAMS :
                  \E i \in Slots : age[i] = n - 1 /\ seq[n] = tab[i]
PROOF
<1> DEFINE seq == Listed(tab, age)
<1>1. NUM_STREAMS \in Nat
  BY PrefetcherAssumption
<1>2. \A n \in 1 .. NUM_STREAMS : \E i \in Slots : age[i] = n - 1 /\ seq[n] = tab[i]
  <2>1. ASSUME NEW n \in 1 .. NUM_STREAMS
        PROVE  \E i \in Slots : age[i] = n - 1 /\ seq[n] = tab[i]
    <3>1. n - 1 \in Ages /\ (n - 1) + 1 = n
      BY <1>1 DEF Ages
    <3>2. PICK i \in Slots : age[i] = n - 1
      BY <3>1 DEF Permutation
    <3>3. seq[age[i] + 1] = tab[i]
      BY ListedAt
    <3>4. QED
      BY <3>1, <3>2, <3>3
  <2>2. QED
    BY <2>1
<1>3. seq \in [1 .. NUM_STREAMS -> Stream]
  BY <1>2 DEF Listed
<1>4. seq \in Seq(Stream) /\ Len(seq) = NUM_STREAMS
  BY <1>1, <1>3, IsASeq, LenProperties
<1>5. QED
  BY <1>2, <1>4

\* Front of StreamTable, element by element.
MovedToFront(seq, s, k) ==
  [n \in 1 .. Len(seq) |-> IF n = 1 THEN s ELSE IF n <= k THEN seq[n - 1] ELSE seq[n]]

LEMMA FrontOfSequence ==
  ASSUME NEW T, NEW seq \in Seq(T), NEW s \in T, NEW k \in 1 .. Len(seq)
  PROVE  <<s>> \o SubSeq(seq, 1, k - 1) \o SubSeq(seq, k + 1, Len(seq)) =
           MovedToFront(seq, s, k)
PROOF
<1> DEFINE len == Len(seq)
           a == SubSeq(seq, 1, k - 1)
           b == SubSeq(seq, k + 1, len)
           one == <<s>>
<1>1. len \in Nat /\ k \in Nat /\ 1 <= k /\ k <= len
  BY LenProperties
<1>2. \A n \in 1 .. len : seq[n] \in T
  BY ElementOfSeq
<1>3. /\ a \in Seq(T) /\ Len(a) = k - 1
      /\ \A n \in 1 .. k - 1 : a[n] = seq[n]
  <2>1. \A n \in 1 .. k - 1 : seq[n] \in T
    BY <1>1, <1>2
  <2>2. k - 1 \in Int /\ (k - 1) - 1 + 1 = k - 1
    BY <1>1
  <2>3. /\ a \in Seq(T) /\ Len(a) = IF 1 <= k - 1 THEN (k - 1) - 1 + 1 ELSE 0
        /\ \A n \in 1 .. (k - 1) - 1 + 1 : a[n] = seq[1 + n - 1]
    BY <2>1, <2>2, SubSeqProperties
  <2>4. QED
    BY <1>1, <2>2, <2>3
<1>4. /\ b \in Seq(T) /\ Len(b) = len - k
      /\ \A n \in 1 .. len - k : b[n] = seq[k + n]
  <2>1. \A n \in k + 1 .. len : seq[n] \in T
    BY <1>1, <1>2
  <2>2. k + 1 \in Int /\ len \in Int /\ len - (k + 1) + 1 = len - k
    BY <1>1
  <2>3. /\ b \in Seq(T) /\ Len(b) = IF k + 1 <= len THEN len - (k + 1) + 1 ELSE 0
        /\ \A n \in 1 .. len - (k + 1) + 1 : b[n] = seq[(k + 1) + n - 1]
    BY <2>1, <2>2, SubSeqProperties
  <2>4. ASSUME NEW n \in 1 .. len - k PROVE b[n] = seq[k + n]
    <3>1. n \in 1 .. len - (k + 1) + 1 /\ (k + 1) + n - 1 = k + n
      BY <1>1, <2>2
    <3>2. QED
      BY <2>3, <3>1
  <2>5. Len(b) = len - k
    BY <1>1, <2>3
  <2>6. QED
    BY <2>3, <2>4, <2>5
<1>5. one \in Seq(T) /\ Len(one) = 1 /\ one[1] = s
  OBVIOUS
<1> HIDE DEF a, b, one, len
<1> DEFINE lead == one \o a
<1>6. /\ lead \in Seq(T) /\ Len(lead) = k
      /\ \A n \in 1 .. k : lead[n] = IF n = 1 THEN s ELSE a[n - 1]
  <2>1. /\ lead \in Seq(T) /\ Len(lead) = Len(one) + Len(a)
        /\ \A n \in 1 .. Len(one) + Len(a) :
             lead[n] = IF n <= Len(one) THEN one[n] ELSE a[n - Len(one)]
    BY <1>3, <1>5, ConcatProperties, Zenon
  <2>2. Len(one) + Len(a) = k /\ Len(one) = 1
    BY <1>1, <1>3, <1>5
  <2>3. QED
    BY <1>1, <1>5, <2>1, <2>2
<1> HIDE DEF lead
<1> DEFINE front == lead \o b
<1>7. /\ front \in Seq(T) /\ Len(front) = len
      /\ \A n \in 1 .. len : front[n] = IF n <= k THEN lead[n] ELSE b[n - k]
  <2>1. /\ front \in Seq(T) /\ Len(front) = Len(lead) + Len(b)
        /\ \A n \in 1 .. Len(lead) + Len(b) :
             front[n] = IF n <= Len(lead) THEN lead[n] ELSE b[n - Len(lead)]
    BY <1>4, <1>6, ConcatProperties, Zenon
  <2>2. Len(lead) + Len(b) = len /\ Len(lead) = k
    BY <1>1, <1>4, <1>6
  <2>3. QED
    BY <2>1, <2>2
<1> HIDE DEF front
<1>8. Len(front) = len /\ front = [n \in 1 .. len |-> front[n]]
  BY <1>1, <1>7, LenProperties
<1>9. ASSUME NEW n \in 1 .. len
      PROVE  front[n] = IF n = 1 THEN s ELSE IF n <= k THEN seq[n - 1] ELSE seq[n]
  <2>1. CASE n = 1
    BY <1>1, <1>6, <1>7, <2>1
  <2>2. CASE n # 1 /\ n <= k
    <3>1. n - 1 \in 1 .. k - 1 /\ n \in 1 .. k
      BY <1>1, <2>2
    <3>2. front[n] = lead[n] /\ lead[n] = a[n - 1] /\ a[n - 1] = seq[n - 1]
      BY <1>3, <1>6, <1>7, <2>2, <3>1
    <3>3. QED
      BY <2>2, <3>2
  <2>3. CASE n > k
    <3>1. n - k \in 1 .. len - k /\ k + (n - k) = n /\ n # 1 /\ ~(n <= k)
      BY <1>1, <2>3
    <3>2. front[n] = b[n - k] /\ b[n - k] = seq[k + (n - k)]
      BY <1>4, <1>7, <3>1
    <3>3. QED
      BY <3>1, <3>2
  <2>4. QED
    BY <1>1, <2>1, <2>2, <2>3
<1>10. QED
  BY <1>8, <1>9 DEF front, lead, one, a, b, len, MovedToFront

\* Using a slot moves its stream, whatever it has become, to the front.
LEMMA UseMovesToFront ==
  ASSUME NEW tab \in [Slots -> Stream], NEW age \in [Slots -> Ages], Permutation(age),
         NEW index \in Slots, NEW s \in Stream
  PROVE  LET seq == Listed(tab, age)
             k == age[index] + 1
         IN  Listed([tab EXCEPT ![index] = s], pf_lru_update(age, index)) =
               <<s>> \o SubSeq(seq, 1, k - 1) \o SubSeq(seq, k + 1, Len(seq))
PROOF
<1> DEFINE seq == Listed(tab, age)
           k == age[index] + 1
           tab2 == [tab EXCEPT ![index] = s]
           age2 == pf_lru_update(age, index)
           seq2 == Listed(tab2, age2)
<1>1. NUM_STREAMS \in Nat /\ k \in 1 .. NUM_STREAMS
  BY PrefetcherAssumption DEF Ages
<1>2. \A n \in 1 .. NUM_STREAMS : \E i \in Slots : age[i] = n - 1 /\ seq[n] = tab[i]
  BY ListedAll
<1>4. seq \in Seq(Stream) /\ Len(seq) = NUM_STREAMS
  BY ListedAll
<1>5. age2 \in [Slots -> Ages] /\ Permutation(age2)
  BY AgesStayInRange, UpdatePermutes DEF Ages
<1>6. \A i \in Slots : age2[i] = IF i = index THEN 0
                                 ELSE IF age[i] < age[index] THEN age[i] + 1
                                 ELSE age[i]
  BY DEF pf_lru_update
<1>7. \A i \in Slots : seq2[age2[i] + 1] = tab2[i]
  BY <1>5, ListedAt
<1>8. seq2 = [n \in 1 .. NUM_STREAMS |-> seq2[n]]
  BY DEF Listed
<1>9. \A i \in Slots : tab2[i] = IF i = index THEN s ELSE tab[i]
  OBVIOUS
<1>10. \A i \in Slots : age[i] \in Nat /\ (age[i] = age[index] => i = index)
  BY DEF Permutation, Ages
<1> HIDE DEF seq, seq2, age2, tab2
<1>11. ASSUME NEW n \in 1 .. NUM_STREAMS
       PROVE  seq2[n] = IF n = 1 THEN s ELSE IF n <= k THEN seq[n - 1] ELSE seq[n]
  <2>1. CASE n = 1
    <3>1. age2[index] + 1 = 1
      BY <1>6
    <3>2. QED
      BY <1>7, <1>9, <2>1, <3>1
  <2>2. CASE n # 1 /\ n <= k
    <3>1. n - 1 \in 1 .. NUM_STREAMS
      BY <1>1, <2>2
    <3>2. PICK i \in Slots : age[i] = (n - 1) - 1 /\ seq[n - 1] = tab[i]
      BY <1>2, <3>1
    <3>3. age[i] < age[index] /\ i # index
      BY <1>1, <1>10, <2>2, <3>2
    <3>4. age2[i] + 1 = n
      BY <1>1, <1>6, <3>2, <3>3
    <3>5. QED
      BY <1>7, <1>9, <2>2, <3>2, <3>3, <3>4
  <2>3. CASE n # 1 /\ ~(n <= k)
    <3>1. PICK i \in Slots : age[i] = n - 1 /\ seq[n] = tab[i]
      BY <1>2
    <3>2. ~(age[i] < age[index]) /\ i # index
      BY <1>1, <1>10, <2>3, <3>1
    <3>3. age2[i] + 1 = n
      BY <1>1, <1>6, <3>1, <3>2
    <3>4. QED
      BY <1>7, <1>9, <2>3, <3>1, <3>2, <3>3
  <2>4. QED
    BY <2>1, <2>2, <2>3
<1>12. seq2 = MovedToFront(seq, s, k)
  BY <1>4, <1>8, <1>11 DEF MovedToFront
<1>13. <<s>> \o SubSeq(seq, 1, k - 1) \o SubSeq(seq, k + 1, Len(seq)) = MovedToFront(seq, s, k)
  <2>1. k \in 1 .. Len(seq)
    BY <1>1, <1>4
  <2> HIDE DEF k
  <2>2. QED
    BY <1>4, <2>1, FrontOfSequence
<1>14. QED
  BY <1>12, <1>13 DEF seq, seq2, tab2, age2

RInv == IInv /\ Permutation(lru_age)

LEMMA RInvAlways == Spec => []RInv
PROOF
<1>1. Init => RInv
  BY InitIInv, InitialAges DEF Init, RInv
<1>2. RInv /\ [Next]_vars => Permutation(lru_age)'
  <2>1. ASSUME RInv, NEW miss \in Lines, pf_stream_on_miss(miss)
        PROVE  Permutation(lru_age')
    <3>1. lru_age \in [Slots -> Ages] /\ Permutation(lru_age)
      BY <2>1 DEF RInv, IInv, TypeOK, Ages
    <3>2. pf_lru_evict(lru_age) \in Slots
      BY <3>1, VictimIsSlot DEF Ages
    <3>3. \E i \in Slots : lru_age' = pf_lru_update(lru_age, i)
      BY <2>1, <3>2 DEF pf_stream_on_miss
    <3>4. QED
      BY <3>1, <3>3, UpdatePermutes
  <2>2. ASSUME RInv, UNCHANGED vars
        PROVE  Permutation(lru_age')
    BY <2>2 DEF RInv, vars
  <2>3. Permutation(lru_age') => Permutation(lru_age)'
    BY DEF Permutation, Slots, Ages
  <2>4. QED
    BY <2>1, <2>2, <2>3 DEF Next
<1>3. QED
  BY <1>1, <1>2, IInvAlways, PTL DEF Spec, RInv

LEMMA MissIsTableStep ==
  ASSUME RInv, NEW miss \in Lines, pf_stream_on_miss(miss)
  PROVE  Recency!Advance(miss) \/ Recency!Start(miss)
PROOF
<1>1. /\ streams \in [Slots -> Stream] /\ lru_age \in [Slots -> Ages]
      /\ Permutation(lru_age) /\ \A i \in Slots : StreamOK(streams[i])
  BY DEF RInv, IInv, TypeOK, SteadyRunsAhead, StreamOK, Ages
<1>2. by_recency = Listed(streams, lru_age) /\ by_recency' = Listed(streams', lru_age')
  BY DEF by_recency, Listed, Slots
<1>3. NUM_STREAMS \in Nat \ {0} /\ DOMAIN by_recency = 1 .. NUM_STREAMS
  BY PrefetcherAssumption DEF by_recency
<1>4. Len(by_recency) = NUM_STREAMS
  BY <1>1, <1>2, ListedAll
<1>5. ASSUME NEW i \in Slots
      PROVE  lru_age[i] + 1 \in DOMAIN by_recency /\ by_recency[lru_age[i] + 1] = streams[i]
  BY <1>1, <1>2, <1>3, ListedAt DEF Ages
<1>6. ASSUME NEW i \in Slots, NEW s \in Stream,
             streams' = [streams EXCEPT ![i] = s], lru_age' = pf_lru_update(lru_age, i)
      PROVE  by_recency' = Recency!Front(s, lru_age[i] + 1)
  BY <1>1, <1>2, <1>6, UseMovesToFront DEF Recency!Front
<1>7. CASE \E i \in Slots :
             /\ matches(streams[i], miss)
             /\ streams' = [streams EXCEPT ![i] = advanced(@, miss)]
             /\ lru_age' = pf_lru_update(lru_age, i)
  <2>1. PICK i \in Slots :
             /\ matches(streams[i], miss)
             /\ streams' = [streams EXCEPT ![i] = advanced(streams[i], miss)]
             /\ lru_age' = pf_lru_update(lru_age, i)
    BY <1>7
  <2>2. advanced(streams[i], miss) \in Stream
    BY <1>1, <2>1, AdvancedOK
  <2>3. by_recency' = Recency!Front(advanced(streams[i], miss), lru_age[i] + 1)
    BY <1>6, <2>1, <2>2
  <2>4. QED
    BY <1>5, <2>1, <2>3 DEF Recency!Advance
<1>8. CASE /\ \A i \in Slots : ~matches(streams[i], miss)
           /\ streams' = [streams EXCEPT ![pf_lru_evict(lru_age)] = started(miss)]
           /\ lru_age' = pf_lru_update(lru_age, pf_lru_evict(lru_age))
  <2>1. pf_lru_evict(lru_age) \in Slots /\ lru_age[pf_lru_evict(lru_age)] + 1 = NUM_STREAMS
    BY <1>1, <1>3, VictimIsSlot, VictimIsOldest DEF Ages
  <2>2. started(miss) \in Stream
    BY DEF started, Stream
  <2>3. by_recency' = Recency!Front(started(miss), Len(by_recency))
    BY <1>4, <1>6, <1>8, <2>1, <2>2
  <2>4. ASSUME NEW k \in DOMAIN by_recency PROVE ~matches(by_recency[k], miss)
    <3>1. k - 1 \in Ages /\ (k - 1) + 1 = k
      BY <1>3, <2>4 DEF Ages
    <3>2. PICK i \in Slots : lru_age[i] = k - 1
      BY <1>1, <3>1 DEF Permutation
    <3>3. by_recency[k] = streams[i]
      BY <1>5, <3>1, <3>2
    <3>4. QED
      BY <1>8, <3>3
  <2>5. QED
    BY <2>3, <2>4 DEF Recency!Start
<1>9. QED
  BY <1>7, <1>8 DEF pf_stream_on_miss

\* Slots, ages and first match implement the list by recency: a miss advances a
\* stream it matches and moves it to the front, or replaces the last stream of
\* the list, for every number of streams.
THEOREM StreamsAreAListByRecency == Spec => StreamTableSpec
PROOF
<1>1. RInv /\ [Next]_vars => [Recency!Next]_by_recency
  <2>1. ASSUME RInv, NEW miss \in Lines, pf_stream_on_miss(miss)
        PROVE  Recency!Next
    BY <2>1, MissIsTableStep DEF Recency!Next
  <2>2. ASSUME UNCHANGED vars
        PROVE  by_recency' = by_recency
    BY <2>2 DEF vars, by_recency, Slots
  <2>3. QED
    BY <2>1, <2>2 DEF Next
<1>2. Spec => [][Recency!Next]_by_recency
  BY <1>1, RInvAlways, PTL DEF Spec
<1>3. QED
  BY <1>2, PTL DEF StreamTableSpec, Recency!Spec
=============================================================================
