------------------------- MODULE EventTrace_proofs --------------------------
(***************************************************************************)
(* Proofs about EventTrace, for any number of threads, block size, event   *)
(* size, alignment and number of events.                                   *)
(***************************************************************************)
EXTENDS EventTrace, TLAPS

USE DEF NULL

(***************************************************************************)
(* The queue.                                                              *)
(***************************************************************************)
\* The part of TypeOK about the pool and the list.
QueueTypes ==
  /\ blocks \in 0 .. MaxBlocks
  /\ offset \in Nat
  /\ order \in Seq(Address)
  /\ DOMAIN node = {order[k] : k \in 1 .. Len(order)}
  /\ \A a \in DOMAIN node : node[a] \in Node
  /\ first \in Address \cup {NULL}
  /\ last \in Address \cup {NULL}

\* Nothing lies beyond the pool's offset.
Placed ==
  \A k \in 1 .. Len(order) :
    /\ order[k][1] <= blocks
    /\ order[k][1] = blocks => order[k][2] + EVENT_SIZE <= offset

QueueOK == QueueTypes /\ Placed /\ NodesDisjoint /\ ListInPushOrder

\* An address fits its block and is aligned.
Fits(a) == /\ a[2] + EVENT_SIZE <= BLOCK_SIZE
           /\ \E q \in 0 .. a[2] : a[2] = q * ALIGN

\* The event at a ends before the one at b begins.
Before(a, b) == \/ a[1] < b[1]
                \/ a[1] = b[1] /\ a[2] + EVENT_SIZE <= b[2]

\* NodesDisjoint in terms of one address and of two.
LEMMA DisjointMeans ==
  NodesDisjoint <=> /\ \A k \in 1 .. Len(order) : Fits(order[k])
                    /\ \A j, k \in 1 .. Len(order) : j < k => Before(order[j], order[k])
  BY DEF NodesDisjoint, Fits, Before

\* The offset is rounded up to a multiple of the alignment.
LEMMA AlignedUp ==
  ASSUME NEW x \in Nat, NEW b \in Nat \ {0}
  PROVE  /\ ((x + b - 1) \div b) \in Nat
         /\ ((x + b - 1) \div b) * b >= x
         /\ ((x + b - 1) \div b) <= ((x + b - 1) \div b) * b
<1> DEFINE q == (x + b - 1) \div b
<1>1. q \in Nat /\ q * b <= x + b - 1 /\ x + b - 1 < q * b + b
  BY Z3
<1>2. q <= q * b
  <2> HIDE DEF q
  <2> QED BY <1>1, Z3
<1> QED BY <1>1, <1>2

\* alloc returns an aligned place inside a block, behind everything so far.
LEMMA AllocInPool ==
  ASSUME QueueTypes, ~alloc_fails
  PROVE  /\ alloc = <<alloc[1], alloc[2]>>
         /\ alloc[1] \in 1 .. MaxBlocks
         /\ alloc[2] \in Nat
         /\ alloc[1] >= blocks
         /\ alloc[1] = blocks => alloc[2] >= offset
         /\ Fits(alloc)
<1> USE PoolAssumption DEF QueueTypes
<1> DEFINE q == (offset + ALIGN - 1) \div ALIGN
<1>1. q \in Nat /\ q * ALIGN >= offset /\ q <= q * ALIGN
  BY AlignedUp
<1>2. aligned = q * ALIGN
  BY DEF aligned
<1> HIDE DEF q
<1>3. aligned \in Nat /\ aligned >= offset /\ q \in 0 .. aligned
  BY <1>1, <1>2, Z3
<1>4. CASE needs_block
  <2>1. blocks < MaxBlocks /\ alloc = <<blocks + 1, 0>>
    BY <1>4 DEF alloc, alloc_fails
  <2>2. 0 = 0 * ALIGN
    BY Z3
  <2>3. Fits(alloc)
    BY <2>1, <2>2 DEF Fits
  <2> QED BY <2>1, <2>3
<1>5. CASE ~needs_block
  <2>1. /\ blocks \in 1 .. MaxBlocks
        /\ alloc = <<blocks, aligned>>
        /\ aligned + EVENT_SIZE <= BLOCK_SIZE
    BY <1>3, <1>5 DEF alloc, needs_block
  <2>2. alloc[1] = blocks /\ alloc[2] = aligned
    BY <2>1
  <2>3. \E x \in 0 .. alloc[2] : alloc[2] = x * ALIGN
    BY <1>2, <1>3, <2>2
  <2>4. Fits(alloc)
    BY <2>1, <2>2, <2>3 DEF Fits
  <2> QED BY <1>3, <2>1, <2>2, <2>4
<1> QED BY <1>4, <1>5

\* Behind everything: after every event of the queue, so at a fresh address.
LEMMA AllocIsLast ==
  ASSUME QueueTypes, Placed, ~alloc_fails, NEW k \in 1 .. Len(order)
  PROVE  Before(order[k], alloc) /\ order[k] # alloc
<1>1. order[k] \in Address
  BY DEF QueueTypes
<1>2. /\ order[k][1] \in Nat /\ order[k][2] \in Nat
      /\ order[k][1] <= blocks
      /\ order[k][1] = blocks => order[k][2] + EVENT_SIZE <= offset
  BY <1>1 DEF Address, Placed
<1>3. alloc[1] \in Nat /\ alloc[2] \in Nat /\ alloc[1] >= blocks
      /\ (alloc[1] = blocks => alloc[2] >= offset)
  BY AllocInPool, PoolAssumption
<1>4. blocks \in Nat /\ offset \in Nat
  BY PoolAssumption DEF QueueTypes
<1>5. Before(order[k], alloc)
  <2> DEFINE a == order[k][1] b == order[k][2] c == alloc[1] d == alloc[2]
  <2>1. a \in Nat /\ b \in Nat /\ c \in Nat /\ d \in Nat
    BY <1>2, <1>3
  <2>2. a <= blocks /\ c >= blocks /\ (a = blocks => b + EVENT_SIZE <= offset)
        /\ (c = blocks => d >= offset)
    BY <1>2, <1>3
  <2> HIDE DEF a, b, c, d
  <2>3. a < c \/ (a = c /\ b + EVENT_SIZE <= d)
    BY <1>4, <2>1, <2>2, PoolAssumption
  <2> QED BY <2>3 DEF Before, a, b, c, d
<1>6. ~Before(alloc, alloc)
  BY <1>3, PoolAssumption DEF Before
<1> QED BY <1>5, <1>6

\* What push does to the nodes, in terms of the order.
LEMMA PushEffect ==
  ASSUME QueueTypes, Placed, ~alloc_fails, NEW e, push(e)
  PROVE  /\ Len(order') = Len(order) + 1
         /\ order'[Len(order) + 1] = alloc
         /\ \A k \in 1 .. Len(order) : order'[k] = order[k]
         /\ node'[alloc] = [event |-> e, prev |-> last, next |-> NULL]
         /\ \A k \in 1 .. Len(order) :
              /\ node'[order[k]].event = node[order[k]].event
              /\ node'[order[k]].prev = node[order[k]].prev
              /\ node'[order[k]].next = IF order[k] = last THEN alloc ELSE node[order[k]].next
              /\ node'[order[k]] \in Node
<1>1. alloc \in Address /\ alloc \in Address \cup {NULL}
  BY AllocInPool DEF Address
<1>2. ASSUME NEW k \in 1 .. Len(order)
      PROVE  order[k] \in DOMAIN node /\ order[k] # alloc /\ node[order[k]] \in Node
  BY AllocIsLast DEF QueueTypes
<1>3. order \in Seq(Address) /\ order' = Append(order, alloc)
  BY DEF QueueTypes, push
<1>4. node' = [a \in DOMAIN node \cup {alloc} |->
                 IF a = alloc THEN [event |-> e, prev |-> last, next |-> NULL]
                 ELSE IF a = last THEN [node[a] EXCEPT !.next = alloc] ELSE node[a]]
  BY DEF push
<1>5. /\ Len(order') = Len(order) + 1
      /\ order'[Len(order) + 1] = alloc
      /\ \A k \in 1 .. Len(order) : order'[k] = order[k]
  BY <1>1, <1>3
<1>6. node'[alloc] = [event |-> e, prev |-> last, next |-> NULL]
  BY <1>4
<1>7. ASSUME NEW k \in 1 .. Len(order)
      PROVE  /\ node'[order[k]].event = node[order[k]].event
             /\ node'[order[k]].prev = node[order[k]].prev
             /\ node'[order[k]].next = IF order[k] = last THEN alloc ELSE node[order[k]].next
             /\ node'[order[k]] \in Node
  <2>1. node'[order[k]] = IF order[k] = last THEN [node[order[k]] EXCEPT !.next = alloc]
                                             ELSE node[order[k]]
    BY <1>2, <1>4
  <2> QED BY <1>1, <1>2, <2>1 DEF Node
<1> QED BY <1>5, <1>6, <1>7

\* A push into a sound queue leaves a sound queue: the new node lies behind all
\* others and is linked to the last one.
LEMMA PushKeepsQueue ==
  ASSUME QueueOK, ~alloc_fails, NEW e \in Event, push(e)
  PROVE  QueueOK'
<1> DEFINE n == Len(order)
<1> USE DEF QueueOK
<1>n. n \in Nat /\ order \in Seq(Address)
  BY DEF QueueTypes
<1>a. /\ alloc = <<alloc[1], alloc[2]>> /\ alloc[1] \in 1 .. MaxBlocks /\ alloc[2] \in Nat
      /\ alloc[1] >= blocks /\ Fits(alloc)
  BY AllocInPool
<1>b. alloc \in Address
  BY <1>a DEF Address
<1>e. /\ Len(order') = n + 1
      /\ order'[n + 1] = alloc
      /\ \A k \in 1 .. n : order'[k] = order[k]
      /\ node'[alloc] = [event |-> e, prev |-> last, next |-> NULL]
      /\ \A k \in 1 .. n :
           /\ node'[order[k]].event = node[order[k]].event
           /\ node'[order[k]].prev = node[order[k]].prev
           /\ node'[order[k]].next = IF order[k] = last THEN alloc ELSE node[order[k]].next
           /\ node'[order[k]] \in Node
  BY PushEffect
<1>k. \A k \in 1 .. n + 1 : k = n + 1 \/ k \in 1 .. n
  BY <1>n
<1>1. QueueTypes'
  <2>1. blocks' \in 0 .. MaxBlocks /\ offset' \in Nat
    <3>1. blocks' = alloc[1] /\ offset' = alloc[2] + EVENT_SIZE
      BY DEF push
    <3> QED BY <1>a, <3>1, PoolAssumption
  <2>2. order' \in Seq(Address)
    BY <1>b, <1>n DEF push
  <2>3. DOMAIN node' = {order'[k] : k \in 1 .. Len(order')}
    <3>1. DOMAIN node' = DOMAIN node \cup {alloc}
      BY DEF push
    <3>2. DOMAIN node = {order[k] : k \in 1 .. n}
      BY DEF QueueTypes
    <3>3. {order'[k] : k \in 1 .. n + 1} = {order[k] : k \in 1 .. n} \cup {alloc}
      BY <1>e, <1>k, <1>n
    <3> QED BY <1>e, <3>1, <3>2, <3>3
  <2>4. \A a \in DOMAIN node' : node'[a] \in Node
    <3>1. node'[alloc] \in Node
      <4>1. last \in Address \cup {NULL}
        BY DEF QueueTypes
      <4> QED BY <1>e, <4>1 DEF Node
    <3>2. \A a \in DOMAIN node' : a = alloc \/ \E k \in 1 .. n : a = order[k]
      BY DEF push, QueueTypes
    <3> QED BY <1>e, <3>1, <3>2
  <2>5. first' \in Address \cup {NULL} /\ last' \in Address \cup {NULL}
    BY <1>b DEF push, QueueTypes
  <2> QED BY <2>1, <2>2, <2>3, <2>4, <2>5 DEF QueueTypes
<1>2. Placed'
  <2> SUFFICES ASSUME NEW k \in 1 .. n + 1
               PROVE  /\ order'[k][1] <= blocks'
                      /\ order'[k][1] = blocks' => order'[k][2] + EVENT_SIZE <= offset'
    BY <1>e DEF Placed
  <2>1. blocks' = alloc[1] /\ offset' = alloc[2] + EVENT_SIZE
    BY DEF push
  <2>2. CASE k = n + 1
    BY <1>a, <1>e, <2>1, <2>2, PoolAssumption
  <2>3. CASE k \in 1 .. n
    <3>1. order'[k] = order[k] /\ order[k] \in Address
      BY <1>e, <1>n, <2>3
    <3>2. Before(order[k], alloc)
      BY <2>3, AllocIsLast
    <3>3. order[k][1] \in Nat /\ order[k][2] \in Nat
      BY <3>1 DEF Address
    <3> QED BY <1>a, <2>1, <3>1, <3>2, <3>3, PoolAssumption DEF Before
  <2> QED BY <1>k, <2>2, <2>3
<1>3. NodesDisjoint'
  <2>1. \A k \in 1 .. n : Fits(order[k])
    BY DisjointMeans
  <2>2. \A j, k \in 1 .. n : j < k => Before(order[j], order[k])
    BY DisjointMeans
  <2>3. \A k \in 1 .. n + 1 : Fits(order'[k])
    BY <1>a, <1>e, <1>k, <2>1
  <2>4. \A j, k \in 1 .. n + 1 : j < k => Before(order'[j], order'[k])
    <3> SUFFICES ASSUME NEW j \in 1 .. n + 1, NEW k \in 1 .. n + 1, j < k
                 PROVE  Before(order'[j], order'[k])
      OBVIOUS
    <3>1. j \in 1 .. n
      BY <1>n
    <3>2. CASE k = n + 1
      BY <1>e, <3>1, <3>2, AllocIsLast
    <3>3. CASE k \in 1 .. n
      BY <1>e, <2>2, <3>1, <3>3
    <3> QED BY <1>k, <3>2, <3>3
  <2> QED BY <1>e, <2>3, <2>4 DEF NodesDisjoint, Fits, Before
<1>4. ListInPushOrder'
  <2>1. /\ first = IF n = 0 THEN NULL ELSE order[1]
        /\ last = IF n = 0 THEN NULL ELSE order[n]
        /\ \A k \in 1 .. n :
             /\ node[order[k]].next = IF k = n THEN NULL ELSE order[k + 1]
             /\ node[order[k]].prev = IF k = 1 THEN NULL ELSE order[k - 1]
    BY DEF ListInPushOrder
  <2>2. \A k \in 1 .. n : order[k] = last <=> k = n
    <3> SUFFICES ASSUME NEW k \in 1 .. n PROVE order[k] = last <=> k = n
      OBVIOUS
    <3>1. last = order[n] /\ n \in 1 .. n
      BY <1>n, <2>1
    <3>2. CASE k < n
      <4>1. Before(order[k], order[n])
        BY <3>1, <3>2, DisjointMeans
      <4>2. order[n] \in Address
        BY <1>n, <3>1
      <4>3. ~Before(order[n], order[n])
        BY <4>2, PoolAssumption DEF Before, Address
      <4> QED BY <1>n, <3>1, <3>2, <4>1, <4>3
    <3> QED BY <1>n, <3>1, <3>2
  <2>3. \A k \in 1 .. n : order[k] \in Address /\ order[k] # NULL
    BY <1>n DEF Address
  <2>4. alloc # NULL
    BY <1>b DEF Address
  <2>5. last = NULL <=> n = 0
    BY <1>n, <2>1, <2>3
  <2>6. first' = order'[1] /\ last' = order'[n + 1]
    <3>1. first' = (IF last = NULL THEN alloc ELSE first) /\ last' = alloc
      BY DEF push
    <3>2. CASE n = 0
      BY <1>e, <2>5, <3>1, <3>2
    <3>3. CASE n # 0
      BY <1>e, <1>n, <2>1, <2>5, <3>1, <3>3
    <3> QED BY <3>2, <3>3
  <2>7. ASSUME NEW k \in 1 .. n + 1
        PROVE  /\ node'[order'[k]].next = IF k = n + 1 THEN NULL ELSE order'[k + 1]
               /\ node'[order'[k]].prev = IF k = 1 THEN NULL ELSE order'[k - 1]
    <3>1. CASE k = n + 1
      <4>1. node'[order'[k]].next = NULL /\ node'[order'[k]].prev = last
        BY <1>e, <3>1
      <4>2. last = IF k = 1 THEN NULL ELSE order'[k - 1]
        BY <1>e, <1>n, <2>1, <3>1
      <4> QED BY <3>1, <4>1, <4>2
    <3>2. CASE k \in 1 .. n
      <4>1. /\ node'[order'[k]].prev = node[order[k]].prev
            /\ node'[order'[k]].next = IF order[k] = last THEN alloc ELSE node[order[k]].next
        BY <1>e, <3>2
      <4>2. node'[order'[k]].prev = IF k = 1 THEN NULL ELSE order'[k - 1]
        BY <1>e, <1>n, <2>1, <3>2, <4>1
      <4>3. node'[order'[k]].next = order'[k + 1]
        <5>1. CASE k = n
          BY <1>e, <2>2, <3>2, <4>1, <5>1
        <5>2. CASE k # n
          <6>1. k + 1 \in 1 .. n
            BY <1>n, <3>2, <5>2
          <6> QED BY <1>e, <2>1, <2>2, <3>2, <4>1, <5>2, <6>1
        <5> QED BY <5>1, <5>2
      <4> QED BY <1>n, <3>2, <4>2, <4>3
    <3> QED BY <1>k, <3>1, <3>2
  <2>8. n + 1 # 0
    BY <1>n
  <2> QED BY <1>e, <2>6, <2>7, <2>8 DEF ListInPushOrder
<1> QED BY <1>1, <1>2, <1>3, <1>4

(***************************************************************************)
(* Types, the pool and the list.                                           *)
(***************************************************************************)
Record == [seq : Nat, has_data : {0, 1}, data : Bytes]

\* The part of TypeOK about everything else.
OtherTypes ==
  /\ next_seq \in Nat
  /\ bus_lock \in Threads \cup {NoThread}
  /\ pc \in [Threads -> {"idle", "ready", "inside"}]
  /\ current_seq \in [Threads -> Nat]
  /\ phase \in {"recording", "aborted", "written", "reading", "unreadable", "loaded"}
  /\ file \in [exists : BOOLEAN, header : BOOLEAN, records : Seq(Record)]
  /\ saved \in BOOLEAN
  /\ recorded \in Seq(Event)

QueueInv == QueueOK /\ OtherTypes

\* An empty queue is sound.
LEMMA EmptyQueueOK ==
  ASSUME empty_queue
  PROVE  QueueOK
<1>1. /\ order = <<>> /\ Len(order) = 0
      /\ node = <<>> /\ blocks = 0 /\ offset = 0 /\ first = NULL /\ last = NULL
  BY DEF empty_queue
<1>2. 1 .. Len(order) = {}
  BY <1>1
<1>3. DOMAIN node = {}
  BY <1>1
<1>4. QueueTypes
  BY <1>1, <1>2, <1>3, PoolAssumption DEF QueueTypes
<1>5. Placed /\ NodesDisjoint
  BY <1>2 DEF Placed, NodesDisjoint
<1>6. ListInPushOrder
  BY <1>1, <1>2 DEF ListInPushOrder
<1> QED BY <1>4, <1>5, <1>6 DEF QueueOK

\* The pool and the list depend on the queue's variables only.
LEMMA SameQueue ==
  ASSUME QueueOK, UNCHANGED queue
  PROVE  QueueOK'
<1>1. /\ blocks' = blocks /\ offset' = offset /\ node' = node
      /\ first' = first /\ last' = last /\ order' = order
  BY DEF queue
<1>2. QueueTypes'
  BY <1>1 DEF QueueOK, QueueTypes
<1>3. Placed'
  BY <1>1 DEF QueueOK, Placed
<1>4. NodesDisjoint'
  BY <1>1 DEF QueueOK, NodesDisjoint
<1>5. ListInPushOrder'
  BY <1>1 DEF QueueOK, ListInPushOrder
<1> QED BY <1>2, <1>3, <1>4, <1>5 DEF QueueOK

\* events has the events of the nodes.
LEMMA EventsTyped ==
  ASSUME QueueOK
  PROVE  /\ Len(events) = Len(order) /\ Len(order) \in Nat
         /\ events \in Seq(Event)
         /\ \A k \in 1 .. Len(order) : events[k] = node[order[k]].event /\ events[k] \in Event
<1>1. order \in Seq(Address) /\ Len(order) \in Nat
  BY DEF QueueOK, QueueTypes
<1>2. \A k \in 1 .. Len(order) : node[order[k]].event \in Event
  BY DEF QueueOK, QueueTypes, Node
<1>3. events \in [1 .. Len(order) -> Event]
  BY <1>2 DEF events
<1> QED BY <1>1, <1>3 DEF events

\* Reading a record that was just written gives the event back, with or without
\* bytes.
LEMMA RecordTyped ==
  ASSUME NEW e \in Event
  PROVE  to_record(e) \in Record /\ of_record(to_record(e)) = e
<1>1. e.seq \in Nat /\ e.data \in Bytes \cup {NoData} /\ e = [seq |-> e.seq, data |-> e.data]
  BY DEF Event
<1>2. to_record(e) \in Record
  BY <1>1, BytesAssumption DEF to_record, Record
<1>3. of_record(to_record(e)) = [seq |-> e.seq, data |-> e.data]
  <2>1. CASE e.data = NoData
    BY <2>1 DEF of_record, to_record
  <2>2. CASE e.data # NoData
    BY <2>2 DEF of_record, to_record
  <2> QED BY <2>1, <2>2
<1> QED BY <1>1, <1>2, <1>3

\* Every record reads as an event.
LEMMA OfRecordTyped ==
  ASSUME NEW r \in Record
  PROVE  of_record(r) \in Event
  BY DEF Record, of_record, Event

\* What write_trace can leave on disk: nothing, or the first n events.
LEMMA Written ==
  ASSUME QueueOK, write_trace
  PROVE  /\ recorded' = events
         /\ \E n \in 0 .. Len(events), x \in BOOLEAN, h \in BOOLEAN :
              /\ file' = [exists |-> x, header |-> h,
                          records |-> [k \in 1 .. n |-> to_record(events[k])]]
              /\ saved' => n = Len(events)
         /\ saved' \in BOOLEAN
<1>1. Len(events) \in Nat
  BY EventsTyped
<1>2. [k \in 1 .. 0 |-> to_record(events[k])] = <<>>
  OBVIOUS
<1>3. recorded' = events /\ saved' \in BOOLEAN
  BY DEF write_trace
<1>4. \E n \in 0 .. Len(events), x \in BOOLEAN, h \in BOOLEAN :
         /\ file' = [exists |-> x, header |-> h,
                     records |-> [k \in 1 .. n |-> to_record(events[k])]]
         /\ saved' => n = Len(events)
  <2>1. CASE /\ saved' = TRUE
             /\ file' = [exists |-> TRUE, header |-> TRUE,
                         records |-> [k \in 1 .. Len(events) |-> to_record(events[k])]]
    <3> DEFINE n == Len(events)
    <3>1. /\ file' = [exists |-> TRUE, header |-> TRUE,
                      records |-> [k \in 1 .. n |-> to_record(events[k])]]
          /\ saved' => n = Len(events)
      BY <2>1
    <3>2. n \in 0 .. Len(events)
      BY <1>1
    <3> HIDE DEF n
    <3> QED BY <3>1, <3>2, Zenon
  <2>2. CASE saved' = FALSE /\ file' = no_file
    <3>1. file' = [exists |-> FALSE, header |-> FALSE,
                   records |-> [k \in 1 .. 0 |-> to_record(events[k])]]
      BY <1>2, <2>2 DEF no_file
    <3>2. 0 \in 0 .. Len(events)
      BY <1>1
    <3> QED BY <2>2, <3>1, <3>2, Zenon
  <2>3. CASE saved' = FALSE /\ file' = [no_file EXCEPT !.exists = TRUE]
    <3>1. file' = [exists |-> TRUE, header |-> FALSE,
                   records |-> [k \in 1 .. 0 |-> to_record(events[k])]]
      BY <1>2, <2>3 DEF no_file
    <3>2. 0 \in 0 .. Len(events)
      BY <1>1
    <3> QED BY <2>3, <3>1, <3>2, Zenon
  <2>4. CASE /\ saved' = FALSE
             /\ \E n \in 0 .. Len(events) :
                  file' = [exists |-> TRUE, header |-> TRUE,
                           records |-> [k \in 1 .. n |-> to_record(events[k])]]
    BY <2>4
  <2> QED BY <2>1, <2>2, <2>3, <2>4 DEF write_trace
<1> QED BY <1>3, <1>4

\* What write_trace leaves is a prefix of the recorded events, the whole of them
\* when it answers true.
LEMMA WrittenFile ==
  ASSUME QueueOK, write_trace
  PROVE  /\ file' \in [exists : BOOLEAN, header : BOOLEAN, records : Seq(Record)]
         /\ recorded' \in Seq(Event)
         /\ Len(file'.records) <= Len(recorded')
         /\ \A k \in 1 .. Len(file'.records) : of_record(file'.records[k]) = recorded'[k]
         /\ saved' => Len(file'.records) = Len(recorded')
<1>1. recorded' = events /\ events \in Seq(Event) /\ Len(events) \in Nat
      /\ Len(events) = Len(order)
      /\ \A k \in 1 .. Len(events) : events[k] \in Event
  BY Written, EventsTyped
<1>2. PICK n \in 0 .. Len(events), x \in BOOLEAN, h \in BOOLEAN :
        /\ file' = [exists |-> x, header |-> h,
                    records |-> [k \in 1 .. n |-> to_record(events[k])]]
        /\ saved' => n = Len(events)
  BY Written
<1> DEFINE recs == [k \in 1 .. n |-> to_record(events[k])]
<1>3. \A k \in 1 .. n : to_record(events[k]) \in Record /\ of_record(to_record(events[k])) = events[k]
  BY <1>1, RecordTyped
<1>4. recs \in Seq(Record) /\ Len(recs) = n
  BY <1>1, <1>3
<1>5. file'.records = recs /\ file'.exists = x /\ file'.header = h
  BY <1>2
<1>6. \A k \in 1 .. n : recs[k] = to_record(events[k])
  OBVIOUS
<1> HIDE DEF recs
<1>7. file' = [exists |-> x, header |-> h, records |-> recs]
  BY <1>2 DEF recs
<1> QED BY <1>1, <1>2, <1>3, <1>4, <1>5, <1>6, <1>7

\* The program starts with an empty, sound queue.
LEMMA QueueInvInit == Init => QueueInv
<1> SUFFICES ASSUME Init PROVE QueueInv
  OBVIOUS
<1>1. QueueOK
  BY EmptyQueueOK DEF Init
<1>2. OtherTypes
  <2>1. <<>> \in Seq(Record) /\ <<>> \in Seq(Event)
    OBVIOUS
  <2>2. file \in [exists : BOOLEAN, header : BOOLEAN, records : Seq(Record)]
    BY <2>1 DEF Init, no_file
  <2> QED BY <2>1, <2>2 DEF Init, OtherTypes
<1> QED BY <1>1, <1>2 DEF QueueInv

\* read_open starts with an empty queue.
LEMMA OpenEmpties ==
  ASSUME read_open
  PROVE  QueueOK'
<1>1. empty_queue'
  BY DEF read_open, empty_queue
<1>2. /\ order' = <<>> /\ Len(order') = 0
      /\ node' = <<>> /\ blocks' = 0 /\ offset' = 0 /\ first' = NULL /\ last' = NULL
  BY DEF read_open
<1>3. 1 .. Len(order') = {} /\ DOMAIN node' = {}
  BY <1>2
<1>4. QueueTypes'
  BY <1>2, <1>3, PoolAssumption DEF QueueTypes
<1>5. Placed' /\ NodesDisjoint'
  BY <1>3 DEF Placed, NodesDisjoint
<1>6. ListInPushOrder'
  BY <1>2, <1>3 DEF ListInPushOrder
<1> QED BY <1>4, <1>5, <1>6 DEF QueueOK

\* Every step of a thread, of write_trace and of read_trace keeps the queue sound.
LEMMA QueueInvNext == QueueInv /\ [Next]_vars => QueueInv'
<1> SUFFICES ASSUME QueueInv, [Next]_vars PROVE QueueInv'
  OBVIOUS
<1> USE DEF QueueInv
<1>1. ASSUME NEW t \in Threads, event_begin_step(t) PROVE QueueInv'
  <2>1. QueueOK'
    BY <1>1, SameQueue DEF event_begin_step
  <2>2. OtherTypes'
    BY <1>1 DEF event_begin_step, OtherTypes, disk
  <2> QED BY <2>1, <2>2
<1>2. ASSUME NEW t \in Threads, enter(t) PROVE QueueInv'
  <2>1. QueueOK'
    BY <1>2, SameQueue DEF enter
  <2>2. OtherTypes'
    BY <1>2 DEF enter, OtherTypes, disk
  <2> QED BY <2>1, <2>2
<1>3. ASSUME NEW t \in Threads, event_callback(t) PROVE QueueInv'
  <2>1. OtherTypes'
    BY <1>3 DEF event_callback, OtherTypes, disk, threads
  <2>2. CASE alloc_fails
    BY <1>3, <2>1, <2>2, SameQueue DEF event_callback
  <2>3. CASE ~alloc_fails
    <3>1. PICK data \in Bytes \cup {NoData} : push([seq |-> current_seq[t], data |-> data])
      BY <1>3, <2>3 DEF event_callback
    <3>2. [seq |-> current_seq[t], data |-> data] \in Event
      BY DEF Event, OtherTypes
    <3> QED BY <2>1, <2>3, <3>1, <3>2, PushKeepsQueue
  <2> QED BY <2>2, <2>3
<1>4. ASSUME NEW t \in Threads, leave(t) PROVE QueueInv'
  <2>1. QueueOK'
    BY <1>4, SameQueue DEF leave
  <2>2. OtherTypes'
    BY <1>4 DEF leave, OtherTypes, disk
  <2> QED BY <2>1, <2>2
<1>5. CASE write_trace
  <2>1. QueueOK'
    BY <1>5, SameQueue DEF write_trace
  <2>2. saved' \in BOOLEAN
    BY <1>5, Written
  <2>3. OtherTypes'
    BY <1>5, <2>2, WrittenFile DEF write_trace, OtherTypes, threads
  <2> QED BY <2>1, <2>3
<1>6. CASE read_open
  <2>1. OtherTypes'
    BY <1>6 DEF read_open, OtherTypes, threads, disk
  <2> QED BY <1>6, <2>1, OpenEmpties
<1>7. CASE read_record
  <2>1. OtherTypes'
    BY <1>7 DEF read_record, OtherTypes, threads, disk
  <2>2. CASE alloc_fails
    BY <1>7, <2>1, <2>2, SameQueue DEF read_record
  <2>3. CASE ~alloc_fails
    <3>1. Len(order) \in Nat /\ Len(order) < Len(file.records) /\ file.records \in Seq(Record)
      BY <1>7, EventsTyped DEF read_record, OtherTypes
    <3>2. file.records[Len(order) + 1] \in Record
      BY <3>1
    <3>3. push(of_record(file.records[Len(order) + 1]))
      BY <1>7, <2>3 DEF read_record
    <3> QED BY <2>1, <2>3, <3>2, <3>3, OfRecordTyped, PushKeepsQueue
  <2> QED BY <2>2, <2>3
<1>8. CASE read_error
  <2>1. OtherTypes'
    BY <1>8 DEF read_error, OtherTypes, threads, disk
  <2> QED BY <1>8, <2>1, SameQueue DEF read_error
<1>9. CASE read_end
  <2>1. QueueOK'
    BY <1>9, SameQueue DEF read_end
  <2>2. next_seq' \in Nat
    <3>1. CASE last = NULL
      BY <1>9, <3>1 DEF read_end
    <3>2. CASE last # NULL
      <4>1. Len(order) \in Nat /\ Len(order) # 0 /\ last = order[Len(order)]
        BY <3>2, EventsTyped DEF QueueOK, ListInPushOrder
      <4>2. node[last].event \in Event
        BY <4>1, EventsTyped
      <4> QED BY <1>9, <3>2, <4>2 DEF read_end, Event
    <3> QED BY <3>1, <3>2
  <2>3. OtherTypes'
    BY <1>9, <2>2 DEF read_end, OtherTypes, threads, disk
  <2> QED BY <2>1, <2>3
<1>10. CASE UNCHANGED vars
  <2>1. OtherTypes'
    BY <1>10 DEF vars, OtherTypes, threads, disk
  <2> QED BY <1>10, <2>1, SameQueue DEF vars
<1> QED BY <1>1, <1>2, <1>3, <1>4, <1>5, <1>6, <1>7, <1>8, <1>9, <1>10 DEF Next

\* The inductive invariant of pool and list: in every state the nodes lie in
\* places of their own inside the blocks and are linked in the order in which
\* EventQueue::push was called, for any sizes and any number of threads.
THEOREM QueueAlwaysSound == Spec => []QueueInv
  BY QueueInvInit, QueueInvNext, PTL DEF Spec

\* The variables of the recorder and the reader keep their types, for any
\* number of threads and any sizes.
THEOREM TypeCorrect == Spec => []TypeOK
<1>1. QueueInv => TypeOK
  BY DEF QueueInv, QueueOK, QueueTypes, OtherTypes, TypeOK, Record
<1> QED BY <1>1, QueueAlwaysSound, PTL

\* The places EventPool::alloc hands out never overlap, are aligned and stay
\* inside their block, for every event size, alignment and block size.
THEOREM PoolPlacesDisjoint == Spec => []NodesDisjoint
<1>1. QueueInv => NodesDisjoint
  BY DEF QueueInv, QueueOK
<1> QED BY <1>1, QueueAlwaysSound, PTL

\* The links of EventQueue::push are those of the list in push order.
THEOREM LinksInPushOrder == Spec => []ListInPushOrder
<1>1. QueueInv => ListInPushOrder
  BY DEF QueueInv, QueueOK
<1> QED BY <1>1, QueueAlwaysSound, PTL

(***************************************************************************)
(* The events and the steps.                                               *)
(***************************************************************************)
\* push appends its event.
LEMMA EventsAfterPush ==
  ASSUME QueueOK, ~alloc_fails, NEW e \in Event, push(e)
  PROVE  /\ Len(order') = Len(order) + 1
         /\ \A k \in 1 .. Len(order) : events'[k] = events[k]
         /\ events'[Len(order) + 1] = e
<1> DEFINE n == Len(order)
<1>1. n \in Nat /\ QueueTypes /\ Placed
  BY EventsTyped DEF QueueOK
<1>2. /\ Len(order') = n + 1
      /\ order'[n + 1] = alloc
      /\ \A k \in 1 .. n : order'[k] = order[k]
      /\ node'[alloc].event = e
      /\ \A k \in 1 .. n : node'[order[k]].event = node[order[k]].event
  <2>1. /\ Len(order') = n + 1
        /\ order'[n + 1] = alloc
        /\ \A k \in 1 .. n : order'[k] = order[k]
        /\ node'[alloc] = [event |-> e, prev |-> last, next |-> NULL]
        /\ \A k \in 1 .. n : node'[order[k]].event = node[order[k]].event
    BY <1>1, PushEffect
  <2> QED BY <2>1
<1>3. events' = [k \in 1 .. n + 1 |-> node'[order'[k]].event]
  BY <1>2 DEF events
<1>4. \A k \in 1 .. n : events'[k] = node[order[k]].event
  <2> SUFFICES ASSUME NEW k \in 1 .. n PROVE events'[k] = node[order[k]].event
    OBVIOUS
  <2>1. k \in 1 .. n + 1
    BY <1>1
  <2>2. events'[k] = node'[order'[k]].event
    BY <1>3, <2>1
  <2> QED BY <1>2, <2>2
<1>5. events'[n + 1] = e
  <2>1. n + 1 \in 1 .. n + 1
    BY <1>1
  <2>2. events'[n + 1] = node'[order'[n + 1]].event
    BY <1>3, <2>1
  <2> QED BY <1>2, <2>2
<1> QED BY <1>2, <1>4, <1>5 DEF events

\* A step that does not touch the queue leaves the same events in it.
LEMMA SameEvents ==
  ASSUME UNCHANGED queue
  PROVE  events' = events /\ order' = order
  BY DEF queue, events

\* The step numbers in use while the threads record.
NumbersBelow ==
  /\ \A k \in 1 .. Len(order) : events[k].seq < next_seq
  /\ \A t \in Threads : pc[t] # "idle" => current_seq[t] < next_seq

NumbersDistinct ==
  \A t, u \in Threads :
    t # u /\ pc[t] # "idle" /\ pc[u] # "idle" => current_seq[t] # current_seq[u]

\* A thread that waits for bus_lock has pushed nothing yet.
ReadyIsFresh ==
  \A t \in Threads : pc[t] = "ready" =>
    \A k \in 1 .. Len(order) : events[k].seq # current_seq[t]

\* The thread inside is alone, and its events are the last ones.
InsideIsLast ==
  \A t \in Threads : pc[t] = "inside" =>
    /\ bus_lock = t
    /\ \A i, j \in 1 .. Len(order) :
         i < j /\ events[i].seq = current_seq[t] => events[j].seq = current_seq[t]

Recording == NumbersBelow /\ NumbersDistinct /\ ReadyIsFresh /\ InsideIsLast

\* A sequence of events in which every step is one run.
Contiguous(s) ==
  \A i, j, k \in 1 .. Len(s) :
    i < j /\ j < k /\ s[i].seq = s[k].seq => s[j].seq = s[i].seq

\* The file holds the first events of the recording.
FileOK ==
  /\ Len(file.records) <= Len(recorded)
  /\ \A k \in 1 .. Len(file.records) : of_record(file.records[k]) = recorded[k]
  /\ saved => Len(file.records) = Len(recorded)

\* The queue of the reader holds the first records of the file.
Reading ==
  /\ Len(order) <= Len(file.records)
  /\ \A k \in 1 .. Len(order) : events[k] = of_record(file.records[k])
  /\ phase = "loaded" => Len(order) = Len(file.records)

TraceInv ==
  /\ phase = "recording" => Recording
  /\ phase \in {"reading", "loaded"} => Reading
  /\ StepsContiguous
  /\ Contiguous(recorded)
  /\ FileOK

\* Nothing is recorded, saved or read at the start.
LEMMA TraceInvInit == Init => TraceInv
<1> SUFFICES ASSUME Init PROVE TraceInv
  OBVIOUS
<1>1. order = <<>> /\ Len(order) = 0 /\ 1 .. Len(order) = {}
  BY DEF Init, empty_queue
<1>2. recorded = <<>> /\ Len(recorded) = 0 /\ 1 .. Len(recorded) = {}
  BY DEF Init
<1>3. file.records = <<>> /\ Len(file.records) = 0 /\ 1 .. Len(file.records) = {}
  BY DEF Init, no_file
<1>4. phase = "recording" /\ \A t \in Threads : pc[t] = "idle"
  BY DEF Init
<1>5. Recording
  BY <1>1, <1>4 DEF Recording, NumbersBelow, NumbersDistinct, ReadyIsFresh, InsideIsLast
<1>6. StepsContiguous /\ Contiguous(recorded)
  BY <1>1, <1>2 DEF StepsContiguous, Contiguous
<1>7. FileOK
  BY <1>2, <1>3 DEF FileOK
<1> QED BY <1>4, <1>5, <1>6, <1>7 DEF TraceInv

\* Actions that leave the queue alone leave its steps alone.
LEMMA SameSteps ==
  ASSUME StepsContiguous, UNCHANGED queue
  PROVE  StepsContiguous'
  BY SameEvents DEF StepsContiguous

\* A step that does not touch the file leaves it sound.
LEMMA SameDisk ==
  ASSUME Contiguous(recorded), FileOK, UNCHANGED disk
  PROVE  Contiguous(recorded') /\ FileOK'
  BY DEF disk, Contiguous, FileOK

\* A thread that takes a step number takes one nobody has used.
LEMMA BeginStep ==
  ASSUME QueueInv, Recording, NEW t \in Threads, event_begin_step(t)
  PROVE  Recording'
<1>1. events' = events /\ order' = order
  BY SameEvents DEF event_begin_step
<1>2. /\ next_seq \in Nat /\ next_seq' = next_seq + 1
      /\ pc' = [pc EXCEPT ![t] = "ready"] /\ pc[t] = "idle"
      /\ current_seq' = [current_seq EXCEPT ![t] = next_seq]
      /\ bus_lock' = bus_lock
      /\ pc \in [Threads -> {"idle", "ready", "inside"}]
      /\ current_seq \in [Threads -> Nat]
  BY DEF event_begin_step, QueueInv, OtherTypes
<1>3. \A k \in 1 .. Len(order) : events[k].seq \in Nat /\ events[k].seq < next_seq
  BY EventsTyped DEF QueueInv, Event, Recording, NumbersBelow
<1>4. \A u \in Threads : /\ u # t => pc'[u] = pc[u] /\ current_seq'[u] = current_seq[u]
                         /\ current_seq[u] \in Nat
                         /\ pc[u] # "idle" => current_seq[u] < next_seq
  BY <1>2 DEF Recording, NumbersBelow
<1>5. pc'[t] = "ready" /\ current_seq'[t] = next_seq
  BY <1>2
<1>6. NumbersBelow'
  BY <1>1, <1>2, <1>3, <1>4, <1>5 DEF NumbersBelow
<1>7. NumbersDistinct'
  <2> SUFFICES ASSUME NEW u \in Threads, NEW v \in Threads, u # v,
                      pc'[u] # "idle", pc'[v] # "idle"
               PROVE  current_seq'[u] # current_seq'[v]
    BY DEF NumbersDistinct
  <2>1. CASE u # t /\ v # t
    BY <1>4, <2>1 DEF Recording, NumbersDistinct
  <2>2. CASE u = t
    BY <1>2, <1>4, <1>5, <2>2
  <2>3. CASE v = t
    BY <1>2, <1>4, <1>5, <2>3
  <2> QED BY <2>1, <2>2, <2>3
<1>8. ReadyIsFresh'
  <2> SUFFICES ASSUME NEW u \in Threads, pc'[u] = "ready", NEW k \in 1 .. Len(order)
               PROVE  events[k].seq # current_seq'[u]
    BY <1>1 DEF ReadyIsFresh
  <2>1. CASE u = t
    BY <1>2, <1>3, <1>5, <2>1
  <2>2. CASE u # t
    BY <1>4, <2>2 DEF Recording, ReadyIsFresh
  <2> QED BY <2>1, <2>2
<1>9. InsideIsLast'
  <2> SUFFICES ASSUME NEW u \in Threads, pc'[u] = "inside"
               PROVE  /\ bus_lock' = u
                      /\ \A i, j \in 1 .. Len(order) :
                           i < j /\ events[i].seq = current_seq'[u]
                             => events[j].seq = current_seq'[u]
    BY <1>1 DEF InsideIsLast
  <2>1. u # t
    BY <1>5
  <2> QED BY <1>2, <1>4, <2>1 DEF Recording, InsideIsLast
<1> QED BY <1>6, <1>7, <1>8, <1>9 DEF Recording

\* A thread that gets bus_lock is the only one whose step may continue.
LEMMA EnterStep ==
  ASSUME QueueInv, Recording, NEW t \in Threads, enter(t)
  PROVE  Recording'
<1>1. events' = events /\ order' = order
  BY SameEvents DEF enter
<1>2. /\ next_seq' = next_seq /\ current_seq' = current_seq
      /\ pc' = [pc EXCEPT ![t] = "inside"] /\ pc[t] = "ready"
      /\ bus_lock = NoThread /\ bus_lock' = t
      /\ pc \in [Threads -> {"idle", "ready", "inside"}]
  BY DEF enter, QueueInv, OtherTypes
<1>3. \A u \in Threads : (u # t => pc'[u] = pc[u]) /\ (pc'[u] # "idle" => pc[u] # "idle")
                         /\ (pc'[u] = "ready" => pc[u] = "ready")
  BY <1>2
<1>4. \A u \in Threads : pc[u] # "inside"
  BY <1>2, ThreadsAssumption DEF Recording, InsideIsLast
<1>5. NumbersBelow' /\ NumbersDistinct' /\ ReadyIsFresh'
  BY <1>1, <1>2, <1>3 DEF Recording, NumbersBelow, NumbersDistinct, ReadyIsFresh
<1>6. InsideIsLast'
  <2> SUFFICES ASSUME NEW u \in Threads, pc'[u] = "inside"
               PROVE  /\ bus_lock' = u
                      /\ \A i, j \in 1 .. Len(order) :
                           i < j /\ events[i].seq = current_seq[u]
                             => events[j].seq = current_seq[u]
    BY <1>1, <1>2 DEF InsideIsLast
  <2>1. u = t
    BY <1>3, <1>4
  <2>2. \A k \in 1 .. Len(order) : events[k].seq # current_seq[u]
    BY <1>2, <2>1 DEF Recording, ReadyIsFresh
  <2> QED BY <1>2, <2>1, <2>2
<1> QED BY <1>5, <1>6 DEF Recording

\* A thread that releases bus_lock has finished its step.
LEMMA LeaveStep ==
  ASSUME QueueInv, Recording, NEW t \in Threads, leave(t)
  PROVE  Recording'
<1>1. events' = events /\ order' = order
  BY SameEvents DEF leave
<1>2. /\ next_seq' = next_seq /\ current_seq' = current_seq
      /\ pc' = [pc EXCEPT ![t] = "idle"] /\ pc[t] = "inside"
      /\ pc \in [Threads -> {"idle", "ready", "inside"}]
  BY DEF leave, QueueInv, OtherTypes
<1>3. \A u \in Threads : (u # t => pc'[u] = pc[u]) /\ (u = t => pc'[u] = "idle")
  BY <1>2
<1>4. NumbersBelow' /\ NumbersDistinct' /\ ReadyIsFresh'
  BY <1>1, <1>2, <1>3 DEF Recording, NumbersBelow, NumbersDistinct, ReadyIsFresh
<1>5. \A u \in Threads : pc'[u] # "inside"
  <2> SUFFICES ASSUME NEW u \in Threads, pc'[u] = "inside" PROVE FALSE
    OBVIOUS
  <2>1. u # t /\ pc[u] = "inside"
    BY <1>3
  <2>2. bus_lock = u /\ bus_lock = t
    BY <1>2, <2>1 DEF Recording, InsideIsLast
  <2> QED BY <2>1, <2>2
<1>6. InsideIsLast'
  BY <1>5 DEF InsideIsLast
<1> QED BY <1>4, <1>6 DEF Recording
\* The thread inside appends an event of its step.
LEMMA CallbackStep ==
  ASSUME QueueInv, Recording, StepsContiguous, NEW t \in Threads, event_callback(t),
         ~alloc_fails
  PROVE  Recording' /\ StepsContiguous'
<1> DEFINE n == Len(order)
           x == current_seq[t]
<1>1. PICK data \in Bytes \cup {NoData} : push([seq |-> x, data |-> data])
  BY DEF event_callback
<1>2. x \in Nat /\ [seq |-> x, data |-> data] \in Event
  BY DEF Event, QueueInv, OtherTypes
<1>3. /\ Len(order') = n + 1
      /\ \A k \in 1 .. n : events'[k] = events[k]
      /\ events'[n + 1] = [seq |-> x, data |-> data]
  BY <1>1, <1>2, EventsAfterPush DEF QueueInv
<1>4. n \in Nat /\ \A k \in 1 .. n : events[k].seq \in Nat
  BY EventsTyped DEF QueueInv, Event
<1>5. \A k \in 1 .. n + 1 : /\ k = n + 1 \/ k \in 1 .. n
                            /\ k = n + 1 => events'[k].seq = x
                            /\ k # n + 1 => events'[k] = events[k]
  BY <1>3, <1>4
<1>6. pc' = pc /\ current_seq' = current_seq /\ bus_lock' = bus_lock /\ next_seq' = next_seq
      /\ pc[t] = "inside"
  BY DEF event_callback, threads
<1>7. x < next_seq
  BY <1>6 DEF Recording, NumbersBelow
<1>8. NumbersBelow'
  BY <1>3, <1>5, <1>6, <1>7 DEF Recording, NumbersBelow
<1>9. NumbersDistinct'
  BY <1>6 DEF Recording, NumbersDistinct
<1>10. ReadyIsFresh'
  <2> SUFFICES ASSUME NEW u \in Threads, pc[u] = "ready", NEW k \in 1 .. n + 1
               PROVE  events'[k].seq # current_seq[u]
    BY <1>3, <1>6 DEF ReadyIsFresh
  <2>1. current_seq[u] # x
    BY <1>6 DEF Recording, NumbersDistinct
  <2> QED BY <1>5, <2>1 DEF Recording, ReadyIsFresh
<1>11. \A i, j \in 1 .. n : i < j /\ events[i].seq = x => events[j].seq = x
  BY <1>6 DEF Recording, InsideIsLast
<1>12. InsideIsLast'
  <2> SUFFICES ASSUME NEW u \in Threads, pc[u] = "inside"
               PROVE  /\ bus_lock = u
                      /\ \A i, j \in 1 .. n + 1 :
                           i < j /\ events'[i].seq = current_seq[u]
                             => events'[j].seq = current_seq[u]
    BY <1>3, <1>6 DEF InsideIsLast
  <2>1. bus_lock = u /\ bus_lock = t
    BY <1>6 DEF Recording, InsideIsLast
  <2> SUFFICES ASSUME NEW i \in 1 .. n + 1, NEW j \in 1 .. n + 1, i < j,
                      events'[i].seq = x
               PROVE  events'[j].seq = x
    BY <2>1
  <2>2. i \in 1 .. n /\ events'[i] = events[i]
    BY <1>4, <1>5
  <2> QED BY <1>5, <1>11, <2>2
<1>13. StepsContiguous'
  <2> SUFFICES ASSUME NEW i \in 1 .. n + 1, NEW j \in 1 .. n + 1, NEW k \in 1 .. n + 1,
                      i < j, j < k, events'[i].seq = events'[k].seq
               PROVE  events'[j].seq = events'[i].seq
    BY <1>3 DEF StepsContiguous
  <2>1. /\ i \in 1 .. n /\ j \in 1 .. n
        /\ events'[i] = events[i] /\ events'[j] = events[j]
    BY <1>4, <1>5
  <2>2. CASE k = n + 1
    BY <1>5, <1>11, <2>1, <2>2
  <2>3. CASE k \in 1 .. n
    <3>1. events'[k] = events[k]
      BY <1>3, <2>3
    <3> QED BY <2>1, <2>3, <3>1 DEF StepsContiguous
  <2> QED BY <1>5, <2>2, <2>3
<1> QED BY <1>8, <1>9, <1>10, <1>12, <1>13 DEF Recording

\* One record more is read.
LEMMA RecordStep ==
  ASSUME QueueInv, Reading, Contiguous(recorded), FileOK, read_record, ~alloc_fails
  PROVE  Reading' /\ StepsContiguous'
<1> DEFINE n == Len(order)
           e == of_record(file.records[n + 1])
<1>1. n \in Nat /\ n < Len(file.records) /\ file.records \in Seq(Record)
      /\ Len(file.records) \in Nat
      /\ recorded \in Seq(Event) /\ Len(recorded) \in Nat
  BY EventsTyped DEF read_record, QueueInv, OtherTypes
<1>2. file.records[n + 1] \in Record /\ push(e)
  BY <1>1 DEF read_record
<1>3. /\ Len(order') = n + 1
      /\ \A k \in 1 .. n : events'[k] = events[k]
      /\ events'[n + 1] = e
  <2>1. e \in Event
    BY <1>2, OfRecordTyped
  <2> HIDE DEF e
  <2> QED BY <1>2, <2>1, EventsAfterPush DEF QueueInv
<1>4. file' = file /\ phase' = phase /\ phase = "reading"
  BY DEF read_record, disk
<1>5. \A k \in 1 .. n + 1 : events'[k] = of_record(file.records[k])
  BY <1>1, <1>3 DEF Reading
<1>6. Reading'
  BY <1>1, <1>3, <1>4, <1>5 DEF Reading
<1>7. \A k \in 1 .. n + 1 : k \in 1 .. Len(recorded) /\ events'[k] = recorded[k]
  BY <1>1, <1>5 DEF FileOK
<1>8. StepsContiguous'
  BY <1>3, <1>7 DEF StepsContiguous, Contiguous
<1> QED BY <1>6, <1>8

\* Every step keeps the steps in one piece and the file a prefix of the recording.
LEMMA TraceInvNext == QueueInv /\ TraceInv /\ [Next]_vars => TraceInv'
<1> SUFFICES ASSUME QueueInv, TraceInv, [Next]_vars PROVE TraceInv'
  OBVIOUS
<1>a. ASSUME UNCHANGED queue PROVE StepsContiguous'
  BY <1>a, SameSteps DEF TraceInv
<1>b. ASSUME UNCHANGED disk PROVE Contiguous(recorded') /\ FileOK'
  BY <1>b, SameDisk DEF TraceInv
<1>1. ASSUME NEW t \in Threads, event_begin_step(t) \/ enter(t) \/ leave(t) PROVE TraceInv'
  <2>1. phase = "recording" /\ phase' = phase /\ UNCHANGED <<queue, disk>>
    BY <1>1 DEF event_begin_step, enter, leave
  <2>2. Recording'
    BY <1>1, <2>1, BeginStep, EnterStep, LeaveStep DEF TraceInv
  <2> QED BY <1>a, <1>b, <2>1, <2>2 DEF TraceInv
<1>2. ASSUME NEW t \in Threads, event_callback(t) PROVE TraceInv'
  <2>1. phase = "recording" /\ UNCHANGED disk
    BY <1>2 DEF event_callback
  <2>2. CASE alloc_fails
    <3>1. phase' = "aborted" /\ UNCHANGED queue
      BY <1>2, <2>2 DEF event_callback
    <3> QED BY <1>a, <1>b, <2>1, <3>1 DEF TraceInv
  <2>3. CASE ~alloc_fails
    <3>1. phase' = "recording"
      BY <1>2, <2>1, <2>3 DEF event_callback
    <3>2. Recording' /\ StepsContiguous'
      BY <1>2, <2>1, <2>3, CallbackStep DEF TraceInv
    <3> QED BY <1>b, <2>1, <3>1, <3>2 DEF TraceInv
  <2> QED BY <2>2, <2>3
<1>3. CASE write_trace
  <2>1. phase' = "written" /\ UNCHANGED queue
    BY <1>3 DEF write_trace
  <2>2. FileOK'
    BY <1>3, WrittenFile DEF FileOK, QueueInv
  <2>3. recorded' = events /\ Len(events) = Len(order)
    BY <1>3, Written, EventsTyped DEF QueueInv
  <2>4. Contiguous(recorded')
    BY <2>3 DEF TraceInv, StepsContiguous, Contiguous
  <2> QED BY <1>a, <2>1, <2>2, <2>4 DEF TraceInv
<1>4. CASE read_open
  <2>1. UNCHANGED disk /\ phase' \in {"reading", "unreadable"} /\ order' = <<>>
    BY <1>4 DEF read_open
  <2>2. Len(order') = 0 /\ 1 .. Len(order') = {}
    BY <2>1
  <2>3. file' = file /\ Len(file.records) \in Nat
    BY <2>1 DEF disk, QueueInv, OtherTypes
  <2>4. phase' # "loaded" /\ phase' # "recording"
    BY <2>1
  <2>5. Reading'
    BY <2>2, <2>3, <2>4 DEF Reading
  <2>6. StepsContiguous'
    BY <2>2 DEF StepsContiguous
  <2> QED BY <1>b, <2>1, <2>4, <2>5, <2>6 DEF TraceInv
<1>5. CASE read_record
  <2>1. phase = "reading" /\ UNCHANGED disk
    BY <1>5 DEF read_record
  <2>2. CASE alloc_fails
    <3>1. phase' = "aborted" /\ UNCHANGED queue
      BY <1>5, <2>2 DEF read_record
    <3> QED BY <1>a, <1>b, <2>1, <3>1 DEF TraceInv
  <2>3. CASE ~alloc_fails
    <3>1. phase' = "reading"
      BY <1>5, <2>1, <2>3 DEF read_record
    <3>2. Reading' /\ StepsContiguous'
      BY <1>5, <2>1, <2>3, RecordStep DEF TraceInv
    <3> QED BY <1>b, <2>1, <3>1, <3>2 DEF TraceInv
  <2> QED BY <2>2, <2>3
<1>6. CASE read_error
  <2>1. phase' = "unreadable" /\ UNCHANGED <<queue, disk>>
    BY <1>6 DEF read_error
  <2> QED BY <1>a, <1>b, <2>1 DEF TraceInv
<1>7. CASE read_end
  <2>1. /\ phase = "reading" /\ phase' = "loaded" /\ UNCHANGED <<queue, disk>>
        /\ Len(order) = Len(file.records)
    BY <1>7 DEF read_end
  <2>2. events' = events /\ order' = order /\ file' = file
    BY <2>1, SameEvents DEF disk
  <2>3. Reading'
    BY <2>1, <2>2 DEF TraceInv, Reading
  <2> QED BY <1>a, <1>b, <2>1, <2>3 DEF TraceInv
<1>8. CASE UNCHANGED vars
  <2>1. UNCHANGED <<queue, disk, threads, next_seq, phase>>
    BY <1>8 DEF vars
  <2>2. events' = events /\ order' = order /\ file' = file
    BY <2>1, SameEvents DEF disk
  <2>3. Recording <=> Recording'
    BY <2>1, <2>2 DEF threads, Recording, NumbersBelow, NumbersDistinct, ReadyIsFresh,
                      InsideIsLast
  <2>4. Reading <=> Reading'
    BY <2>1, <2>2 DEF Reading
  <2> QED BY <1>a, <1>b, <2>1, <2>3, <2>4 DEF TraceInv
<1> QED BY <1>1, <1>2, <1>3, <1>4, <1>5, <1>6, <1>7, <1>8 DEF Next

\* The inductive invariant of recording and reading: numbers in use are below
\* next_seq and belong to one thread each, only the holder of bus_lock adds to
\* its step, the file holds a prefix of what was recorded and the queue that
\* read_trace builds a prefix of the file.
THEOREM TraceAlwaysSound == Spec => []TraceInv
  BY QueueAlwaysSound, TraceInvInit, TraceInvNext, PTL DEF Spec

\* Every step is one run of neighbouring events, for any number of threads that
\* take their numbers outside bus_lock.
THEOREM StepsAreContiguous == Spec => []StepsContiguous
<1>1. TraceInv => StepsContiguous
  BY DEF TraceInv
<1> QED BY <1>1, TraceAlwaysSound, PTL

\* What read_trace loads is a prefix of what was recorded, and all of it when
\* write_trace returned true, wherever a write or a read failed.
THEOREM LoadedTraceIsRecorded == Spec => []LoadedIsRecorded
<1>1. QueueInv /\ TraceInv => LoadedIsRecorded
  <2> SUFFICES ASSUME QueueInv, TraceInv, phase = "loaded"
               PROVE  /\ Len(order) <= Len(recorded)
                      /\ events = SubSeq(recorded, 1, Len(order))
                      /\ saved => Len(order) = Len(recorded)
    BY DEF LoadedIsRecorded
  <2>1. Reading /\ FileOK
    BY DEF TraceInv
  <2>2. recorded \in Seq(Event) /\ Len(recorded) \in Nat /\ Len(order) \in Nat
        /\ Len(file.records) \in Nat
    BY EventsTyped DEF QueueInv, OtherTypes
  <2>3. Len(order) = Len(file.records) /\ Len(order) <= Len(recorded)
    BY <2>1 DEF Reading, FileOK
  <2>4. \A k \in 1 .. Len(order) : events[k] = recorded[k]
    BY <2>1, <2>3 DEF Reading, FileOK
  <2>5. events = [k \in 1 .. Len(order) |-> recorded[k]]
    BY <2>4 DEF events
  <2>6. SubSeq(recorded, 1, Len(order)) = [k \in 1 .. Len(order) |-> recorded[k]]
    BY <2>2, <2>3
  <2> QED BY <2>1, <2>3, <2>5, <2>6 DEF FileOK
<1> QED BY <1>1, QueueAlwaysSound, TraceAlwaysSound, PTL
=============================================================================
