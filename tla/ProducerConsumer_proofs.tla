----------------------- MODULE ProducerConsumer_proofs -----------------------
(***************************************************************************)
(* Proofs about ProducerConsumer, for every buffer size and item count.    *)
(* The fairness of Spec plays no part: the theorems are about SafeSpec.    *)
(***************************************************************************)
EXTENDS ProducerConsumer, SequenceTheorems, TLAPS

(***************************************************************************)
(* Indices.                                                                *)
(***************************************************************************)

\* The remainder of a number below twice the modulus.
LEMMA SmallRemainder ==
  ASSUME NEW k \in Nat, k < BUF_SIZE + BUF_SIZE
  PROVE  /\ k < BUF_SIZE => k % BUF_SIZE = k
         /\ k >= BUF_SIZE => k % BUF_SIZE = k - BUF_SIZE
PROOF
  <1>1. BUF_SIZE \in Nat \ {0}
    BY QueueAssumption
  <1>2. CASE k < BUF_SIZE
    BY <1>1, <1>2
  <1>3. CASE k >= BUF_SIZE
    BY <1>1, <1>3
  <1> QED BY <1>1, <1>2, <1>3

\* next_index walks the slots in a circle.
LEMMA NextIndex ==
  ASSUME NEW k \in Slots
  PROVE  /\ next_index(k) = IF k + 1 < BUF_SIZE THEN k + 1 ELSE 0
         /\ next_index(k) \in Slots
PROOF
  <1>1. k + 1 \in Nat /\ k + 1 < BUF_SIZE + BUF_SIZE /\ BUF_SIZE \in Nat \ {0}
    BY QueueAssumption DEF Slots
  <1>2. /\ k + 1 < BUF_SIZE => (k + 1) % BUF_SIZE = k + 1
        /\ k + 1 >= BUF_SIZE => (k + 1) % BUF_SIZE = k + 1 - BUF_SIZE
    BY <1>1, SmallRemainder DEF Slots
  <1> QED BY <1>2, QueueAssumption DEF next_index, Slots

\* The slot k places behind index h.
LEMMA SlotAddress ==
  ASSUME NEW h \in Slots, NEW k \in 0 .. BUF_SIZE
  PROVE  /\ h + k < BUF_SIZE => slot_va(h + k) = <<"slot", h + k>>
         /\ h + k >= BUF_SIZE => slot_va(h + k) = <<"slot", h + k - BUF_SIZE>>
         /\ slot_va(h + k) \in Addresses
PROOF
  <1>1. h + k \in Nat /\ h + k < BUF_SIZE + BUF_SIZE /\ BUF_SIZE \in Nat \ {0}
    BY QueueAssumption DEF Slots
  <1>2. /\ h + k < BUF_SIZE => (h + k) % BUF_SIZE = h + k
        /\ h + k >= BUF_SIZE => (h + k) % BUF_SIZE = h + k - BUF_SIZE
    BY <1>1, SmallRemainder DEF Slots
  <1>3. (h + k) % BUF_SIZE \in Slots
    BY <1>1, <1>2 DEF Slots
  <1> QED BY <1>1, <1>2, <1>3 DEF slot_va, Addresses, Slots

\* The indices are words of their own, no slot aliases them.
LEMMA IndexAddresses ==
  /\ head_va \in Addresses /\ tail_va \in Addresses
  /\ head_va # tail_va
  /\ \A k : slot_va(k) # head_va /\ slot_va(k) # tail_va
PROOF
  <1>1. head_va \in Addresses /\ tail_va \in Addresses
    BY DEF Addresses, head_va, tail_va, HEAD, TAIL
  <1>2. head_va # tail_va
    BY DEF head_va, tail_va, HEAD, TAIL
  <1>3. ASSUME NEW k PROVE slot_va(k) # head_va /\ slot_va(k) # tail_va
    BY DEF slot_va, head_va, tail_va, HEAD, TAIL
  <1> QED BY <1>1, <1>2, <1>3

\* Distances between indices: zero means empty, BUF_SIZE - 1 means full, and
\* moving either index by one changes the distance by one.
LEMMA Distances ==
  ASSUME NEW h \in Slots, NEW t \in Slots
  PROVE  /\ distance(h, t) \in 0 .. BUF_SIZE - 1
         /\ distance(h, t) = 0 <=> h = t
         /\ next_index(t) = h <=> distance(h, t) = BUF_SIZE - 1
         /\ distance(h, t) < BUF_SIZE - 1 =>
              distance(h, next_index(t)) = distance(h, t) + 1
         /\ distance(h, t) > 0 =>
              distance(next_index(h), t) = distance(h, t) - 1
         /\ slot_va(h + distance(h, t)) = slot_va(t)
PROOF
  <1>1. h \in Nat /\ t \in Nat /\ h < BUF_SIZE /\ t < BUF_SIZE /\ BUF_SIZE \in Nat
    BY QueueAssumption DEF Slots
  <1>2. /\ next_index(t) = IF t + 1 < BUF_SIZE THEN t + 1 ELSE 0
        /\ next_index(h) = IF h + 1 < BUF_SIZE THEN h + 1 ELSE 0
    BY NextIndex
  <1>3. distance(h, t) \in 0 .. BUF_SIZE - 1
    BY <1>1 DEF distance
  <1>4. slot_va(h + distance(h, t)) = slot_va(t)
    <2>1. slot_va(t + 0) = <<"slot", t + 0>>
      BY <1>1, SlotAddress
    <2>2. CASE h <= t
      BY <1>1, <2>2 DEF distance
    <2>3. CASE ~(h <= t)
      BY <1>1, <1>3, <2>1, <2>3, SlotAddress DEF distance
    <2> QED BY <2>2, <2>3
  <1> QED BY <1>1, <1>2, <1>3, <1>4 DEF distance

\* Two places of the ring behind one index are different slots.
LEMMA SlotsDiffer ==
  ASSUME NEW h \in Slots, NEW j \in 0 .. BUF_SIZE - 1, NEW k \in 0 .. BUF_SIZE - 1,
         j # k
  PROVE  slot_va(h + j) # slot_va(h + k)
PROOF
  <1>1. h \in Nat /\ h < BUF_SIZE /\ BUF_SIZE \in Nat
    BY QueueAssumption DEF Slots
  <1>2. \A x \in 0 .. BUF_SIZE - 1 :
          slot_va(h + x) = <<"slot", IF h + x < BUF_SIZE THEN h + x
                                     ELSE h + x - BUF_SIZE>>
    BY <1>1, SlotAddress
  <1> QED BY <1>1, <1>2

(***************************************************************************)
(* The inductive invariant.                                                *)
(***************************************************************************)

\* What a thread has read and not yet acted on is still true when it acts:
\* only the producer moves tail, only the consumer moves head, and the other
\* thread can only make the room or the items a thread has seen grow.
LocalsFresh ==
  /\ prod.pc \in {"full", "slot", "publish"} => prod.tail = word[tail_va]
  /\ cons.pc \in {"empty", "slot", "advance"} => cons.head = word[head_va]
  /\ prod.pc \in {"slot", "publish"} => filled < BUF_SIZE - 1
  /\ cons.pc \in {"slot", "advance"} => filled > 0
  /\ prod.pc = "publish" => word[slot_va(word[tail_va])] = prod.i
  /\ prod.pc = "done" \/ prod.i < ITEMS
  /\ cons.pc = "done" \/ cons.i < ITEMS

IInv == TypeOK /\ RingHoldsUnreadItems /\ ReceivedInOrder /\ LocalsFresh

\* The state in the form the steps use.
LEMMA Facts ==
  ASSUME IInv
  PROVE  /\ word \in [Addresses -> Stored]
         /\ word[head_va] \in Slots /\ word[tail_va] \in Slots
         /\ filled \in 0 .. BUF_SIZE - 1
         /\ prod \in Producer /\ cons \in Consumer
         /\ prod.i \in Nat /\ cons.i \in Nat
         /\ prod.tail \in Slots /\ cons.head \in Slots
PROOF
  <1>1. filled \in 0 .. BUF_SIZE - 1
    BY Distances DEF IInv, TypeOK, filled
  <1> QED BY <1>1, QueueAssumption DEF IInv, TypeOK, Producer, Consumer

\* A step that leaves the memory alone leaves the ring alone.
LEMMA SameRing ==
  ASSUME UNCHANGED word
  PROVE  filled' = filled
PROOF BY DEF filled

LEMMA InitIInv == Init => IInv
PROOF
  <1> SUFFICES ASSUME Init PROVE IInv
    OBVIOUS
  <1> USE DEF Init, threads_init
  <1>1. /\ word[head_va] = 0 /\ word[tail_va] = 0 /\ 0 \in Slots /\ 0 \in Stored
        /\ 0 \in 0 .. ITEMS /\ 0 < ITEMS
    BY IndexAddresses, QueueAssumption DEF Slots, Stored
  <1>2. filled = 0
    BY <1>1 DEF filled, distance
  <1>3. TypeOK
    BY <1>1 DEF TypeOK, Producer, Consumer
  <1>4. RingHoldsUnreadItems
    BY <1>2 DEF RingHoldsUnreadItems
  <1>5. ReceivedInOrder
    BY DEF ReceivedInOrder
  <1>6. LocalsFresh
    BY <1>1 DEF LocalsFresh
  <1> QED BY <1>3, <1>4, <1>5, <1>6 DEF IInv

(***************************************************************************)
(* The steps.                                                              *)
(***************************************************************************)

LEMMA ProducerReads ==
  ASSUME IInv, NEW a \in Addresses, producer_reads(a, word[a]), UNCHANGED word
  PROVE  IInv'
PROOF
  <1> USE Facts
  <1>1. filled' = filled /\ UNCHANGED <<cons, received>>
    BY SameRing DEF producer_reads
  <1>2. /\ prod' \in Producer /\ prod'.i = prod.i
        /\ prod'.pc \in {"full", "slot"} => prod'.tail = word[tail_va]
        /\ prod'.pc \in {"full", "slot"}
        /\ prod'.pc = "slot" => filled < BUF_SIZE - 1
        /\ prod.i < ITEMS
    <2>1. CASE prod.pc = "tail" /\ a = tail_va /\ prod' = [prod EXCEPT !.pc = "full", !.tail = word[a]]
      BY <2>1 DEF Producer, IInv, LocalsFresh
    <2>2. CASE prod.pc = "full" /\ a = head_va /\ IF next_index(prod.tail) = word[a] THEN UNCHANGED prod ELSE prod' = [prod EXCEPT !.pc = "slot"]
      <3>1. prod.tail = word[tail_va] /\ prod.i < ITEMS
        BY <2>2 DEF IInv, LocalsFresh
      <3>2. next_index(prod.tail) # word[a] => filled < BUF_SIZE - 1
        BY <2>2, <3>1, Distances, QueueAssumption DEF filled
      <3> QED BY <2>2, <3>1, <3>2 DEF Producer
    <2> QED BY <2>1, <2>2 DEF producer_reads
  <1>3. TypeOK'
    BY <1>1, <1>2 DEF IInv, TypeOK
  <1>4. RingHoldsUnreadItems'
    BY <1>1, <1>2 DEF IInv, RingHoldsUnreadItems
  <1>5. ReceivedInOrder'
    BY <1>1 DEF IInv, ReceivedInOrder
  <1>6. LocalsFresh'
    BY <1>1, <1>2 DEF IInv, LocalsFresh
  <1> QED BY <1>3, <1>4, <1>5, <1>6 DEF IInv

LEMMA ProducerWritesSlot ==
  ASSUME IInv, prod.pc = "slot",
         prod' = [prod EXCEPT !.pc = "publish"], UNCHANGED <<cons, received>>,
         word' = [word EXCEPT ![slot_va(prod.tail)] = prod.i]
  PROVE  IInv'
PROOF
  <1> USE Facts
  <1>1. prod.tail = word[tail_va] /\ filled < BUF_SIZE - 1 /\ prod.i < ITEMS
    BY DEF IInv, LocalsFresh
  <1>2. slot_va(word[tail_va]) = slot_va(word[head_va] + filled)
    BY Distances DEF filled
  <1>3. /\ slot_va(word[tail_va]) \in Addresses
        /\ \A k \in 0 .. filled - 1 : slot_va(word[head_va] + k) # slot_va(word[tail_va])
                                   /\ slot_va(word[head_va] + k) \in Addresses
    <2>1. filled \in 0 .. BUF_SIZE - 1 /\ BUF_SIZE \in Nat
      BY QueueAssumption
    <2>2. ASSUME NEW k \in 0 .. filled - 1
          PROVE  /\ slot_va(word[head_va] + k) # slot_va(word[tail_va])
                 /\ slot_va(word[head_va] + k) \in Addresses
      <3>1. k \in 0 .. BUF_SIZE - 1 /\ k \in 0 .. BUF_SIZE /\ k # filled
        BY <2>1
      <3> QED BY <1>2, <2>1, <3>1, SlotAddress, SlotsDiffer
    <2>3. slot_va(word[head_va] + filled) \in Addresses
      <3>1. filled \in 0 .. BUF_SIZE
        BY <2>1
      <3> QED BY <3>1, SlotAddress
    <2> QED BY <1>2, <2>2, <2>3
  <1>4. /\ word'[head_va] = word[head_va] /\ word'[tail_va] = word[tail_va]
        /\ word'[slot_va(word[tail_va])] = prod.i
        /\ \A k \in 0 .. filled - 1 :
             word'[slot_va(word[head_va] + k)] = word[slot_va(word[head_va] + k)]
    BY <1>1, <1>3, IndexAddresses
  <1>5. filled' = filled
    BY <1>4 DEF filled
  <1>6. prod.i \in Stored
    BY <1>1, QueueAssumption DEF Stored, Producer
  <1>7. TypeOK'
    BY <1>4, <1>6 DEF IInv, TypeOK, Producer
  <1>8. RingHoldsUnreadItems'
    <2>1. prod'.i = prod.i
      BY DEF Producer
    <2> QED BY <1>4, <1>5, <2>1 DEF IInv, RingHoldsUnreadItems
  <1>9. ReceivedInOrder'
    BY DEF IInv, ReceivedInOrder
  <1>10. LocalsFresh'
    BY <1>1, <1>4, <1>5 DEF IInv, LocalsFresh, Producer
  <1> QED BY <1>7, <1>8, <1>9, <1>10 DEF IInv

LEMMA ProducerPublishes ==
  ASSUME IInv, prod.pc = "publish",
         prod' = [prod EXCEPT !.pc = IF prod.i + 1 < ITEMS THEN "tail" ELSE "done",
                              !.i = prod.i + 1],
         UNCHANGED <<cons, received>>,
         word' = [word EXCEPT ![tail_va] = next_index(prod.tail)]
  PROVE  IInv'
PROOF
  <1> USE Facts
  <1>1. /\ prod.tail = word[tail_va] /\ filled < BUF_SIZE - 1 /\ prod.i < ITEMS
        /\ word[slot_va(word[tail_va])] = prod.i
    BY DEF IInv, LocalsFresh
  <1>2. next_index(word[tail_va]) \in Slots /\ next_index(word[tail_va]) \in Stored
    BY NextIndex, QueueAssumption DEF Slots, Stored
  <1>3. /\ word'[head_va] = word[head_va]
        /\ word'[tail_va] = next_index(word[tail_va])
        /\ \A k : slot_va(k) \in Addresses => word'[slot_va(k)] = word[slot_va(k)]
    BY <1>1, IndexAddresses
  <1>4. filled' = filled + 1
    BY <1>1, <1>3, Distances DEF filled
  <1>5. slot_va(word[tail_va]) = slot_va(word[head_va] + filled)
    BY Distances DEF filled
  <1>6. prod'.i = prod.i + 1 /\ prod' \in Producer
    <2>1. prod.i + 1 \in 0 .. ITEMS
      BY <1>1, QueueAssumption DEF Producer
    <2> QED BY <2>1 DEF Producer
  <1>7. TypeOK'
    BY <1>1, <1>2, <1>3, <1>6 DEF IInv, TypeOK
  <1>8. RingHoldsUnreadItems'
    <2>1. filled = prod.i - cons.i
      BY DEF IInv, RingHoldsUnreadItems
    <2>2. ASSUME NEW k \in 0 .. filled
          PROVE  word'[slot_va(word[head_va] + k)] = cons.i + k
      <3>1. slot_va(word[head_va] + k) \in Addresses
        <4>1. k \in 0 .. BUF_SIZE
          BY QueueAssumption
        <4> QED BY <4>1, SlotAddress
      <3>2. CASE k = filled
        BY <1>1, <1>3, <1>5, <2>1, <3>1, <3>2
      <3>3. CASE k # filled
        BY <1>3, <3>1, <3>3 DEF IInv, RingHoldsUnreadItems
      <3> QED BY <3>2, <3>3
    <2> QED BY <1>3, <1>4, <1>6, <2>1, <2>2 DEF RingHoldsUnreadItems
  <1>9. ReceivedInOrder'
    BY DEF IInv, ReceivedInOrder
  <1>10. LocalsFresh'
    <2>1. prod'.pc \in {"tail", "done"} /\ (prod'.pc = "done" \/ prod'.i < ITEMS)
      BY DEF Producer
    <2> QED BY <1>3, <1>4, <2>1 DEF IInv, LocalsFresh
  <1> QED BY <1>7, <1>8, <1>9, <1>10 DEF IInv

LEMMA ConsumerReadsIndex ==
  ASSUME IInv, UNCHANGED <<word, prod, received>>,
         \/ /\ cons.pc = "head"
            /\ cons' = [cons EXCEPT !.pc = "empty", !.head = word[head_va]]
         \/ /\ cons.pc = "empty"
            /\ cons' = [cons EXCEPT !.pc = IF cons.head = word[tail_va]
                                           THEN "head" ELSE "slot"]
  PROVE  IInv'
PROOF
  <1> USE Facts
  <1>1. filled' = filled
    BY SameRing
  <1>2. /\ cons' \in Consumer /\ cons'.i = cons.i /\ cons.i < ITEMS
        /\ cons'.pc \in {"head", "empty", "slot"}
        /\ cons'.pc \in {"empty", "slot"} => cons'.head = word[head_va]
        /\ cons'.pc = "slot" => filled > 0
    <2>1. CASE cons.pc = "head"
      BY <2>1 DEF Consumer, IInv, LocalsFresh
    <2>2. CASE cons.pc = "empty"
      <3>1. cons.head = word[head_va] /\ cons.i < ITEMS
        BY <2>2 DEF IInv, LocalsFresh
      <3>2. cons.head # word[tail_va] => filled > 0
        BY <3>1, Distances DEF filled
      <3> QED BY <2>2, <3>1, <3>2 DEF Consumer
    <2> QED BY <2>1, <2>2
  <1>3. TypeOK'
    BY <1>2 DEF IInv, TypeOK
  <1>4. RingHoldsUnreadItems'
    BY <1>1, <1>2 DEF IInv, RingHoldsUnreadItems
  <1>5. ReceivedInOrder'
    <2>1. cons.pc # "advance" /\ cons'.pc # "advance"
      BY <1>2
    <2> QED BY <1>2, <2>1 DEF IInv, ReceivedInOrder
  <1>6. LocalsFresh'
    BY <1>1, <1>2 DEF IInv, LocalsFresh
  <1> QED BY <1>3, <1>4, <1>5, <1>6 DEF IInv

LEMMA ConsumerReadsSlot ==
  ASSUME IInv, UNCHANGED <<word, prod>>, cons.pc = "slot",
         cons' = [cons EXCEPT !.pc = "advance"],
         received' = Append(received, word[slot_va(cons.head)])
  PROVE  IInv'
PROOF
  <1> USE Facts
  <1>1. filled' = filled /\ cons.head = word[head_va] /\ filled > 0 /\ cons.i < ITEMS
    BY SameRing DEF IInv, LocalsFresh
  <1>2. cons' \in Consumer /\ cons'.i = cons.i /\ cons'.pc = "advance" /\ cons'.head = cons.head
    BY DEF Consumer
  <1>3. word[slot_va(cons.head)] = cons.i
    <2>1. word[slot_va(word[head_va] + 0)] = cons.i + 0
      BY <1>1 DEF IInv, RingHoldsUnreadItems
    <2>2. word[head_va] + 0 = cons.head /\ cons.i + 0 = cons.i
      BY <1>1 DEF Slots
    <2> QED BY <2>1, <2>2
  <1>4. /\ received \in Seq(Stored) /\ Len(received) = cons.i
        /\ received = [k \in 1 .. Len(received) |-> k - 1]
    BY DEF IInv, TypeOK, ReceivedInOrder
  <1>5. cons.i \in Stored
    BY <1>1, QueueAssumption DEF Stored
  <1>6. TypeOK'
    BY <1>2, <1>3, <1>4, <1>5 DEF IInv, TypeOK
  <1>7. RingHoldsUnreadItems'
    BY <1>1, <1>2 DEF IInv, RingHoldsUnreadItems
  <1>8. ReceivedInOrder'
    <2>1. received' = Append(received, cons.i)
      BY <1>3
    <2>2. Len(received') = cons.i + 1
      BY <1>4, <1>5, <2>1
    <2>3. received' = [k \in 1 .. Len(received') |-> k - 1]
      BY <1>4, <1>5, <2>1, <2>2
    <2> QED BY <1>2, <2>2, <2>3 DEF ReceivedInOrder
  <1>9. LocalsFresh'
    BY <1>1, <1>2 DEF IInv, LocalsFresh
  <1> QED BY <1>6, <1>7, <1>8, <1>9 DEF IInv

LEMMA ConsumerAdvances ==
  ASSUME IInv, UNCHANGED <<prod, received>>, cons.pc = "advance",
         cons' = [cons EXCEPT !.pc = IF cons.i + 1 < ITEMS THEN "head" ELSE "done",
                              !.i = cons.i + 1],
         word' = [word EXCEPT ![head_va] = next_index(cons.head)]
  PROVE  IInv'
PROOF
  <1> USE Facts
  <1>1. cons.head = word[head_va] /\ filled > 0 /\ cons.i < ITEMS
    BY DEF IInv, LocalsFresh
  <1>2. /\ next_index(word[head_va]) \in Slots /\ next_index(word[head_va]) \in Stored
        /\ next_index(word[head_va]) = IF word[head_va] + 1 < BUF_SIZE
                                         THEN word[head_va] + 1 ELSE 0
    BY NextIndex, QueueAssumption DEF Slots, Stored
  <1>3. /\ word'[tail_va] = word[tail_va]
        /\ word'[head_va] = next_index(word[head_va])
        /\ \A k : slot_va(k) \in Addresses => word'[slot_va(k)] = word[slot_va(k)]
    BY <1>1, IndexAddresses
  <1>4. filled' = filled - 1
    BY <1>1, <1>3, Distances DEF filled
  <1>5. cons'.i = cons.i + 1 /\ cons' \in Consumer
    <2>1. cons.i + 1 \in 0 .. ITEMS
      BY <1>1, QueueAssumption DEF Consumer
    <2> QED BY <2>1 DEF Consumer
  <1>6. cons'.pc \in {"head", "done"} /\ (cons'.pc = "done" \/ cons'.i < ITEMS)
    BY DEF Consumer
  <1>7. TypeOK'
    BY <1>1, <1>2, <1>3, <1>5 DEF IInv, TypeOK
  <1>8. RingHoldsUnreadItems'
    <2>1. filled = prod.i - cons.i
      BY DEF IInv, RingHoldsUnreadItems
    <2>2. ASSUME NEW k \in 0 .. filled - 2
          PROVE  word'[slot_va(word'[head_va] + k)] = cons.i + 1 + k
      <3> DEFINE h == word[head_va]
      <3>1. /\ h \in Slots /\ h \in Nat /\ h < BUF_SIZE /\ BUF_SIZE \in Nat
            /\ k \in 0 .. BUF_SIZE /\ k + 1 \in 0 .. BUF_SIZE /\ k + 1 \in 0 .. filled - 1
        BY QueueAssumption DEF Slots
      <3>2. slot_va(next_index(h) + k) = slot_va(h + (k + 1))
        <4>1. CASE h + 1 < BUF_SIZE
          <5>1. next_index(h) + k = h + (k + 1)
            BY <1>2, <3>1, <4>1
          <5> QED BY <5>1
        <4>2. CASE ~(h + 1 < BUF_SIZE)
          <5>1. next_index(h) = 0 /\ h = BUF_SIZE - 1 /\ 0 \in Slots /\ k < BUF_SIZE
            BY <1>2, <3>1, <4>2 DEF Slots
          <5>2. slot_va(0 + k) = <<"slot", 0 + k>>
            BY <3>1, <5>1, SlotAddress
          <5>3. slot_va(h + (k + 1)) = <<"slot", h + (k + 1) - BUF_SIZE>>
            BY <3>1, <5>1, SlotAddress
          <5>4. h + (k + 1) - BUF_SIZE = 0 + k
            BY <3>1, <5>1
          <5> QED BY <5>1, <5>2, <5>3, <5>4
        <4> QED BY <4>1, <4>2
      <3>3. slot_va(h + (k + 1)) \in Addresses
        BY <3>1, SlotAddress
      <3>4. word[slot_va(h + (k + 1))] = cons.i + (k + 1)
        BY <3>1 DEF IInv, RingHoldsUnreadItems
      <3> QED BY <1>3, <3>2, <3>3, <3>4
    <2> QED BY <1>4, <1>5, <2>1, <2>2 DEF RingHoldsUnreadItems
  <1>9. ReceivedInOrder'
    BY <1>5, <1>6 DEF IInv, ReceivedInOrder
  <1>10. LocalsFresh'
    <2>1. ASSUME prod.pc = "publish"
          PROVE  word'[slot_va(word'[tail_va])] = prod.i
      <3>1. slot_va(word[tail_va] + 0) \in Addresses /\ word[tail_va] + 0 = word[tail_va]
        BY SlotAddress, QueueAssumption DEF Slots
      <3> QED BY <1>3, <2>1, <3>1 DEF IInv, LocalsFresh
    <2> QED BY <1>3, <1>4, <1>6, <2>1, QueueAssumption DEF IInv, LocalsFresh
  <1> QED BY <1>7, <1>8, <1>9, <1>10 DEF IInv

LEMMA NextIInv == IInv /\ [Next]_vars => IInv'
PROOF
  <1> SUFFICES ASSUME IInv, [Next]_vars PROVE IInv'
    OBVIOUS
  <1>1. CASE producer
    <2>1. PICK a \in Addresses :
            \/ producer_reads(a, word[a]) /\ UNCHANGED word
            \/ \E v \in Stored : producer_writes(a, v) /\ word' = [word EXCEPT ![a] = v]
      BY <1>1 DEF producer
    <2>2. CASE producer_reads(a, word[a]) /\ UNCHANGED word
      BY <2>2, ProducerReads
    <2>3. CASE \E v \in Stored : producer_writes(a, v) /\ word' = [word EXCEPT ![a] = v]
      <3>1. PICK v \in Stored : producer_writes(a, v) /\ word' = [word EXCEPT ![a] = v]
        BY <2>3
      <3> QED BY <3>1, ProducerWritesSlot, ProducerPublishes DEF producer_writes
    <2> QED BY <2>1, <2>2, <2>3
  <1>2. CASE consumer
    <2>1. PICK a \in Addresses :
            \/ consumer_reads(a, word[a]) /\ UNCHANGED word
            \/ \E v \in Stored : consumer_writes(a, v) /\ word' = [word EXCEPT ![a] = v]
      BY <1>2 DEF consumer
    <2>2. CASE consumer_reads(a, word[a]) /\ UNCHANGED word
      BY <2>2, ConsumerReadsIndex, ConsumerReadsSlot DEF consumer_reads
    <2>3. CASE \E v \in Stored : consumer_writes(a, v) /\ word' = [word EXCEPT ![a] = v]
      <3>1. PICK v \in Stored : consumer_writes(a, v) /\ word' = [word EXCEPT ![a] = v]
        BY <2>3
      <3> QED BY <3>1, ConsumerAdvances DEF consumer_writes
    <2> QED BY <2>1, <2>2, <2>3
  <1>3. CASE UNCHANGED vars
    <2>1. UNCHANGED <<word, prod, cons, received>> /\ filled' = filled
      BY <1>3, SameRing DEF vars
    <2>2. TypeOK'
      BY <2>1 DEF IInv, TypeOK
    <2>3. RingHoldsUnreadItems'
      BY <2>1 DEF IInv, RingHoldsUnreadItems
    <2>4. ReceivedInOrder'
      BY <2>1 DEF IInv, ReceivedInOrder
    <2>5. LocalsFresh'
      BY <2>1 DEF IInv, LocalsFresh
    <2> QED BY <2>2, <2>3, <2>4, <2>5 DEF IInv
  <1> QED BY <1>1, <1>2, <1>3 DEF Next

(***************************************************************************)
(* The theorems.                                                           *)
(***************************************************************************)

\* Words, counters and locals of the two threads keep their types.
THEOREM TypeCorrect == SafeSpec => []TypeOK
PROOF
  <1>1. IInv => TypeOK
    BY DEF IInv
  <1> QED BY <1>1, InitIInv, NextIInv, PTL DEF SafeSpec

\* For every buffer size and item count, however the accesses of the threads
\* interleave, no slot is overwritten before it is read or read before it is
\* written.
THEOREM RingIsSound == SafeSpec => []RingHoldsUnreadItems
PROOF
  <1>1. IInv => RingHoldsUnreadItems
    BY DEF IInv
  <1> QED BY <1>1, InitIInv, NextIInv, PTL DEF SafeSpec

\* The consumer receives 0, 1, 2, ... without loss, duplicate or reordering.
THEOREM ItemsArriveInOrder == SafeSpec => []ReceivedInOrder
PROOF
  <1>1. IInv => ReceivedInOrder
    BY DEF IInv
  <1> QED BY <1>1, InitIInv, NextIInv, PTL DEF SafeSpec

(***************************************************************************)
(* The ring buffer implements the bounded queue.                           *)
(***************************************************************************)

\* n consecutive numbers from a on.
Run(a, n) == [k \in 1 .. n |-> a + k - 1]

LEMMA RunFacts ==
  ASSUME NEW a \in Nat, NEW n \in Nat
  PROVE  /\ Run(a, n) \in Seq(Nat) /\ Len(Run(a, n)) = n
         /\ Append(Run(a, n), a + n) = Run(a, n + 1)
         /\ n > 0 => /\ Run(a, n) # <<>>
                     /\ Head(Run(a, n)) = a
                     /\ Tail(Run(a, n)) = Run(a + 1, n - 1)
PROOF
  <1> DEFINE s == Run(a, n)
  <1>1. \A k \in 1 .. n : a + k - 1 \in Nat
    OBVIOUS
  <1>2. s \in Seq(Nat) /\ Len(s) = n /\ \A k \in 1 .. n : s[k] = a + k - 1
    BY <1>1 DEF Run
  <1>3. Append(s, a + n) = Run(a, n + 1)
    <2>1. /\ Append(s, a + n) \in Seq(Nat) /\ Len(Append(s, a + n)) = n + 1
          /\ \A k \in 1 .. n + 1 : Append(s, a + n)[k] = a + k - 1
      BY <1>2
    <2>2. Append(s, a + n) = [k \in 1 .. n + 1 |-> Append(s, a + n)[k]]
      BY <2>1
    <2> QED BY <2>1, <2>2 DEF Run
  <1>4. ASSUME n > 0
        PROVE  s # <<>> /\ Head(s) = a /\ Tail(s) = Run(a + 1, n - 1)
    <2>1. s # <<>> /\ Head(s) = a
      BY <1>2, <1>4
    <2>2. /\ Tail(s) \in Seq(Nat) /\ Len(Tail(s)) = n - 1
          /\ \A k \in 1 .. n - 1 : Tail(s)[k] = s[k + 1]
      BY <1>2, <1>4, <2>1
    <2>3. \A k \in 1 .. n - 1 : Tail(s)[k] = (a + 1) + k - 1
      BY <1>2, <2>2
    <2>4. ASSUME NEW q \in Seq(Nat) PROVE q = [k \in 1 .. Len(q) |-> q[k]]
      OBVIOUS
    <2>5. Tail(s) = [k \in 1 .. n - 1 |-> Tail(s)[k]]
      BY <2>2, <2>4, Zenon
    <2> QED BY <2>1, <2>3, <2>5 DEF Run
  <1> QED BY <1>2, <1>3, <1>4

\* The unread items are the numbers between what was received and what was
\* sent.
UnreadIsRun ==
  /\ Len(received) \in Nat /\ prod.i \in Nat /\ Len(received) <= prod.i
  /\ prod.i - Len(received) <= BUF_SIZE - 1
  /\ unread = Run(Len(received), prod.i - Len(received))

LEMMA UnreadItems == IInv => UnreadIsRun
PROOF
  <1> SUFFICES ASSUME IInv PROVE UnreadIsRun
    OBVIOUS
  <1> USE Facts
  <1> DEFINE taken == IF cons.pc = "advance" THEN 1 ELSE 0
  <1>1. filled = prod.i - cons.i /\ (cons.pc = "advance" => filled > 0)
    BY DEF IInv, RingHoldsUnreadItems, LocalsFresh
  <1>2. Len(received) = cons.i + taken /\ taken \in {0, 1}
    BY DEF IInv, ReceivedInOrder
  <1>3. /\ Len(received) \in Nat /\ Len(received) <= prod.i
        /\ filled - taken = prod.i - Len(received)
        /\ prod.i - Len(received) <= BUF_SIZE - 1
    BY <1>1, <1>2, QueueAssumption
  <1>4. ASSUME NEW k \in 1 .. filled - taken
        PROVE  word[slot_va(word[head_va] + taken + k - 1)] = Len(received) + k - 1
    <2>1. word[head_va] + taken + k - 1 = word[head_va] + (taken + k - 1)
      BY <1>2 DEF Slots
    <2>2. taken + k - 1 \in 0 .. filled - 1
      BY <1>2
    <2>3. word[slot_va(word[head_va] + (taken + k - 1))] = cons.i + (taken + k - 1)
      BY <2>2 DEF IInv, RingHoldsUnreadItems
    <2> QED BY <1>2, <2>1, <2>3
  <1>5. unread = [k \in 1 .. filled - taken |-> word[slot_va(word[head_va] + taken + k - 1)]]
    BY DEF unread
  <1>6. [k \in 1 .. filled - taken |-> word[slot_va(word[head_va] + taken + k - 1)]]
          = [k \in 1 .. filled - taken |-> Len(received) + k - 1]
    BY <1>4, Zenon
  <1> QED BY <1>3, <1>5, <1>6 DEF UnreadIsRun, Run

\* However the accesses interleave, the threads put and get the items of a
\* first-in first-out queue of BUF_SIZE - 1 places: a store to TAIL puts, a
\* read of a slot gets, no other access is visible.
THEOREM RingImplementsQueue == SafeSpec => Abstract!SafeSpec
PROOF
  <1>1. Init => Abstract!Init
    <2> SUFFICES ASSUME Init PROVE Abstract!Init
      OBVIOUS
    <2>1. prod.i = 0 /\ received = <<>> /\ IInv
      BY InitIInv DEF Init, threads_init
    <2>2. unread = Run(0, 0)
      BY <2>1, UnreadItems DEF UnreadIsRun
    <2>3. unread = <<>>
      BY <2>2 DEF Run
    <2> QED BY <2>1, <2>3 DEF Abstract!Init
  <1>2. IInv /\ [Next]_vars => UnreadIsRun /\ UnreadIsRun'
    BY UnreadItems, NextIInv, PTL
  <1>3. ASSUME IInv, [Next]_vars PROVE [Abstract!Next]_(Abstract!vars)
    <2>1. UnreadIsRun /\ UnreadIsRun'
      BY <1>2, <1>3
    <2> DEFINE r == Len(received)
    <2>2. ASSUME prod'.i = prod.i, UNCHANGED received
          PROVE  UNCHANGED Abstract!vars
      <3>1. unread' = unread
        BY <2>1, <2>2 DEF UnreadIsRun
      <3> QED BY <2>2, <3>1 DEF Abstract!vars
    <2>3. ASSUME prod'.i = prod.i + 1, prod.i < ITEMS, UNCHANGED received
          PROVE  Abstract!Put
      <3>1. /\ r \in Nat /\ prod.i \in Nat /\ BUF_SIZE \in Nat /\ prod.i - r \in Nat
            /\ unread = Run(r, prod.i - r) /\ unread' = Run(r, prod.i + 1 - r)
            /\ prod.i + 1 - r <= BUF_SIZE - 1
        BY <2>1, <2>3, QueueAssumption DEF UnreadIsRun
      <3>2. PICK n \in Nat : n = prod.i - r
        BY <3>1
      <3>3. prod.i + 1 - r = n + 1 /\ r + n = prod.i /\ n < BUF_SIZE - 1
        BY <3>1, <3>2
      <3>4. Len(Run(r, n)) = n /\ Append(Run(r, n), r + n) = Run(r, n + 1)
        BY <3>1, RunFacts
      <3>5. Len(unread) < BUF_SIZE - 1 /\ unread' = Append(unread, prod.i)
        BY <3>1, <3>2, <3>3, <3>4
      <3> QED BY <2>3, <3>5 DEF Abstract!Put
    <2>4. ASSUME prod'.i = prod.i, received' = Append(received, cons.i),
                 r = cons.i, filled > 0
          PROVE  Abstract!Get
      <3>1. /\ r \in Nat /\ prod.i \in Nat /\ filled = prod.i - r
            /\ received \in Seq(Stored)
        BY <1>3, <2>1, <2>4 DEF UnreadIsRun, IInv, RingHoldsUnreadItems, TypeOK
      <3>2. Len(received') = r + 1
        BY <2>4, <3>1
      <3>3. PICK n \in Nat : n = prod.i - r /\ n > 0 /\ prod.i - (r + 1) = n - 1
        BY <2>4, <3>1
      <3>4. unread = Run(r, prod.i - r) /\ unread' = Run(r + 1, prod.i - (r + 1))
        BY <2>1, <2>4, <3>2 DEF UnreadIsRun
      <3>5. /\ Run(r, n) # <<>> /\ Head(Run(r, n)) = r
            /\ Tail(Run(r, n)) = Run(r + 1, n - 1)
        BY <3>1, <3>3, RunFacts
      <3>6. unread # <<>> /\ Head(unread) = r /\ unread' = Tail(unread)
        BY <3>3, <3>4, <3>5
      <3> QED BY <2>4, <3>6 DEF Abstract!Get
    <2>5. CASE producer
      <3>1. PICK a \in Addresses :
              \/ producer_reads(a, word[a])
              \/ \E v \in Stored : producer_writes(a, v)
        BY <2>5 DEF producer
      <3>2. prod.pc # "done" => prod.i < ITEMS
        BY <1>3 DEF IInv, LocalsFresh
      <3>3. /\ UNCHANGED received
            /\ \/ prod'.i = prod.i
               \/ prod'.i = prod.i + 1 /\ prod.i < ITEMS
        BY <1>3, <3>1, <3>2, Facts DEF producer_reads, producer_writes, Producer
      <3> QED BY <2>2, <2>3, <3>3 DEF Abstract!Next
    <2>6. CASE consumer
      <3>1. PICK a \in Addresses :
              \/ consumer_reads(a, word[a]) /\ UNCHANGED word
              \/ \E v \in Stored : consumer_writes(a, v)
        BY <2>6 DEF consumer
      <3>2. CASE cons.pc = "slot"
        <4>1. /\ UNCHANGED prod /\ received' = Append(received, word[slot_va(cons.head)])
          BY <3>1, <3>2 DEF consumer_reads, consumer_writes
        <4>2. /\ cons.head = word[head_va] /\ filled > 0 /\ Len(received) = cons.i
              /\ \A k \in 0 .. filled - 1 : word[slot_va(word[head_va] + k)] = cons.i + k
          BY <1>3, <3>2 DEF IInv, LocalsFresh, ReceivedInOrder, RingHoldsUnreadItems
        <4>3. 0 \in 0 .. filled - 1 /\ word[head_va] + 0 = cons.head /\ cons.i + 0 = cons.i
          BY <1>3, <4>2, Facts DEF Slots
        <4>4. word[slot_va(cons.head)] = cons.i
          BY <4>2, <4>3
        <4> QED BY <2>4, <4>1, <4>2, <4>4 DEF Abstract!Next
      <3>3. CASE cons.pc # "slot"
        <4>1. UNCHANGED <<prod, received>>
          BY <3>1, <3>3 DEF consumer_reads, consumer_writes
        <4> QED BY <2>2, <4>1
      <3> QED BY <3>2, <3>3
    <2>7. CASE UNCHANGED vars
      BY <2>2, <2>7 DEF vars
    <2> QED BY <1>3, <2>5, <2>6, <2>7 DEF Next
  <1>4. SafeSpec => []IInv
    BY InitIInv, NextIInv, PTL DEF SafeSpec
  <1> QED BY <1>1, <1>3, <1>4, PTL DEF SafeSpec, Abstract!SafeSpec
=============================================================================
