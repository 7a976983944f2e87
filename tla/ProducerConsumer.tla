-------------------------- MODULE ProducerConsumer --------------------------
(***************************************************************************)
(* The two threads of benchmarks/producer_consumer.cpp and the ring buffer *)
(* they share in the simulated memory.  A step of a thread is one read32   *)
(* or write32: cpu_read and cpu_write hold bus_lock, so an access is       *)
(* atomic, and between two accesses a thread touches only its locals.      *)
(* The memory is flat here, one value per word; QueueOnCaches runs the     *)
(* same threads on the caches of MesiProtocol.                             *)
(***************************************************************************)
EXTENDS Naturals, Sequences

CONSTANTS
  BUF_SIZE,   (* slots of the ring buffer                                  *)
  ITEMS       (* items to transfer                                         *)

ASSUME QueueAssumption == BUF_SIZE \in Nat \ {0, 1} /\ ITEMS \in Nat \ {0}

VARIABLES
  word,       (* word[a]: the value at simulated address a                 *)
  prod,          (* the producer: program counter and locals                  *)
  cons,          (* the consumer: program counter and locals                  *)
  received    (* what the consumer's reads of the buffer delivered         *)

vars == <<word, prod, cons, received>>

\* Queue layout: HEAD_VA, TAIL_VA and the slots behind BUF_VA.
HEAD == "head"
TAIL == "tail"
Slots == 0 .. BUF_SIZE - 1
Addresses == {HEAD, TAIL} \X {0} \cup {"slot"} \X Slots
head_va == <<HEAD, 0>>
tail_va == <<TAIL, 0>>
slot_va(k) == <<"slot", k % BUF_SIZE>>

Producer == [pc : {"tail", "full", "slot", "publish", "done"},
             i : 0 .. ITEMS, tail : Slots]
Consumer == [pc : {"head", "empty", "slot", "advance", "done"},
             i : 0 .. ITEMS, head : Slots]

\* Mutant: the index runs on past the buffer.
next_index_without_wrap(k) == k + 1

next_index(k) == (k + 1) % BUF_SIZE

(***************************************************************************)
(* producer_reads(a, v) and producer_writes(a, v) are the producer's steps *)
(* when its read32(a) delivers v and when it executes write32(a, v); the   *)
(* same for the consumer.  They say nothing about the memory.              *)
(***************************************************************************)
\* Mutant: head is read once, the loop spins on the local copy.
producer_reads_head_once(a, v) ==
  /\ UNCHANGED <<cons, received>>
  /\ \/ /\ prod.pc = "tail" /\ a = tail_va
        /\ prod' = [prod EXCEPT !.pc = "full", !.tail = v]
     \/ /\ prod.pc = "full" /\ a = head_va
        /\ prod' = [prod EXCEPT !.pc = IF next_index(prod.tail) = v
                                        THEN "spinning" ELSE "slot"]

\* Mutant: the test for a full buffer is dropped.
producer_reads_ignores_full(a, v) ==
  /\ UNCHANGED <<cons, received>>
  /\ \/ /\ prod.pc = "tail" /\ a = tail_va
        /\ prod' = [prod EXCEPT !.pc = "full", !.tail = v]
     \/ /\ prod.pc = "full" /\ a = head_va
        /\ prod' = [prod EXCEPT !.pc = "slot"]

\* tail = read32(TAIL_VA); while (next == read32(HEAD_VA)) yield.
producer_reads(a, v) ==
  /\ UNCHANGED <<cons, received>>
  /\ \/ /\ prod.pc = "tail" /\ a = tail_va
        /\ prod' = [prod EXCEPT !.pc = "full", !.tail = v]
     \/ /\ prod.pc = "full" /\ a = head_va
        /\ IF next_index(prod.tail) = v
             THEN UNCHANGED prod
             ELSE prod' = [prod EXCEPT !.pc = "slot"]

\* Mutant: tail is published before the slot is written.
producer_writes_publishes_first(a, v) ==
  /\ UNCHANGED <<cons, received>>
  /\ \/ /\ prod.pc = "slot" /\ a = tail_va /\ v = next_index(prod.tail)
        /\ prod' = [prod EXCEPT !.pc = "publish"]
     \/ /\ prod.pc = "publish" /\ a = slot_va(prod.tail) /\ v = prod.i
        /\ prod' = [prod EXCEPT !.pc = IF prod.i + 1 < ITEMS THEN "tail" ELSE "done",
                          !.i = prod.i + 1]

\* write32(slot, i); write32(TAIL_VA, next); i++.
producer_writes(a, v) ==
  /\ UNCHANGED <<cons, received>>
  /\ \/ /\ prod.pc = "slot" /\ a = slot_va(prod.tail) /\ v = prod.i
        /\ prod' = [prod EXCEPT !.pc = "publish"]
     \/ /\ prod.pc = "publish" /\ a = tail_va /\ v = next_index(prod.tail)
        /\ prod' = [prod EXCEPT !.pc = IF prod.i + 1 < ITEMS THEN "tail" ELSE "done",
                          !.i = prod.i + 1]

\* while ((head = read32(HEAD_VA)) == read32(TAIL_VA)) yield: every round
\* reads both indices again; then the slot is read.
consumer_reads(a, v) ==
  /\ UNCHANGED prod
  /\ \/ /\ cons.pc = "head" /\ a = head_va
        /\ cons' = [cons EXCEPT !.pc = "empty", !.head = v]
        /\ UNCHANGED received
     \/ /\ cons.pc = "empty" /\ a = tail_va
        /\ cons' = [cons EXCEPT !.pc = IF cons.head = v THEN "head" ELSE "slot"]
        /\ UNCHANGED received
     \/ /\ cons.pc = "slot" /\ a = slot_va(cons.head)
        /\ cons' = [cons EXCEPT !.pc = "advance"]
        /\ received' = Append(received, v)

\* write32(HEAD_VA, next); i++.
consumer_writes(a, v) ==
  /\ cons.pc = "advance" /\ a = head_va /\ v = next_index(cons.head)
  /\ cons' = [cons EXCEPT !.pc = IF cons.i + 1 < ITEMS THEN "head" ELSE "done",
                    !.i = cons.i + 1]
  /\ UNCHANGED <<prod, received>>

(***************************************************************************)
(* The threads over a flat memory.                                         *)
(***************************************************************************)
\* What a thread can store: an item or an index.
Stored == 0 .. BUF_SIZE + ITEMS

producer ==
  \E a \in Addresses :
    \/ producer_reads(a, word[a]) /\ UNCHANGED word
    \/ \E v \in Stored : producer_writes(a, v) /\ word' = [word EXCEPT ![a] = v]

consumer ==
  \E a \in Addresses :
    \/ consumer_reads(a, word[a]) /\ UNCHANGED word
    \/ \E v \in Stored : consumer_writes(a, v) /\ word' = [word EXCEPT ![a] = v]

threads_init ==
  /\ prod = [pc |-> "tail", i |-> 0, tail |-> 0]
  /\ cons = [pc |-> "head", i |-> 0, head |-> 0]
  /\ received = <<>>

\* main stores head = tail = 0; the slots hold the zeroes of fresh memory.
Init == threads_init /\ word = [a \in Addresses |-> 0]

\* t0.join(); t1.join(): main goes on when both threads have returned.
joined == prod.pc = "done" /\ cons.pc = "done"

Next == producer \/ consumer \/ (joined /\ UNCHANGED vars)

SafeSpec == Init /\ [][Next]_vars

\* std::thread and yield: each thread keeps running as long as it can.
Spec == SafeSpec /\ WF_vars(producer) /\ WF_vars(consumer)

(***************************************************************************)
(* Properties.                                                             *)
(***************************************************************************)

\* Words, counters and locals keep their types.
TypeOK ==
  /\ word \in [Addresses -> Stored]
  /\ word[head_va] \in Slots /\ word[tail_va] \in Slots
  /\ prod \in Producer
  /\ cons \in Consumer
  /\ received \in Seq(Stored)

\* How many slots lie between the two indices, walking forward.
distance(from, to) == IF from <= to THEN to - from ELSE to + BUF_SIZE - from

\* What the ring buffer holds between head and tail.
filled == distance(word[head_va], word[tail_va])

\* The indices the threads race on are always consistent with the number of
\* items each has handled, and every unread slot holds its own item: no slot
\* is overwritten before it is read (while next == head the producer spins)
\* and none is read before it is written (producer_consumer.cpp:63-67, 76-82).
RingHoldsUnreadItems ==
  /\ filled = prod.i - cons.i
  /\ \A k \in 0 .. filled - 1 :
       word[slot_va(word[head_va] + k)] = cons.i + k

\* The consumer receives 0, 1, 2, ...: nothing is lost, duplicated, reordered
\* or read half-published.
ReceivedInOrder ==
  /\ received = [k \in 1 .. Len(received) |-> k - 1]
  /\ Len(received) = IF cons.pc = "advance" THEN cons.i + 1 ELSE cons.i

\* Neither thread waits for ever on the index the other one advances: both
\* return and t0.join(), t1.join() succeed with every item received.
BothThreadsReturn == <>(joined /\ Len(received) = ITEMS)

\* The unread items; one that was read and whose slot is not released yet
\* has left the abstract queue.
unread ==
  LET taken == IF cons.pc = "advance" THEN 1 ELSE 0
  IN  [k \in 1 .. filled - taken |-> word[slot_va(word[head_va] + taken + k - 1)]]

Abstract == INSTANCE BoundedQueue
              WITH Capacity <- BUF_SIZE - 1, sent <- prod.i, queue <- unread

\* The benchmark is a bounded first-in first-out queue that moves every item.
BoundedQueueSpec == Abstract!Spec
=============================================================================
