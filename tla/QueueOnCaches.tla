---------------------------- MODULE QueueOnCaches ----------------------------
(***************************************************************************)
(* The producer/consumer benchmark on the simulated caches: the threads of *)
(* ProducerConsumer, with every read32 and write32 carried out by cpu_read *)
(* and cpu_write of MesiProtocol.  Core 0 runs the producer, core 1 the    *)
(* consumer; head and tail are two words of one line (false sharing), the  *)
(* slots are the words of the lines behind it.                             *)
(***************************************************************************)
EXTENDS MesiProtocol, Sequences

CONSTANTS
  BUF_SIZE, ITEMS,   (* as in ProducerConsumer                             *)
  SLOTS_PER_LINE,    (* LINE_SIZE / sizeof(uint32_t)                       *)
  queue_line         (* queue_line[n]: the physical line behind line n of  *)
                     (* the queue.  Its pages need not be neighbours: the  *)
                     (* tables of the first lie between them.              *)

QueueLines == 0 .. 1 + (BUF_SIZE - 1) \div SLOTS_PER_LINE

ASSUME BenchmarkAssumption ==
  /\ BUF_SIZE \in Nat \ {0, 1} /\ ITEMS \in Nat \ {0} /\ Zero = 0
  /\ SLOTS_PER_LINE \in Nat \ {0, 1} /\ 0 .. SLOTS_PER_LINE - 1 \subseteq Words
  /\ {0, 1} \subseteq Cores
  /\ queue_line \in [QueueLines -> Lines]
  /\ \A m, n \in QueueLines : queue_line[m] = queue_line[n] => m = n

VARIABLES
  prod, cons, received,   (* the threads, as in ProducerConsumer           *)
  started                 (* what main has done: "", "head", "threads"     *)

queue_vars == <<l1d, l1i, l2, mem, abort, ret, prod, cons, received, started>>

\* HEAD_VA, TAIL_VA = HEAD_VA + 4 and BUF_VA = QUEUE_VA + LINE_SIZE.
line_of(a) == queue_line[IF a[1] = "slot" THEN 1 + a[2] \div SLOTS_PER_LINE ELSE 0]
word_of(a) == IF a[1] = "tail" THEN 1 ELSE a[2] % SLOTS_PER_LINE

Queue == INSTANCE ProducerConsumer WITH
  word <- [a \in ({"head", "tail"} \X {0}) \cup ({"slot"} \X (0 .. BUF_SIZE - 1))
             |-> current(line_of(a))[word_of(a)]]

\* read32: the value delivered is the accessed word of the line read.
read32(core, a) == cpu_read(core, line_of(a))
delivered(a) == ret'[2][word_of(a)]

write32(core, a, v) == cpu_write(core, line_of(a), word_of(a), v)

\* main stores head = 0 and tail = 0 through core 0, then starts the threads.
main ==
  /\ UNCHANGED <<prod, cons, received>>
  /\ \/ started = "" /\ write32(0, Queue!head_va, 0) /\ started' = "head"
     \/ started = "head" /\ write32(0, Queue!tail_va, 0) /\ started' = "threads"

producer ==
  /\ started = "threads" /\ UNCHANGED started
  /\ \E a \in Queue!Addresses :
       \/ read32(0, a) /\ Queue!producer_reads(a, delivered(a))
       \/ \E v \in Vals : Queue!producer_writes(a, v) /\ write32(0, a, v)

consumer ==
  /\ started = "threads" /\ UNCHANGED started
  /\ \E a \in Queue!Addresses :
       \/ read32(1, a) /\ Queue!consumer_reads(a, delivered(a))
       \/ \E v \in Vals : Queue!consumer_writes(a, v) /\ write32(1, a, v)

QueueInit == Init /\ Queue!threads_init /\ started = ""

QueueNext ==
  /\ abort = "none"
  /\ \/ main
     \/ producer
     \/ consumer
     \/ Queue!joined /\ UNCHANGED queue_vars

QueueSafeSpec == QueueInit /\ [][QueueNext]_queue_vars

\* main and both threads keep running; bus_lock is handed on.
QueueFairSpec ==
  /\ QueueSafeSpec
  /\ WF_queue_vars(main)
  /\ WF_queue_vars(producer)
  /\ WF_queue_vars(consumer)

(***************************************************************************)
(* Properties.                                                             *)
(***************************************************************************)

\* Seen through the caches the threads behave as on a flat memory: no store
\* to head or tail is lost to the other core's store to its half of the line
\* ("FALSE SHARING", producer_consumer.cpp:20), no read is stale.
QueueOverFlatMemory == Queue!SafeSpec

\* The spinning threads always see the index the other one stored: both
\* return, with every item received in order.
QueueDrains ==
  <>(Queue!joined /\ received = [k \in 1 .. ITEMS |-> k - 1])
=============================================================================
