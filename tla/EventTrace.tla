----------------------------- MODULE EventTrace -----------------------------
(***************************************************************************)
(* Recording and reading a trace: event.h and event.cpp.                   *)
(*                                                                         *)
(* Threads take a step number, then make an access under the bus_lock of   *)
(* cpu.cpp and push its events into the queue, a doubly linked list of     *)
(* nodes in the blocks of EventPool.  After the threads have joined,       *)
(* write_trace saves the list; later the visualizer, a new process, reads  *)
(* the file into a queue of its own.                                       *)
(*                                                                         *)
(* An event is its step number and its bytes; the other fields are copied  *)
(* like the number.  Step numbers do not wrap: 2^32 events do not fit.     *)
(***************************************************************************)
EXTENDS Integers, Sequences

CONSTANTS
  Threads, NoThread,
  Bytes, ZeroBytes, NoData,       (* a line's bytes, all zero, null        *)
  EVENT_SIZE, ALIGN, BLOCK_SIZE,  (* sizeof(Event), alignof(Event), block  *)
  MaxBlocks,                      (* blocks malloc can provide             *)
  MaxSteps, MaxEvents             (* bounds of the recording               *)

ASSUME PoolAssumption ==
  /\ EVENT_SIZE \in Nat \ {0}
  /\ ALIGN \in Nat \ {0}
  /\ BLOCK_SIZE \in Nat
  /\ EVENT_SIZE <= BLOCK_SIZE
  /\ MaxBlocks \in Nat
  /\ MaxSteps \in Nat
  /\ MaxEvents \in Nat

ASSUME BytesAssumption == ZeroBytes \in Bytes /\ NoData \notin Bytes

ASSUME ThreadsAssumption == NoThread \notin Threads

VARIABLES
  blocks, offset,     (* EventPool: blocks so far, offset in the newest    *)
  node,               (* the nodes by address <<block, offset>>            *)
  first, last, next_seq,
  order,              (* history: the addresses in the order of the pushes *)
  bus_lock, pc, current_seq,
  phase,
  file,               (* the trace on disk                                 *)
  saved,              (* what write_trace returned                         *)
  recorded            (* history: the events write_trace was given         *)

queue == <<blocks, offset, node, first, last, order>>
threads == <<bus_lock, pc, current_seq>>
disk == <<file, saved, recorded>>
vars == <<queue, next_seq, threads, phase, disk>>

NULL == <<0, 0>>

Event == [seq : Nat, data : Bytes \cup {NoData}]
Address == (1 .. MaxBlocks) \X Nat
Node == [event : Event, prev : Address \cup {NULL}, next : Address \cup {NULL}]

(***************************************************************************)
(* EventPool::alloc.                                                       *)
(***************************************************************************)
aligned == ((offset + ALIGN - 1) \div ALIGN) * ALIGN

\* Mutant: the room left in the block is compared without the event's size.
needs_block_off_by_one == blocks = 0 \/ aligned >= BLOCK_SIZE

needs_block == blocks = 0 \/ aligned + EVENT_SIZE > BLOCK_SIZE

\* Mutant: the result of malloc is not looked at.
alloc_never_fails == FALSE

alloc_fails == needs_block /\ blocks = MaxBlocks

alloc == IF needs_block THEN <<blocks + 1, 0>> ELSE <<blocks, aligned>>

(***************************************************************************)
(* EventQueue::push, with the queue's lock held.  The callers make sure    *)
(* that alloc does not fail.                                               *)
(***************************************************************************)
\* Mutant: the node is not linked back.
push_without_prev(e) ==
  /\ blocks' = alloc[1]
  /\ offset' = alloc[2] + EVENT_SIZE
  /\ order' = Append(order, alloc)
  /\ node' = [a \in DOMAIN node \cup {alloc} |->
                IF a = alloc THEN [event |-> e, prev |-> NULL, next |-> NULL]
                ELSE IF a = last THEN [node[a] EXCEPT !.next = alloc] ELSE node[a]]
  /\ first' = IF last = NULL THEN alloc ELSE first
  /\ last' = alloc

push(e) ==
  /\ blocks' = alloc[1]
  /\ offset' = alloc[2] + EVENT_SIZE
  /\ order' = Append(order, alloc)
  /\ node' = [a \in DOMAIN node \cup {alloc} |->
                IF a = alloc THEN [event |-> e, prev |-> last, next |-> NULL]
                ELSE IF a = last THEN [node[a] EXCEPT !.next = alloc] ELSE node[a]]
  /\ first' = IF last = NULL THEN alloc ELSE first
  /\ last' = alloc

empty_queue ==
  /\ blocks = 0
  /\ offset = 0
  /\ node = <<>>
  /\ first = NULL
  /\ last = NULL
  /\ order = <<>>

(***************************************************************************)
(* Recording.                                                              *)
(***************************************************************************)
event_begin_step(t) ==
  /\ phase = "recording"
  /\ pc[t] = "idle"
  /\ next_seq < MaxSteps
  /\ current_seq' = [current_seq EXCEPT ![t] = next_seq]
  /\ next_seq' = next_seq + 1
  /\ pc' = [pc EXCEPT ![t] = "ready"]
  /\ UNCHANGED <<queue, bus_lock, phase, disk>>

\* Mutant: bus_lock is not waited for.
enter_without_waiting(t) ==
  /\ phase = "recording"
  /\ pc[t] = "ready"
  /\ bus_lock' = t
  /\ pc' = [pc EXCEPT ![t] = "inside"]
  /\ UNCHANGED <<queue, next_seq, current_seq, phase, disk>>

\* cpu_read, cpu_write and cpu_fetch hold bus_lock from here to leave.
enter(t) ==
  /\ phase = "recording"
  /\ pc[t] = "ready"
  /\ bus_lock = NoThread
  /\ bus_lock' = t
  /\ pc' = [pc EXCEPT ![t] = "inside"]
  /\ UNCHANGED <<queue, next_seq, current_seq, phase, disk>>

\* malloc returns null: the program aborts and leaves no trace.
event_callback(t) ==
  /\ phase = "recording"
  /\ pc[t] = "inside"
  /\ Len(order) < MaxEvents
  /\ \/ /\ ~alloc_fails
        /\ \E data \in Bytes \cup {NoData} :
             push([seq |-> current_seq[t], data |-> data])
        /\ UNCHANGED phase
     \/ /\ alloc_fails
        /\ phase' = "aborted"
        /\ UNCHANGED queue
  /\ UNCHANGED <<next_seq, threads, disk>>

leave(t) ==
  /\ phase = "recording"
  /\ pc[t] = "inside"
  /\ bus_lock' = NoThread
  /\ pc' = [pc EXCEPT ![t] = "idle"]
  /\ UNCHANGED <<queue, next_seq, current_seq, phase, disk>>

(***************************************************************************)
(* The trace file.                                                         *)
(***************************************************************************)
\* Mutant: the flag of the data is lost.
to_record_all_data(e) ==
  [seq |-> e.seq, has_data |-> 1, data |-> IF e.data = NoData THEN ZeroBytes ELSE e.data]

\* TraceRecord of an event; rec{} zeroes the bytes of an event without data.
to_record(e) ==
  [seq |-> e.seq,
   has_data |-> IF e.data = NoData THEN 0 ELSE 1,
   data |-> IF e.data = NoData THEN ZeroBytes ELSE e.data]

\* The event read_trace pushes for a record.
of_record(r) ==
  [seq |-> r.seq, data |-> IF r.has_data # 0 THEN r.data ELSE NoData]

\* The events of the queue from first to last.
events == [k \in 1 .. Len(order) |-> node[order[k]].event]

no_file == [exists |-> FALSE, header |-> FALSE, records |-> <<>>]

\* write_trace, after the threads have joined.  It returns true when every
\* fwrite and the fclose succeed; a failure leaves a file without a header or
\* one that ends after some record, a torn last record included.
write_trace ==
  /\ phase = "recording"
  /\ \A t \in Threads : pc[t] = "idle"
  /\ recorded' = events
  /\ \/ /\ saved' = TRUE
        /\ file' = [exists |-> TRUE, header |-> TRUE,
                    records |-> [k \in 1 .. Len(events) |-> to_record(events[k])]]
     \/ /\ saved' = FALSE
        /\ file' = no_file
     \/ /\ saved' = FALSE
        /\ file' = [no_file EXCEPT !.exists = TRUE]
     \/ /\ saved' = FALSE
        /\ \E n \in 0 .. Len(events) :
             file' = [exists |-> TRUE, header |-> TRUE,
                      records |-> [k \in 1 .. n |-> to_record(events[k])]]
  /\ phase' = "written"
  /\ UNCHANGED <<queue, next_seq, threads>>

\* read_trace opens the file: no file or no header means nullptr.
read_open ==
  /\ phase = "written"
  /\ blocks' = 0
  /\ offset' = 0
  /\ node' = <<>>
  /\ first' = NULL
  /\ last' = NULL
  /\ order' = <<>>
  /\ next_seq' = 0
  /\ phase' = IF file.exists /\ file.header THEN "reading" ELSE "unreadable"
  /\ UNCHANGED <<threads, disk>>

\* One iteration of its loop: a record is pushed, or fread stops at the end,
\* at a torn record or at an error, and an error means nullptr.
read_record ==
  /\ phase = "reading"
  /\ Len(order) < Len(file.records)
  /\ \/ /\ ~alloc_fails
        /\ push(of_record(file.records[Len(order) + 1]))
        /\ UNCHANGED phase
     \/ /\ alloc_fails
        /\ phase' = "aborted"
        /\ UNCHANGED queue
  /\ UNCHANGED <<next_seq, threads, disk>>

read_error ==
  /\ phase = "reading"
  /\ phase' = "unreadable"
  /\ UNCHANGED <<queue, next_seq, threads, disk>>

read_end ==
  /\ phase = "reading"
  /\ Len(order) = Len(file.records)
  /\ next_seq' = IF last = NULL THEN 0 ELSE node[last].event.seq + 1
  /\ phase' = "loaded"
  /\ UNCHANGED <<queue, threads, disk>>

(***************************************************************************)
(* The specification.                                                      *)
(***************************************************************************)
Init ==
  /\ empty_queue
  /\ next_seq = 0
  /\ bus_lock = NoThread
  /\ pc = [t \in Threads |-> "idle"]
  /\ current_seq = [t \in Threads |-> 0]
  /\ phase = "recording"
  /\ file = no_file
  /\ saved = FALSE
  /\ recorded = <<>>

Next ==
  \/ \E t \in Threads : event_begin_step(t) \/ enter(t) \/ event_callback(t) \/ leave(t)
  \/ write_trace
  \/ read_open
  \/ read_record
  \/ read_error
  \/ read_end

Spec == Init /\ [][Next]_vars

(***************************************************************************)
(* Properties.                                                             *)
(***************************************************************************)
\* Types.
TypeOK ==
  /\ blocks \in 0 .. MaxBlocks
  /\ offset \in Nat
  /\ order \in Seq(Address)
  /\ DOMAIN node = {order[k] : k \in 1 .. Len(order)}
  /\ \A a \in DOMAIN node : node[a] \in Node
  /\ first \in Address \cup {NULL}
  /\ last \in Address \cup {NULL}
  /\ next_seq \in Nat
  /\ bus_lock \in Threads \cup {NoThread}
  /\ pc \in [Threads -> {"idle", "ready", "inside"}]
  /\ current_seq \in [Threads -> Nat]
  /\ phase \in {"recording", "aborted", "written", "reading", "unreadable", "loaded"}
  /\ file \in [exists : BOOLEAN, header : BOOLEAN,
               records : Seq([seq : Nat, has_data : {0, 1}, data : Bytes])]
  /\ saved \in BOOLEAN
  /\ recorded \in Seq(Event)

\* Two events never share memory and none leaves its block: the nodes the
\* list points to stay intact while the pool grows.
NodesDisjoint ==
  \A j, k \in 1 .. Len(order) :
    /\ order[k][2] + EVENT_SIZE <= BLOCK_SIZE
    /\ \E q \in 0 .. order[k][2] : order[k][2] = q * ALIGN
    /\ j < k => \/ order[j][1] < order[k][1]
                \/ order[j][1] = order[k][1] /\ order[j][2] + EVENT_SIZE <= order[k][2]

\* The links of push, followed forward from first or backward from last, visit
\* every event in the order of the pushes: write_trace saves them all, and the
\* visualizer's step back retraces its steps.
ListInPushOrder ==
  LET n == Len(order) IN
  /\ first = IF n = 0 THEN NULL ELSE order[1]
  /\ last = IF n = 0 THEN NULL ELSE order[n]
  /\ \A k \in 1 .. n :
       /\ node[order[k]].next = IF k = n THEN NULL ELSE order[k + 1]
       /\ node[order[k]].prev = IF k = 1 THEN NULL ELSE order[k - 1]

\* The events of one step are neighbours in the queue, though threads take
\* their numbers outside bus_lock and reach the queue in any order: the
\* visualizer, which advances while the number stays the same, shows every
\* access as one whole step.
StepsContiguous ==
  \A i, j, k \in 1 .. Len(order) :
    i < j /\ j < k /\ events[i].seq = events[k].seq => events[j].seq = events[i].seq

\* A trace that loads holds the first events of the recording, with their
\* bytes, and all of them when write_trace returned true.
LoadedIsRecorded ==
  phase = "loaded" =>
    /\ Len(order) <= Len(recorded)
    /\ events = SubSeq(recorded, 1, Len(order))
    /\ saved => Len(order) = Len(recorded)
=============================================================================
