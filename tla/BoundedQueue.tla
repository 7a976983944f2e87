---------------------------- MODULE BoundedQueue ----------------------------
(***************************************************************************)
(* What the producer/consumer benchmark promises: the items 0, 1, 2, ...   *)
(* pass through a queue of bounded capacity, each is received once and in  *)
(* order, and all of them arrive.  Ring buffer, indices and the reads and  *)
(* writes of the threads do not appear here; ProducerConsumer implements   *)
(* this interface with them.                                               *)
(***************************************************************************)
EXTENDS Naturals, Sequences

CONSTANTS Capacity, ITEMS

VARIABLES
  sent,      (* how many items the producer has put                        *)
  queue,     (* the items put and not received yet, oldest first           *)
  received   (* the items received, oldest first                           *)

vars == <<sent, queue, received>>

Init == sent = 0 /\ queue = <<>> /\ received = <<>>

Put ==
  /\ sent < ITEMS
  /\ Len(queue) < Capacity
  /\ queue' = Append(queue, sent)
  /\ sent' = sent + 1
  /\ UNCHANGED received

Get ==
  /\ queue # <<>>
  /\ received' = Append(received, Head(queue))
  /\ queue' = Tail(queue)
  /\ UNCHANGED sent

Next == Put \/ Get

SafeSpec == Init /\ [][Next]_vars

\* What can be put is put, what can be received is received.
Spec == SafeSpec /\ WF_vars(Put) /\ WF_vars(Get)
=============================================================================
