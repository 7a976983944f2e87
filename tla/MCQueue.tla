------------------------------- MODULE MCQueue -------------------------------
(***************************************************************************)
(* Model-checking instance of QueueOnCaches: three slots on the second and *)
(* third line of the queue.  The first two lines are the second frame, the *)
(* third is in the fourth, with a page table between them.                 *)
(***************************************************************************)
EXTENDS QueueOnCaches

MCLines == [n \in QueueLines |-> IF n < L1_SETS THEN L1_SETS + n ELSE 2 * L1_SETS + n]

\* The lines of the two frames fit the L2.
ASSUME QueueFits == FitsL2({l \in Lines : page_of(l) \in {1, 3}})
=============================================================================
