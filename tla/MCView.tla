------------------------------- MODULE MCView -------------------------------
(***************************************************************************)
(* Programs whose traces are played back.  A page has two lines; lines 0,  *)
(* 2 and 4 share an L1 set of one way and an L2 set of two.                *)
(***************************************************************************)
EXTENDS Visualizer

pair(first_core, second_core) ==
  [c \in Cores |-> IF c = 0 THEN first_core ELSE second_core]

reads(lines) == {"read"} \X lines
writes(lines) == {"write"} \X lines
fetches(lines) == {"fetch"} \X lines

\* The code of the last program fits its L1I.
MCWorkloads ==
  {\* a writer and a reader share a line
   pair(writes({0, 2}), reads({0})),
   \* three lines compete for the two ways of the L2
   pair(writes({0, 2}), reads({4})),
   \* code runs beside data, and the next-line prefetch fills the data line
   pair(reads({1}) \cup writes({1}), fetches({0}))}

\* One core whose code does not fit its L1I.
EvictedCode == {[c \in Cores |-> reads({0}) \cup fetches({0, 2})]}

\* The hypothesis under which the L1D states drawn are proved to be true.
ASSUME FitsAssumption ==
  /\ \A W \in MCWorkloads : code_fits(W)
  /\ \A W \in EvictedCode : ~code_fits(W)
=============================================================================
