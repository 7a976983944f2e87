------------------------------ MODULE MCSpace -------------------------------
(***************************************************************************)
(* Model-checking instance of AddressSpace: the processes may be permuted, *)
(* since every operation treats them alike.                                *)
(***************************************************************************)
EXTENDS AddressSpace, TLC

\* The hypotheses of the theorems about AddressSpace hold of this instance.
ASSUME HypothesesAssumption == LowerHalf /\ Distinct

ProcSymmetry == Permutations(Procs)
=============================================================================
