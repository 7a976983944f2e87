------------------------------- MODULE MCMesi -------------------------------
(***************************************************************************)
(* Model-checking instance of MesiProtocol: cores are interchangeable.     *)
(***************************************************************************)
EXTENDS MesiProtocol, TLC

CoreSymmetry == Permutations(Cores)
=============================================================================
