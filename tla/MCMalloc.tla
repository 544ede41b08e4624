------------------------------ MODULE MCMalloc ------------------------------
(***************************************************************************)
(* Symmetry for the runs of module Malloc: no call tells the pointers      *)
(* apart.                                                                  *)
(***************************************************************************)
EXTENDS Malloc, TLC

MCSymmetry == Permutations(Pointers)

=============================================================================
