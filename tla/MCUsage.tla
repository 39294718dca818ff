------------------------------- MODULE MCUsage -------------------------------
(* An instance of Usage, with the lists it reads, for TLC.                  *)
EXTENDS Usage, TLC

Symmetry == Permutations(Rows)
=============================================================================
