---------------------------- MODULE MCSwapFstab ----------------------------
(* SwapFstab for TLC.  The processes are interchangeable, and the           *)
(* properties checked with symmetry are safety properties.                  *)
EXTENDS SwapFstab, TLC

ProcSymmetry == Permutations(Procs)
=============================================================================
