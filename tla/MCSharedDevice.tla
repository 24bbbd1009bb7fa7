--------------------------- MODULE MCSharedDevice ---------------------------
(***************************************************************************)
(* Bounded instance of SharedDevice for TLC.                               *)
(***************************************************************************)
EXTENDS SharedDevice, TLC

\* Processes run the same code: safety runs may permute them.
ProcSymmetry == Permutations(Procs)
=============================================================================
