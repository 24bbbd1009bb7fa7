--------------------------- MODULE MCDfuInstall ---------------------------
(***************************************************************************)
(* Bounded instance of DfuInstall for TLC.                                 *)
(***************************************************************************)
EXTENDS DfuInstall
=============================================================================
