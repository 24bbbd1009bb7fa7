-------------------------- MODULE MCPayloadUpdate --------------------------
(***************************************************************************)
(* Bounded instance of PayloadUpdate for TLC.                              *)
(***************************************************************************)
EXTENDS PayloadUpdate
=============================================================================
