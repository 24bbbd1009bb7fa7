---------------------------- MODULE MCChunkRead ----------------------------
(***************************************************************************)
(* Bounded instance of ChunkRead for TLC.                                  *)
(***************************************************************************)
EXTENDS ChunkRead
=============================================================================
