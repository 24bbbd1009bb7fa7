----------------------------- MODULE MCUsbFifo -----------------------------
(***************************************************************************)
(* Bounded instance of UsbFifo for TLC.                                    *)
(***************************************************************************)
EXTENDS UsbFifo, TLC

IdSymmetry == Permutations(Ids)
=============================================================================
