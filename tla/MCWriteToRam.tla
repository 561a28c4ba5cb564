---------------------------- MODULE MCWriteToRam ----------------------------
(* Sizes for model-checking WriteToRam: one to three blocks, the last one  *)
(* whole or not.                                                           *)
EXTENDS WriteToRam

SomeCounts == 1 .. 6
TwoBlocks  == {3}
=============================================================================
