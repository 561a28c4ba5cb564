---------------------------- MODULE MCReadMemory ----------------------------
(* Sizes for model-checking ReadMemory: one to three blocks, the last one  *)
(* whole or not.                                                           *)
EXTENDS ReadMemory

SomeCounts == 1 .. 6
=============================================================================
