---------------------------- MODULE EncodedBlocks ----------------------------
(***************************************************************************)
(* The blocks of the encoded transfers of isp_commands.c, each followed by *)
(* its checksum: isp_send_buf_to_ram and isp_read_memory divide the data   *)
(* in the same way.  Bytes are given by their offset in the data.          *)
(***************************************************************************)
EXTENDS Integers, Sequences

CONSTANT MAX_DATA_BLOCK_SIZE

ASSUME BlockSizeAssumption == MAX_DATA_BLOCK_SIZE \in Nat \ {0}

Bytes(from, to) == [n \in 1 .. to - from |-> from + n - 1]

MinOf(a, b) == IF a <= b THEN a ELSE b

(* LINES_PER_BLOCK lines to a block, the last one may be shorter.          *)
get_nb_blocks(size) ==
  (size \div MAX_DATA_BLOCK_SIZE) + (IF size % MAX_DATA_BLOCK_SIZE > 0 THEN 1 ELSE 0)
=============================================================================
