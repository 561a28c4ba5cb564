---------------------------- MODULE MCSerialLine -----------------------------
(* All short texts of lines, some with flow control, and the blocks of a   *)
(* read-memory in lines of six bytes; the calls the tools make.          *)
EXTENDS SerialLine

C == 99
ShortTexts  == UNION {[1 .. n -> {C, CR, LF}] : n \in 0 .. 3}
              \cup {<<C, CR>> \o t : t \in [1 .. 2 -> {C, CR, LF}]}
Interrupted == {<<XOFF>>, <<C, XOFF, CR, XON, LF>>, <<XON, C, C, XOFF>>}

(* Data of one line, whole or not, of a line and a half, of two full ones, *)
(* and what follows it.                                                    *)
SomeBlocks ==
  {<< <<0>>, <<0, 0>> >>, << <<0>>, <<77, 255>> >>,
   << <<19, 0, 0, 1, 16, 17>>, <<3, 4>> >>,
   << <<0, 0, 0, 63, 240, 3, 85, 170>>, <<1, 2>> >>,
   << <<17, 19, 10, 13, 0, 254, 1, 2, 4, 8, 16, 32>>, <<0, 0>> >>}
SomeTexts == ShortTexts \cup Interrupted

SomeReads  == {<<1, 1>>, <<3, 2>>, <<3, 0>>}
              \cup {<<30, get_remaining_blocksize(Len(b[1]))>> : b \in SomeBlocks}
SomeWrites == {0, 3}
=============================================================================
