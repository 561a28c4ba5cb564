------------------------------ MODULE MCLpcProg ------------------------------
(* Small parts, files and command lines for model-checking LpcProg.        *)
EXTENDS LpcProg

Part(id, size, nb, offset, buff, uu) ==
  [part_id |-> id, flash_size |-> size, flash_nb_sectors |-> nb,
   ram_size |-> 1024, ram_buff_offset |-> offset, ram_buff_size |-> buff,
   uuencode |-> uu]

(* Two sectors of two pages, encoded and raw; a board that is not listed.  *)
Encoded == Part(10000, 1024, 2, 512, 256, 1)
Raw     == Part(10001, 1024, 2, 512, 256, 0)
Strange == Part(2000, 1024, 2, 512, 256, 1)

(* Descriptions flash_target refuses, or should: no legal block size, a    *)
(* buffer beyond RAM, a buffer at the very end of RAM, a flash that is not *)
(* a whole number of blocks.                                               *)
NoBlock == Part(10002, 1024, 2, 512, 32, 1)
OutRam  == Part(10003, 1024, 2, 1025, 256, 1)
EdgeRam == Part(10004, 1024, 2, 1024, 256, 1)
Odd     == Part(10005, 1000, 1, 0, 512, 1)

File(name, size, vectors, crp, entry) ==
  [name |-> name, readable |-> TRUE, size |-> size, vectors |-> vectors,
   crp |-> crp, entry |-> entry]

Small  == File("small", 100, FALSE, FALSE, "thumb")
Middle == File("middle", 600, TRUE, FALSE, "low")
Full   == File("full", 1000, FALSE, FALSE, "arm")
Big    == File("big", 2000, FALSE, FALSE, "thumb")
Crp    == File("crp", 800, TRUE, TRUE, "thumb")
Empty  == File("empty", 0, FALSE, FALSE, "thumb")
Gone   == [Small EXCEPT !.name = "gone", !.readable = FALSE]

AllFiles == {Small, Middle, Full, Big, Crp, Empty, Gone}

Inv(c, f, p) == [cmd |-> c, file |-> f, patch |-> p]

OtherInvocations ==
  {Inv("dump", Small, TRUE), Inv("dump", NoFile, TRUE), Inv("flash", NoFile, TRUE),
   Inv("id", NoFile, TRUE), Inv("go", NoFile, TRUE), Inv("other", NoFile, TRUE)}
FlashInvocations ==
  {Inv("flash", f, p) : f \in AllFiles, p \in BOOLEAN}
AllInvocations ==
  OtherInvocations \cup FlashInvocations \cup {Inv("blank", NoFile, TRUE)}

(* An image, a protected one, one whose vectors do not add up, and erasing.*)
SlowInvocations ==
  {Inv("flash", Full, TRUE), Inv("flash", Crp, TRUE), Inv("flash", Small, FALSE),
   Inv("blank", NoFile, TRUE)}

(* Flashing two images, and erasing.                                       *)
FewInvocations ==
  {Inv("flash", Middle, FALSE), Inv("flash", Full, TRUE), Inv("blank", NoFile, TRUE)}

BothParts == {Encoded, Raw}
EncodedParts == {Encoded}
OddParts     == {Encoded, Raw, NoBlock, OutRam, EdgeRam, Odd}
NoParts      == {}
StrangeParts == {Strange}

FewRefusals == {11}
FewWords    == {0, 7}
=============================================================================
