------------------------------ MODULE LpcParts ------------------------------
(***************************************************************************)
(* The parts the tools know (parts.h, lpctools_parts.def), the write-block *)
(* arithmetic lpcprog derives from a part (prog_commands.c), and the image *)
(* files it is asked to program.  Memory is modelled per page: one page is *)
(* one write block of lpcprog, and its content is a symbolic value.        *)
(***************************************************************************)
EXTENDS Integers, FiniteSets

CONSTANTS
  Parts,    \* the lines of the parts file, as part_desc records
  Unlisted, \* parts a board may carry that the parts file does not describe
  Files     \* the image files a user may pass to "flash"

(***************************************************************************)
(* Part descriptors.                                                       *)
(***************************************************************************)
PartDesc == [part_id: Nat, flash_size: Nat, flash_nb_sectors: Nat \ {0},
             ram_size: Nat, ram_buff_offset: Nat, ram_buff_size: Nat,
             uuencode: {0, 1}]

Devices == Parts \cup Unlisted

(* Last code of the table error_codes, and the largest number that fits in *)
(* the three characters read of a code: no part has so small an id.        *)
LastCode == 19
LargestRead == 999

(* main holds the id in an int: a larger one comes back negative, and the  *)
(* target counts as not connected.                                         *)
LargestInt == 2147483647

(* 0x200 + 0xFC : where the boot loader looks for the protection pattern.  *)
CRP_OFFSET == 764

SectorSize(p) == p.flash_size \div p.flash_nb_sectors

(* Block sizes the copy command of the boot loader accepts.                *)
BlockSizes == {64, 256, 512, 1024, 4096}

(* The largest legal block that fits both in a sector and in the RAM       *)
(* buffer, 0 when there is none.                                           *)
WriteSize(p) ==
  LET fits == {s \in BlockSizes : s <= SectorSize(p) /\ s <= p.ram_buff_size}
  IN  IF fits = {} THEN 0 ELSE CHOOSE s \in fits : \A t \in fits : t <= s

(* A part lpcprog can not write is still blank-checked, by whole sectors.  *)
PageSize(p) == IF WriteSize(p) = 0 THEN SectorSize(p) ELSE WriteSize(p)
Pages(p)    == 0 .. (p.flash_size \div PageSize(p)) - 1
Sectors(p)  == 0 .. p.flash_nb_sectors - 1
SectorOf(p, b) == (b * PageSize(p)) \div SectorSize(p)

(* The whole block lpcprog stages lies inside the RAM of the part.         *)
BufferFits(p) == p.ram_buff_offset + WriteSize(p) <= p.ram_size

(***************************************************************************)
(* Image files.  What the program looks at is the size, whether entry 7 of *)
(* the vector table already balances entries 0 to 6, the protection word,  *)
(* and, for "go", where the reset vector points.                           *)
(***************************************************************************)
Entries == {"low", "thumb", "arm", "unmapped"}
FileDesc == [name: STRING, readable: BOOLEAN, size: Nat, vectors: BOOLEAN,
             crp: BOOLEAN, entry: Entries]

MinOf(a, b) == IF a <= b THEN a ELSE b

(* isp_file_to_buff reads at most one flash full of the file.              *)
LoadedSize(f, p) == IF f.readable THEN MinOf(f.size, p.flash_size) ELSE -13

(* Number of write blocks needed for the bytes that were loaded.           *)
Blocks(f, p) ==
  LET size == LoadedSize(f, p)
      ws == WriteSize(p)
  IN  (size \div ws) + (IF size % ws > 0 THEN 1 ELSE 0)

(***************************************************************************)
(* Symbolic content of one page of flash, or of the RAM buffer.  A page of *)
(* an image is told from the same page with a recomputed entry 7.          *)
(***************************************************************************)
Kinds == {"blank", "old", "garbage", "image"}
NoFile == [name |-> "", readable |-> FALSE, size |-> 0, vectors |-> FALSE,
           crp |-> FALSE, entry |-> "unmapped"]
Contents == [kind: Kinds, file: Files \cup {NoFile}, patched: BOOLEAN, page: Nat]

Plain(k) == [kind |-> k, file |-> NoFile, patched |-> FALSE, page |-> 0]
Blank   == Plain("blank")
Old     == Plain("old")
Garbage == Plain("garbage")

(* Block b of the buffer flash_target programs for file f.                 *)
ImagePage(f, patched, b) ==
  [kind |-> "image", file |-> f, patched |-> patched /\ b = 0, page |-> b]

(***************************************************************************)
(* What the tools take for granted of the parts and files they are given.  *)
(***************************************************************************)
ASSUME PartsAssumption ==
  /\ Parts \subseteq PartDesc
  /\ Unlisted \subseteq PartDesc
  /\ \A p, q \in Devices : p.part_id = q.part_id => p = q
  /\ \A p \in Devices : p.part_id > LargestRead /\ p.part_id <= LargestInt

(* Sectors hold a whole number of pages, and the protection word that      *)
(* flash_target reads lies inside its buffer.                              *)
ASSUME GeometryAssumption ==
  \A p \in Devices :
    /\ p.flash_size > CRP_OFFSET + 3
    /\ SectorSize(p) > 0
    /\ \A b \in Pages(p) :
         /\ SectorOf(p, b) \in Sectors(p)
         /\ ((b + 1) * PageSize(p) - 1) \div SectorSize(p) = SectorOf(p, b)

ASSUME FilesAssumption ==
  /\ Files \subseteq FileDesc
  /\ NoFile \notin Files
  /\ \A f \in Files : f.crp => f.size > CRP_OFFSET + 3
=============================================================================
