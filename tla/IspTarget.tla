----------------------------- MODULE IspTarget ------------------------------
(***************************************************************************)
(* The boot loader of the target, as the tools meet it at the other end of *)
(* the serial line: external to the repository, modelled from what the     *)
(* tools send, the replies they expect and the codes they name             *)
(* (isp_commands.h).                                                       *)
(*                                                                         *)
(* A reply is a sequence of numbers, each the value strtoul makes of one   *)
(* line of text; the two texts the handshake compares are negative.        *)
(***************************************************************************)
EXTENDS LpcParts, Sequences

CONSTANTS
  Refusals,  \* codes the boot loader may answer a legal command with (BUSY..)
  Words      \* values of the words it prints: blank-check content, uid, version

VARIABLES
  part,      \* the part on the board
  mode,      \* how far the boot loader is in its handshake, or "running"
  echo,      \* it sends back every line it receives
  pending,   \* its input: at a "line" start, after "stray" characters, in "data"
  unlocked,  \* flash commands are enabled
  prepared,  \* the sectors prepared for erase or copy
  ram,       \* content of the RAM buffer the tools stage blocks in
  flash,     \* content of each page
  rx         \* answers on their way to the host, read or not yet

target == <<mode, echo, pending, unlocked, prepared, ram, flash>>

CMD_SUCCESS == 0
INVALID_COMMAND == 1
INVALID_SECTOR == 7
SECTOR_NOT_BLANK == 8
SECTOR_NOT_PREPARED_FOR_WRITE_OPERATION == 9
PARAM_ERROR == 12
COMPARE_ERROR == 10
ADDR_ERROR == 13
ADDR_NOT_MAPPED == 14
CMD_LOCKED == 15

SYNCHRO    == -1    \* "Synchronized"
SYNCHRO_OK == -2    \* "OK", also the acknowledge of a block of data
RESEND     == -3    \* "RESEND"

ASSUME RepliesAssumption ==
  /\ Refusals \subseteq (1 .. LastCode) \ {CMD_LOCKED, SECTOR_NOT_PREPARED_FOR_WRITE_OPERATION}
  /\ Words \subseteq Nat /\ Words # {}
  /\ \A p \in Devices : p.part_id \notin Words

Tokens == Nat \cup {SYNCHRO, SYNCHRO_OK, RESEND}
(* What this target sends: the only long number besides its id is a word.  *)
Genuine == {t \in Tokens : t > LargestRead => t = part.part_id \/ t \in Words}

Modes  == {"reset", "half", "ask", "synced", "running"}

(* What strtoul makes of a reply line: 0 when it does not start with a     *)
(* number, an echoed command line included.                                *)
NumberOf(t) == IF t < 0 THEN 0 ELSE t

(* Only three characters are read of a code; LargestRead stands for the    *)
(* leading digits of any longer number.                                    *)
CodeOf(t) == MinOf(NumberOf(t), LargestRead)

TargetTypeOK ==
  /\ part \in Devices
  /\ mode \in Modes
  /\ echo \in BOOLEAN
  /\ pending \in {"line", "stray", "data"}
  /\ unlocked \in BOOLEAN
  /\ prepared \subseteq Sectors(part)
  /\ ram \in Contents
  /\ flash \in [Pages(part) -> Contents]
  /\ rx \in Seq(Genuine)

BlankSectors(S) == \A b \in Pages(part) : SectorOf(part, b) \in S => flash[b] = Blank

(* Power-up or reset into the boot loader, with whatever was programmed.   *)
TargetInit ==
  /\ part \in Devices
  /\ mode = "reset"
  /\ echo = TRUE
  /\ pending = "line"
  /\ unlocked = FALSE
  /\ prepared = {}
  /\ ram = Garbage
  /\ rx = <<>>
  /\ flash \in {[b \in Pages(part) |-> Old]} \cup
               {[b \in Pages(part) |-> IF SectorOf(part, b) = 0 THEN Blank ELSE Old]}

(* The reset button: everything but the flash is lost.                     *)
Restarted ==
  /\ mode' = "reset"
  /\ echo' = TRUE
  /\ pending' = "line"
  /\ unlocked' = FALSE
  /\ prepared' = {}
  /\ ram' = Garbage

(***************************************************************************)
(* Commands.  Each of the following is what a synchronised boot loader,    *)
(* waiting for a line, does with one command, and what it answers.         *)
(***************************************************************************)
Answer(text) == rx' = rx \o (IF echo THEN <<0>> ELSE <<>>) \o text

Refused ==
  /\ \E code \in Refusals : Answer(<<code>>)
  /\ UNCHANGED target

(* A line that is no command, such as a text of the handshake.             *)
Unknown ==
  /\ Answer(<<INVALID_COMMAND>>)
  /\ UNCHANGED target

ReadPartId ==
  /\ Answer(<<CMD_SUCCESS, part.part_id>>)
  /\ UNCHANGED target

ReadUidOrVersion ==
  /\ \E w \in Words : Answer(<<CMD_SUCCESS, w>>)
  /\ UNCHANGED target

Unlock ==
  /\ Answer(<<CMD_SUCCESS>>)
  /\ unlocked' = TRUE
  /\ UNCHANGED <<mode, echo, pending, prepared, ram, flash>>

(* The commands on sectors name a first and a last one.                    *)

(* Mutant of KnownSectors: one sector too many.                            *)
KnownSectorsAndOne(S) == S \subseteq 0 .. part.flash_nb_sectors

KnownSectors(S) == S \subseteq Sectors(part)

WrongSectors ==
  /\ Answer(<<INVALID_SECTOR>>)
  /\ UNCHANGED target

BlankCheck(S) ==
  /\ IF BlankSectors(S) THEN Answer(<<CMD_SUCCESS>>)
     ELSE \E w \in Words : Answer(<<SECTOR_NOT_BLANK, 0, w>>)
  /\ UNCHANGED target

Prepare(S) ==
  /\ Answer(<<CMD_SUCCESS>>)
  /\ prepared' = S
  /\ UNCHANGED <<mode, echo, pending, unlocked, ram, flash>>

(* Erase and copy consume the preparation and demand it, after the unlock. *)
NotReady(S) ==
  /\ ~unlocked \/ ~(S \subseteq prepared)
  /\ Answer(<<IF unlocked THEN SECTOR_NOT_PREPARED_FOR_WRITE_OPERATION ELSE CMD_LOCKED>>)
  /\ UNCHANGED target

Erase(S) ==
  /\ unlocked /\ S \subseteq prepared
  /\ Answer(<<CMD_SUCCESS>>)
  /\ prepared' = {}
  /\ flash' = [b \in Pages(part) |-> IF SectorOf(part, b) \in S THEN Blank ELSE flash[b]]
  /\ UNCHANGED <<mode, echo, pending, unlocked, ram>>

(* Flash cells only go from 1 to 0: writing a page twice mixes the two.    *)
Copy(b) ==
  /\ unlocked /\ SectorOf(part, b) \in prepared
  /\ Answer(<<CMD_SUCCESS>>)
  /\ prepared' = {}
  /\ flash' = [flash EXCEPT ![b] = IF @ = Blank THEN ram ELSE Garbage]
  /\ UNCHANGED <<mode, echo, pending, unlocked, ram>>

WriteRam ==
  \/ /\ BufferFits(part)
     /\ Answer(<<CMD_SUCCESS>>)
     /\ pending' = "data"
     /\ UNCHANGED <<mode, echo, unlocked, prepared, ram, flash>>
  \/ /\ ~BufferFits(part)
     /\ Answer(<<ADDR_NOT_MAPPED>>)
     /\ UNCHANGED target

(* Data or a place the memory of the part does not have.                   *)
NotMapped ==
  /\ Answer(<<ADDR_NOT_MAPPED>>)
  /\ UNCHANGED target

(* The RAM buffer against a page of flash, and where they first differ.    *)
Compare(b) ==
  /\ \/ ram = flash[b] /\ Answer(<<CMD_SUCCESS>>)
     \/ /\ ram # flash[b] \/ ram = Garbage
        /\ \E w \in Words : Answer(<<COMPARE_ERROR, w>>)
  /\ UNCHANGED target

ReadMemory ==
  /\ Answer(<<CMD_SUCCESS>>)
  /\ UNCHANGED target

Go(mapped) ==
  \/ /\ unlocked /\ mapped
     /\ Answer(<<CMD_SUCCESS>>)
     /\ mode' = "running"
     /\ UNCHANGED <<echo, pending, unlocked, prepared, ram, flash>>
  \/ /\ ~(unlocked /\ mapped)
     /\ Answer(<<IF unlocked THEN ADDR_ERROR ELSE CMD_LOCKED>>)
     /\ UNCHANGED target

Execute(op, arg) ==
  \/ Refused
  \/ op = "J" /\ ReadPartId
  \/ op \in {"N", "K"} /\ ReadUidOrVersion
  \/ op = "U" /\ Unlock
  \/ op \in {"I", "P", "E"} /\ ~KnownSectors(arg) /\ WrongSectors
  \/ op = "I" /\ KnownSectors(arg) /\ BlankCheck(arg)
  \/ op = "P" /\ KnownSectors(arg) /\ Prepare(arg)
  \/ op = "E" /\ KnownSectors(arg) /\ (Erase(arg) \/ NotReady(arg))
  \/ op = "C" /\ (Copy(arg) \/ NotReady({SectorOf(part, arg)}))
  \/ op = "M" /\ Compare(arg)
  \/ op = "X" /\ NotMapped
  \/ op = "W" /\ WriteRam
  \/ op = "R" /\ ReadMemory
  \/ op = "G" /\ Go(arg = 1)
  \/ op = "?" /\ Unknown

(***************************************************************************)
(* Obey(op, arg): a whole command line reaches the target.                 *)
(***************************************************************************)
Obey(op, arg) ==
  \/ /\ mode = "synced" /\ pending = "line"
     /\ Execute(op, arg)
  \/ \* characters left over from an earlier write spoil the line
     /\ mode = "synced" /\ pending = "stray"
     /\ Answer(<<INVALID_COMMAND>>)
     /\ pending' = "line"
     /\ UNCHANGED <<mode, echo, unlocked, prepared, ram, flash>>
  \/ \* still waiting for data: the line is taken as data
     /\ mode = "synced" /\ pending = "data"
     /\ UNCHANGED rx
     /\ pending' \in {"data", "line"}
     /\ ram' = Garbage
     /\ UNCHANGED <<mode, echo, unlocked, prepared, flash>>
  \/ \* anything will do as the crystal frequency
     /\ mode = "ask"
     /\ Answer(<<SYNCHRO_OK>>)
     /\ mode' = "synced" /\ pending' = "line"
     /\ UNCHANGED <<echo, unlocked, prepared, ram, flash>>
  \/ \* not the word expected: back to waiting for the "?"
     /\ mode = "half"
     /\ UNCHANGED rx
     /\ mode' = "reset" /\ pending' = "line"
     /\ UNCHANGED <<echo, unlocked, prepared, ram, flash>>
  \/ /\ mode \in {"reset", "running"}
     /\ UNCHANGED rx
     /\ UNCHANGED target

(* The reset button pressed while a sector is erased or a page copied: the *)
(* cells concerned are left in between.                                    *)
CutShort(op, arg) ==
  /\ mode = "synced" /\ pending = "line" /\ unlocked
  /\ Restarted /\ UNCHANGED rx
  /\ \/ /\ op = "E" /\ arg \subseteq prepared
        /\ flash' = [b \in Pages(part) |->
                       IF SectorOf(part, b) \in arg THEN Garbage ELSE flash[b]]
     \/ /\ op = "C" /\ SectorOf(part, arg) \in prepared
        /\ flash' = [flash EXCEPT ![arg] = Garbage]

(***************************************************************************)
(* The four texts of the handshake.                                        *)
(***************************************************************************)
HearQuestion ==
  \/ /\ mode = "reset"
     /\ mode' = "half" /\ rx' = Append(rx, SYNCHRO)
     /\ UNCHANGED <<echo, pending, unlocked, prepared, ram, flash>>
  \/ \* a "?" with no end of line waits for the rest of its line
     /\ mode \in {"half", "ask", "synced"}
     /\ rx' = rx \o (IF echo /\ mode # "half" THEN <<0>> ELSE <<>>)
     /\ pending' = IF pending = "data" THEN "data" ELSE "stray"
     /\ UNCHANGED <<mode, echo, unlocked, prepared, ram, flash>>
  \/ /\ mode = "running" /\ UNCHANGED rx /\ UNCHANGED target

HearSynchronized ==
  \/ /\ mode = "half" /\ pending = "line"
     /\ mode' = "ask" /\ Answer(<<SYNCHRO_OK>>)
     /\ UNCHANGED <<echo, pending, unlocked, prepared, ram, flash>>
  \/ /\ ~(mode = "half" /\ pending = "line")
     /\ Obey("?", 0)

HearFrequency == Obey("?", 0)

HearEchoOff ==
  \/ mode = "synced" /\ pending = "line" /\ Refused
  \/ /\ mode = "synced" /\ pending = "line"
     /\ Answer(<<CMD_SUCCESS>>)
     /\ echo' = FALSE
     /\ UNCHANGED <<mode, pending, unlocked, prepared, ram, flash>>
  \/ /\ ~(mode = "synced" /\ pending = "line")
     /\ Obey("?", 0)
=============================================================================
