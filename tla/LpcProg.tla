------------------------------- MODULE LpcProg -------------------------------
(***************************************************************************)
(* lpcprog (lpcprog.c, prog_commands.c) talking to the boot loader of the  *)
(* target over the serial line: one run of the program after another, each *)
(* connecting, identifying the part and executing one command, with the    *)
(* line losing or delaying text, the program killed and the reset button   *)
(* pressed at any moment.                                                  *)
(*                                                                         *)
(* The Ask steps write a line, the Read steps read the answer and go on to *)
(* the next write.  The transfer of a block of data is one step here.      *)
(***************************************************************************)
EXTENDS IspCommands

CONSTANTS
  Invocations, \* the command lines users give: command, file, calc_user_code
  MaxStarts, \* bound on the runs of the program
  MaxResets  \* bound on the presses of the reset button

Commands == {"dump", "flash", "id", "blank", "go", "other"}

ASSUME LineAssumption ==
  /\ SlowLine \in BOOLEAN /\ NoisyLine \in BOOLEAN
  /\ Invocations \subseteq [cmd: Commands, file: Files \cup {NoFile}, patch: BOOLEAN]
  /\ MaxStarts \in Nat /\ MaxResets \in Nat

VARIABLES
  cmd,     \* the command line: command, ...
  file,    \* ... file argument (NoFile: none) ...
  patch,   \* ... and calc_user_code
  dev_id,  \* the id read from the target
  desc,    \* the part_desc found for it
  i,       \* loop counter of the command: sector, block or question
  addr,    \* the reset address "go" read from flash
  dump,    \* what "dump" wrote in its output file
  ret,     \* value of prog_handle_command (-1 also: main gave up before it)
  starts, resets

arguments == <<cmd, file, patch>>
host  == <<pc, asked, arguments, dev_id, desc, i, addr, dump, ret>>
bounds == <<starts, resets>>
vars  == <<part, target, rx, host, bounds>>

Handshake == {"question", "synchro", "freq", "echo"}
Flashing  == {"prep", "ram", "data", "copy"}
Erasing   == {"unlock", "check", "eprep", "erase"}
Working   == Erasing \cup {"load"} \cup Flashing \cup
             {"dump", "id", "goaddr", "gounlock", "gorun"}
Places    == {"idle", "exit", "probe", "ident", "dispatch"} \cup Handshake \cup Working

NoPart == [part_id |-> 0]

Init ==
  /\ TargetInit
  /\ pc = "idle" /\ asked = "no"
  /\ cmd = "other" /\ file = NoFile /\ patch = TRUE
  /\ dev_id = 0 /\ desc = NoPart
  /\ i = 0 /\ addr = "unmapped" /\ dump = "none" /\ ret = 0
  /\ starts = 0 /\ resets = 0

(***************************************************************************)
(* The steps of a command.                                                 *)
(***************************************************************************)
Write(at, heard) ==
  /\ Send(at, heard)
  /\ UNCHANGED <<arguments, dev_id, desc, i, addr, dump, ret, bounds>>

Ask(at, op, arg) == Write(at, Obey(op, arg))

Goto(place) == pc' = place /\ UNCHANGED ret
Return(r)   == pc' = "exit" /\ ret' = r

(***************************************************************************)
(* isp_connect: four texts, each answered.  Every failure of the handshake *)
(* goes on to the probe of prog_connect_and_id, as does an earlier session *)
(* that the target still holds.                                            *)
(***************************************************************************)
AskQuestion == Write("question", HearQuestion)
AskSynchro  == Write("synchro", HearSynchronized)
AskFreq     == Write("freq", HearFrequency)
AskEchoOff  == Write("echo", HearEchoOff)

Handshaking == UNCHANGED <<arguments, dev_id, desc, i, addr, dump, bounds>>

(* The answer to "?" is read without waiting for an end of line.           *)
ReadSynchronized ==
  /\ Reading("question")
  /\ \/ /\ Greeted
        /\ \E s \in Remainders(Tail(rx)) : Unread(s)
        /\ Goto("synchro")
     \/ /\ ~Greeted
        /\ \E s \in Remainders(rx) : Unread(s)
        /\ Goto("probe")
     \/ Unread(<<>>) /\ Goto("probe")
  /\ Handshaking

(* That the write was cut short is not looked at.                          *)
ReadSynchroOk ==
  /\ Reading("synchro")
  /\ \E a \in Acknowledges :
       Unread(a.rest) /\ Goto(IF a.found = "ok" THEN "freq" ELSE "probe")
  /\ Handshaking

(* With no answer the buffer still holds the "OK" of the step before.      *)
ReadFreqOk ==
  /\ Reading("freq")
  /\ \E a \in Acknowledges :
       Unread(a.rest) /\ Goto(IF a.found = "other" THEN "probe" ELSE "echo")
  /\ Handshaking

(* The answer to "A 0" is read and not looked at.                          *)
ReadEchoOff ==
  /\ Reading("echo")
  /\ \E s \in Remainders(rx) : Unread(s)
  /\ Goto("ident")
  /\ Handshaking

(***************************************************************************)
(* prog_connect_and_id after isp_connect, and main's test of the id.       *)
(***************************************************************************)
AskProbe == Ask("probe", "J", 0)
AskIdent == Ask("ident", "J", 0)

ReadProbe ==
  /\ Reading("probe")
  /\ \E g \in Replies : \E p \in PartIds(g) : Unread(p.rest)
  /\ Goto("ident")
  /\ Handshaking

ReadIdent ==
  /\ Reading("ident")
  /\ \E g \in Replies : \E p \in PartIds(g) :
       /\ Unread(p.rest)
       /\ dev_id' = p.id
       /\ IF p.id < 0 THEN Return(-1) ELSE Goto("dispatch")
  /\ UNCHANGED <<arguments, desc, i, addr, dump, bounds>>

(***************************************************************************)
(* prog_handle_command: the part, the command, its argument, and for flash *)
(* the two sanity checks flash_target makes before it touches the target.  *)
(***************************************************************************)
Rejection(p) ==
  CASE cmd = "other" -> -3
    [] cmd \in {"dump", "flash"} /\ file = NoFile -> -4
    [] cmd = "flash" /\ p.ram_buff_offset > p.ram_size -> -1
    [] cmd = "flash" /\ p.ram_buff_offset <= p.ram_size /\ WriteSize(p) = 0 -> -2
    [] OTHER -> 0

FirstPlace == [flash |-> "unlock", blank |-> "unlock", dump |-> "dump",
               id |-> "id", go |-> "goaddr", other |-> "exit"]

(* Mutant of Dispatch: a part that is not found is taken for another one.  *)
DispatchAnyPart ==
  /\ pc = "dispatch"
  /\ \E p \in Parts :
       /\ p.part_id = dev_id \/ \A q \in Parts : q.part_id # dev_id
       /\ desc' = p
       /\ i' = 0
       /\ IF Rejection(p) # 0 THEN Return(Rejection(p)) ELSE Goto(FirstPlace[cmd])
  /\ UNCHANGED <<part, target, rx, asked, arguments, dev_id, addr, dump, bounds>>

Dispatch ==
  /\ pc = "dispatch"
  /\ \/ /\ \A p \in Parts : p.part_id # dev_id
        /\ Return(-2)
        /\ UNCHANGED <<desc, i>>
     \/ \E p \in Parts :
          /\ p.part_id = dev_id
          /\ desc' = p
          /\ i' = 0
          /\ IF Rejection(p) # 0 THEN Return(Rejection(p)) ELSE Goto(FirstPlace[cmd])
  /\ UNCHANGED <<part, target, rx, asked, arguments, dev_id, addr, dump, bounds>>

(***************************************************************************)
(* erase_flash, for "blank" and at the start of "flash".                   *)
(***************************************************************************)
AskUnlock     == Ask("unlock", "U", 0)
AskBlankCheck == pc = "check" /\ i < desc.flash_nb_sectors /\ Ask("check", "I", {i})
AskErasePrep  == Ask("eprep", "P", {i})
AskErase      == Ask("erase", "E", {i})

(* Any failure of erase_flash is -3 for flash_target.                      *)
EraseFailed(r) == Return(IF cmd = "flash" THEN -3 ELSE r)

EraseFrame == UNCHANGED <<arguments, dev_id, desc, addr, dump, bounds>>

ReadUnlock ==
  /\ Reading("unlock")
  /\ \E g \in Replies :
       /\ Unread(g.rest)
       /\ IF g.code # 0 THEN EraseFailed(-1) ELSE Goto("check")
  /\ UNCHANGED i /\ EraseFrame

(* Mutants of ReadBlankCheck: a timeout asks again for ever; a sector that *)
(* is not blank is passed over.                                            *)
ReadBlankCheckAgain ==
  /\ Reading("check")
  /\ \E g \in Replies :
       \/ g.code = 0 /\ Unread(g.rest) /\ i' = i + 1 /\ Goto("check")
       \/ g.code < 0 /\ Unread(g.rest) /\ UNCHANGED i /\ Goto("check")
       \/ /\ g.code > 0
          /\ \E s \in Remainders(g.rest) : Unread(s)
          /\ UNCHANGED i /\ Goto("eprep")
  /\ EraseFrame

ReadBlankCheckPassOver ==
  /\ Reading("check")
  /\ \E g \in Replies :
       \/ g.code = 0 /\ Unread(g.rest) /\ i' = i + 1 /\ Goto("check")
       \/ g.code < 0 /\ Unread(g.rest) /\ UNCHANGED i /\ EraseFailed(g.code)
       \/ g.code > 0 /\ Unread(<<>>) /\ i' = i + 1 /\ Goto("check")
  /\ EraseFrame

(* A positive code announces two more lines, which are read off the line.  *)
ReadBlankCheck ==
  /\ Reading("check")
  /\ \E g \in Replies :
       \/ g.code = 0 /\ Unread(g.rest) /\ i' = i + 1 /\ Goto("check")
       \/ g.code < 0 /\ Unread(g.rest) /\ UNCHANGED i /\ EraseFailed(g.code)
       \/ /\ g.code > 0
          /\ \E s \in Remainders(g.rest) : Unread(s)
          /\ UNCHANGED i /\ Goto("eprep")
  /\ EraseFrame

(* Mutant of ReadErasePrep: the code is not looked at.                     *)
ReadErasePrepBlind ==
  /\ Reading("eprep")
  /\ \E g \in Replies : Unread(g.rest)
  /\ Goto("erase")
  /\ UNCHANGED i /\ EraseFrame

ReadErasePrep ==
  /\ Reading("eprep")
  /\ \E g \in Replies :
       /\ Unread(g.rest)
       /\ IF g.code # 0 THEN EraseFailed(g.code) ELSE Goto("erase")
  /\ UNCHANGED i /\ EraseFrame

(* Mutants of ReadErase: the erased sector's turn comes back by one too    *)
(* many (it is checked again, from the sector before); the code is not     *)
(* looked at.                                                              *)
ReadEraseBack ==
  /\ Reading("erase")
  /\ \E g \in Replies :
       /\ Unread(g.rest)
       /\ IF g.code # 0 THEN EraseFailed(g.code) /\ UNCHANGED i
          ELSE i' = i - 1 /\ Goto("check")
  /\ EraseFrame

ReadEraseBlind ==
  /\ Reading("erase")
  /\ \E g \in Replies : Unread(g.rest)
  /\ i' = i + 1 /\ Goto("check")
  /\ EraseFrame

ReadErase ==
  /\ Reading("erase")
  /\ \E g \in Replies :
       /\ Unread(g.rest)
       /\ IF g.code # 0 THEN EraseFailed(g.code) /\ UNCHANGED i
          ELSE i' = i + 1 /\ Goto("check")
  /\ EraseFrame

(* Mutant of FlashNowBlank: the last sector is left out.                   *)
FlashNowBlankEarly ==
  /\ pc = "check" /\ asked = "no" /\ i = desc.flash_nb_sectors - 1
  /\ IF cmd = "flash" THEN Goto("load") ELSE Return(0)
  /\ UNCHANGED <<part, target, rx, asked, i>> /\ EraseFrame

(* Every sector has been seen blank or erased.                             *)
FlashNowBlank ==
  /\ pc = "check" /\ asked = "no" /\ i = desc.flash_nb_sectors
  /\ IF cmd = "flash" THEN Goto("load") ELSE Return(0)
  /\ UNCHANGED <<part, target, rx, asked, i>> /\ EraseFrame

(***************************************************************************)
(* flash_target: the image is looked at once the flash is blank.           *)
(***************************************************************************)
(* Mutant of ImageVerdict: the protection word is not looked at.           *)
ImageVerdictUnprotected ==
  LET size == LoadedSize(file, desc) IN
  CASE size <= 0 -> -5
    [] size > 0 /\ ~patch /\ ~file.vectors -> -5
    [] size > 0 /\ (patch \/ file.vectors)
       /\ Blocks(file, desc) * WriteSize(desc) > desc.flash_size -> -7
    [] OTHER -> 0

ImageVerdict ==
  LET size == LoadedSize(file, desc) IN
  CASE size <= 0 -> -5
    [] size > 0 /\ ~patch /\ ~file.vectors -> -5
    [] size > 0 /\ (patch \/ file.vectors) /\ file.crp -> -6
    [] size > 0 /\ (patch \/ file.vectors) /\ ~file.crp
       /\ Blocks(file, desc) * WriteSize(desc) > desc.flash_size -> -7
    [] OTHER -> 0

(* Mutant of LoadImage: the first block is left for later.                 *)
LoadImageSecondBlock ==
  /\ pc = "load"
  /\ \/ Return(-4) /\ UNCHANGED i
     \/ ImageVerdict # 0 /\ Return(ImageVerdict) /\ UNCHANGED i
     \/ ImageVerdict = 0 /\ Goto("prep") /\ i' = 1
  /\ UNCHANGED <<part, target, rx, asked>> /\ EraseFrame

(* -4: no memory for the buffer.                                           *)
LoadImage ==
  /\ pc = "load"
  /\ \/ Return(-4) /\ UNCHANGED i
     \/ ImageVerdict # 0 /\ Return(ImageVerdict) /\ UNCHANGED i
     \/ ImageVerdict = 0 /\ Goto("prep") /\ i' = 0
  /\ UNCHANGED <<part, target, rx, asked>> /\ EraseFrame

Page == ImagePage(file, patch, i)

AskPrepare == pc = "prep" /\ i < Blocks(file, desc) /\ Ask("prep", "P", {SectorOf(desc, i)})
AskRam     == Ask("ram", "W", 0)
AskCopy    == Ask("copy", "C", i)

ReadPrepare ==
  /\ Reading("prep")
  /\ \E g \in Replies :
       /\ Unread(g.rest)
       /\ IF g.code # 0 THEN Return(g.code) ELSE Goto("ram")
  /\ UNCHANGED i /\ EraseFrame

(* isp_send_buf_to_ram: a refusal of the command is -8.                    *)
ReadRam ==
  /\ Reading("ram")
  /\ \E g \in Replies :
       /\ Unread(g.rest)
       /\ IF g.code # 0 THEN Return(-8) ELSE Goto("data")
  /\ UNCHANGED i /\ EraseFrame

(* Mutant of ReadCopy: the code is not looked at.                          *)
ReadCopyBlind ==
  /\ Reading("copy")
  /\ \E g \in Replies : Unread(g.rest)
  /\ i' = i + 1 /\ Goto("prep")
  /\ EraseFrame

ReadCopy ==
  /\ Reading("copy")
  /\ \E g \in Replies :
       /\ Unread(g.rest)
       /\ IF g.code # 0 THEN Return(g.code) /\ UNCHANGED i
          ELSE i' = i + 1 /\ Goto("prep")
  /\ EraseFrame

FlashDone ==
  /\ pc = "prep" /\ asked = "no" /\ i = Blocks(file, desc)
  /\ Return(0)
  /\ UNCHANGED <<part, target, rx, asked, i>> /\ EraseFrame

(***************************************************************************)
(* The data of isp_send_buf_to_ram.                                        *)
(***************************************************************************)
(* Mutant of SendEncoded: the copy is asked for without an acknowledge.    *)
SendEncodedBlind ==
  /\ pc = "data" /\ desc.uuencode = 1
  /\ UNCHANGED rx
  /\ InRam(Page) \/ Spilled(Page)
  /\ Goto("copy")
  /\ UNCHANGED <<part, asked, i>> /\ EraseFrame

(* Encoded data, every reply of the target read in one piece: each block   *)
(* was acknowledged with "OK" before anything else was read.               *)
SendEncoded ==
  /\ pc = "data" /\ desc.uuencode = 1
  /\ rx = <<>> /\ UNCHANGED rx
  /\ InRam(Page)
  /\ Goto("copy")
  /\ UNCHANGED <<part, asked, i>> /\ EraseFrame

(* An answer that comes late is taken for a request to send again: the     *)
(* target gets more than it asked for, and mixes it with the data or takes *)
(* it for command lines.                                                   *)
SendTwice ==
  /\ pc = "data" /\ desc.uuencode = 1
  /\ rx # <<>> /\ rx' \in {<<>>, <<INVALID_COMMAND>>}
  /\ InRam(Page) \/ InRam(Garbage)
  /\ Goto("copy")
  /\ UNCHANGED <<part, asked, i>> /\ EraseFrame

(* Raw data: nothing comes back, whatever became of the bytes.             *)
SendRaw ==
  /\ pc = "data" /\ desc.uuencode = 0
  /\ UNCHANGED rx
  /\ \/ InRam(Page)
     \/ NoisyLine /\ InRam(Garbage)
     \/ (NoisyLine \/ ~(mode = "synced" /\ pending = "data")) /\ Spilled(Page)
  /\ Goto("copy")
  /\ UNCHANGED <<part, asked, i>> /\ EraseFrame

(* Encoded: -6 the write failed, -5 no answer, -2 asked to send again too  *)
(* often.  Raw: -7 the write failed.                                       *)
SendFailed ==
  /\ pc = "data"
  /\ \E r \in IF desc.uuencode = 1 THEN {-6, -5, -2} ELSE {-7} : Return(r)
  /\ Spilled(Page)
  /\ \E s \in Remainders(rx \o <<RESEND>>) : rx' = s
  /\ UNCHANGED <<part, asked, i>> /\ EraseFrame

(***************************************************************************)
(* dump_to_file: whatever isp_read_memory returned, a buffer as big as the *)
(* flash goes to the file.  Also -10: no memory, -1: the file can not be   *)
(* opened, -2: nor written.                                                *)
(***************************************************************************)
AskDump == Ask("dump", "R", 0)

ReadDump ==
  /\ Reading("dump")
  /\ \E g \in Replies :
       /\ \E s \in Remainders(g.rest) : rx' = s
       /\ \E got \in IF g.code = 0 /\ mode = "synced" THEN {"whole", "part"} ELSE {"part"} :
            /\ pending' \in LeftWaiting(g.code, desc.uuencode = 1)
            /\ \/ dump' = got /\ Return(desc.flash_size)
               \/ dump' = "part" /\ Return(-2)
               \/ dump' = "none" /\ Return(-1)
  /\ UNCHANGED <<part, mode, echo, unlocked, prepared, ram, flash>>
  /\ UNCHANGED <<arguments, dev_id, desc, i, addr, bounds>>

DumpNoMemory ==
  /\ pc = "dump" /\ asked = "no"
  /\ Return(-10)
  /\ UNCHANGED <<part, target, rx, asked, arguments, dev_id, desc, i, addr, dump, bounds>>

(***************************************************************************)
(* get_ids: three questions, no answer of which is looked at.              *)
(***************************************************************************)
AskId == pc = "id" /\ i < 3 /\ Ask("id", <<"J", "N", "K">>[i + 1], 0)

ReadId ==
  /\ Reading("id")
  /\ \E g \in Replies :
       \E s \in IF g.code = 0 THEN Remainders(g.rest) ELSE {g.rest} : Unread(s)
  /\ i' = i + 1
  /\ IF i = 2 THEN Return(0) ELSE Goto("id")
  /\ UNCHANGED <<arguments, dev_id, desc, addr, dump, bounds>>

(***************************************************************************)
(* start_prog: read the reset vector, unlock, go.                          *)
(***************************************************************************)
GoFrame == UNCHANGED <<arguments, dev_id, desc, i, dump, bounds>>

AskVector   == Ask("goaddr", "R", 0)
AskGoUnlock == Ask("gounlock", "U", 0)
AskGo       == addr # "low" /\ Ask("gorun", "G", IF addr = "unmapped" THEN 0 ELSE 1)

(* Blank flash reads as 0xFFFFFFFF, which no part maps.                    *)
EntriesOf(page) ==
  CASE page.kind = "image" -> {page.file.entry}
    [] page.kind = "blank" -> {"unmapped"}
    [] OTHER -> Entries

(* isp_read_memory returns the number of bytes read, 0 after failed encoded *)
(* blocks; or else the code of the target, and SRC_ADDR_NOT_MAPPED is 4,   *)
(* the size of an address: then the address stays 0.                       *)
ReadVector ==
  /\ Reading("goaddr")
  /\ \E g \in Replies :
       /\ \E s \in Remainders(g.rest) : rx' = s
       /\ pending' \in LeftWaiting(g.code, desc.uuencode = 1)
       /\ \/ /\ g.code = 0 /\ mode = "synced"
             /\ addr' \in IF NoisyLine /\ desc.uuencode = 0 THEN Entries
                          ELSE EntriesOf(flash[0])
             /\ Goto("gounlock")
          \/ /\ g.code = 0
             /\ \E r \in IF desc.uuencode = 1 THEN {0} ELSE {-6, 1, 2, 3} : Return(r)
             /\ UNCHANGED addr
          \/ g.code = 4 /\ addr' = "low" /\ Goto("gounlock")
          \/ g.code \notin {0, 4} /\ Return(g.code) /\ UNCHANGED addr
  /\ UNCHANGED <<part, mode, echo, unlocked, prepared, ram, flash>> /\ GoFrame

ReadGoUnlock ==
  /\ Reading("gounlock")
  /\ \E g \in Replies :
       /\ Unread(g.rest)
       /\ IF g.code # 0 THEN Return(-1) ELSE Goto("gorun")
  /\ UNCHANGED addr /\ GoFrame

(* isp_send_cmd_go has codes of its own: -4 the write failed, -3 no        *)
(* answer, -1 refused.                                                     *)
ReadGo ==
  /\ Reading("gorun")
  /\ \E g \in Replies :
       /\ Unread(g.rest)
       /\ Return(CASE g.code = -5 -> -4 [] g.code = -4 -> -3
                   [] g.code = 0 -> 0 [] g.code > 0 -> -1)
  /\ UNCHANGED addr /\ GoFrame

(* Addresses under 0x200 are refused by the host.                          *)
GoTooLow ==
  /\ pc = "gorun" /\ asked = "no" /\ addr = "low"
  /\ Return(-6)
  /\ UNCHANGED <<part, target, rx, asked, addr>> /\ GoFrame

(***************************************************************************)
(* The user: runs the program, kills it, presses the reset button.  Text   *)
(* that had arrived before the line was opened again is gone.              *)
(***************************************************************************)
Start ==
  /\ pc \in {"idle", "exit"} /\ starts < MaxStarts
  /\ \E inv \in Invocations : cmd' = inv.cmd /\ file' = inv.file /\ patch' = inv.patch
  /\ pc' = "question" /\ asked' = "no"
  /\ dev_id' = 0 /\ desc' = NoPart
  /\ i' = 0 /\ addr' = "unmapped" /\ dump' = "none" /\ ret' = 0
  /\ rx' \in Remainders(rx)
  /\ starts' = starts + 1
  /\ UNCHANGED <<part, target, resets>>

Kill ==
  /\ pc \notin {"idle", "exit"}
  /\ pc' = "idle" /\ asked' = "no"
  /\ Lost
  /\ UNCHANGED <<part, arguments, dev_id, desc, i, addr, dump, ret, bounds>>

PressReset ==
  /\ resets < MaxResets /\ resets' = resets + 1
  /\ Restarted
  /\ UNCHANGED <<part, flash, rx, host, starts>>

(* ... in the middle of an erase or a copy.                                *)
PressResetDuring(at, op, arg) ==
  /\ pc = at /\ asked = "no"
  /\ resets < MaxResets /\ resets' = resets + 1
  /\ CutShort(op, arg) /\ asked' = "sent"
  /\ UNCHANGED <<part, pc, arguments, dev_id, desc, i, addr, dump, ret, starts>>

PressResetErasing == PressResetDuring("erase", "E", {i})
PressResetCopying == PressResetDuring("copy", "C", i)

(***************************************************************************)
(* Specification.                                                          *)
(***************************************************************************)
Connect == \/ AskQuestion \/ ReadSynchronized \/ AskSynchro \/ ReadSynchroOk
           \/ AskFreq \/ ReadFreqOk \/ AskEchoOff \/ ReadEchoOff
Identify == AskProbe \/ ReadProbe \/ AskIdent \/ ReadIdent \/ Dispatch
EraseFlash == \/ AskUnlock \/ ReadUnlock \/ AskBlankCheck \/ ReadBlankCheck
              \/ AskErasePrep \/ ReadErasePrep \/ AskErase \/ ReadErase
              \/ FlashNowBlank
FlashTarget == \/ LoadImage \/ AskPrepare \/ ReadPrepare \/ AskRam \/ ReadRam
               \/ SendEncoded \/ SendTwice \/ SendRaw \/ SendFailed
               \/ AskCopy \/ ReadCopy \/ FlashDone
DumpToFile == AskDump \/ ReadDump \/ DumpNoMemory
GetIds == AskId \/ ReadId
StartProg == \/ AskVector \/ ReadVector \/ AskGoUnlock \/ ReadGoUnlock
             \/ AskGo \/ ReadGo \/ GoTooLow

Program == \/ Connect \/ Identify \/ EraseFlash \/ FlashTarget
           \/ DumpToFile \/ GetIds \/ StartProg
User == Start \/ Kill \/ PressReset \/ PressResetErasing \/ PressResetCopying

Next == Program \/ User

Spec == Init /\ [][Next]_vars

(* Every wait of the program ends with text or with a timeout.             *)
FairSpec == Spec /\ WF_vars(Program)

(***************************************************************************)
(* Properties.                                                             *)
(***************************************************************************)

(* Every variable keeps its type.                                          *)
TypeOK ==
  /\ TargetTypeOK
  /\ pc \in Places /\ asked \in {"no", "sent", "failed"}
  /\ cmd \in Commands /\ file \in Files \cup {NoFile} /\ patch \in BOOLEAN
  /\ dev_id \in Int /\ desc \in Parts \cup {NoPart}
  /\ i \in Nat /\ addr \in Entries /\ dump \in {"none", "whole", "part"} /\ ret \in Int
  /\ starts \in 0 .. MaxStarts /\ resets \in 0 .. MaxResets

Checked == ~NoisyLine \/ part.uuencode = 1

(* While flash_target programs, the flash holds the blocks already done,   *)
(* in place and as in the image, and everything after them is blank: no    *)
(* sector escaped the erase loop, no block was skipped, written twice or   *)
(* written with what an earlier block left in RAM.  The block being sent   *)
(* has a page: the last one, which is rounded up, is not beyond the end.   *)
WritingPrefix ==
  Checked /\ pc \in {"prep", "ram", "data"} =>
    /\ \A b \in Pages(part) :
         flash[b] = IF b < i THEN ImagePage(file, patch, b) ELSE Blank
    /\ pc # "prep" => i \in Pages(part)

(* What the program reports is so: "flash" returns 0 only when the whole   *)
(* buffer it loaded is in flash and the rest is blank, "blank" only when   *)
(* every page is blank.                                                    *)
ReportIsTrue ==
  Checked /\ pc = "exit" /\ ret = 0 =>
    /\ cmd = "flash" => \A b \in Pages(part) :
         flash[b] = IF b < Blocks(file, part) THEN ImagePage(file, patch, b) ELSE Blank
    /\ cmd = "blank" => \A b \in Pages(part) : flash[b] = Blank

(* Nothing is asked of a target before it was identified, by its own       *)
(* answer, as the part whose description is used; no refusal, echo or      *)
(* answer to an older question is taken for its id.                        *)
RightPart == pc \in Working => desc = part

(* By then its echo, which the program would read as success codes, is     *)
(* off, though the program looks at no answer of the step that turns it    *)
(* off.                                                                    *)
EchoOff == pc \in Working /\ mode = "synced" => ~echo

(* Erase, copy and go are only sent unlocked, the first two to the sector  *)
(* just prepared: the target never answers that they were not.  No line is *)
(* such a code unless it is a word that happens to be the same number.     *)
NeverOutOfOrder ==
  \A n \in 1 .. Len(rx) :
    rx[n] \in {CMD_LOCKED, SECTOR_NOT_PREPARED_FOR_WRITE_OPERATION} =>
      n > 1 /\ rx[n] \in Words

(* No page is ever programmed over a page that is not blank; only a reset  *)
(* in the middle of an erase or a copy spoils one.                         *)
NoOverprogram ==
  [][\A b \in Pages(part) :
       flash'[b] = Garbage /\ flash[b] # Garbage => resets' # resets]_vars

(* No page of an encoded transfer lands anywhere but in its own place,     *)
(* even when answers come late.                                            *)
InPlace ==
  part.uuencode = 1 =>
    \A b \in Pages(part) : flash[b].kind = "image" => flash[b].page = b

(* Whatever the line does, no page of an image with the protection word    *)
(* set gets into flash, nor, encoded, a first page whose vectors do not    *)
(* add up.                                                                 *)
NeverProtected ==
  \A b \in Pages(part) :
    flash[b].kind = "image" =>
      /\ ~flash[b].file.crp
      /\ b = 0 /\ part.uuencode = 1 => flash[b].patched \/ flash[b].file.vectors

(* Every run of the program comes to an end.                               *)
Finishes == pc \notin {"idle", "exit"} ~> pc \in {"idle", "exit"}

(***************************************************************************)
(* What the documentation says, and the program does not do.               *)
(***************************************************************************)

(* lpcprog.1:63 "Dump the whole connected target's flash memory content to *)
(* the given file": a dump that is reported done has the whole flash.      *)
DumpIsWhole ==
  pc = "exit" /\ cmd = "dump" /\ ret >= 0 => dump = "whole"

(***************************************************************************)
(* The abstract specification lpcprog implements.  A job lasts from the    *)
(* dispatch of "flash" or "blank" to the return of the program, or to its  *)
(* death.                                                                  *)
(***************************************************************************)
Job ==
  CASE pc = "exit" /\ ret = 0 /\ cmd \in {"flash", "blank"} -> "done"
    [] pc \in Erasing \cup {"load"} -> "erasing"
    [] pc \in Flashing -> "writing"
    [] OTHER -> "idle"

Image ==
  IF Job # "idle" /\ cmd = "flash" THEN [file |-> file, patch |-> patch]
  ELSE [file |-> NoFile, patch |-> TRUE]

FI == INSTANCE FlashImage WITH mem <- flash, job <- Job, image <- Image

(* lpcprog programs the flash the way FlashImage promises.                 *)
ImplementsFlashImage == FI!Spec
=============================================================================
