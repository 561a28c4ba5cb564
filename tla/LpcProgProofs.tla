---------------------------- MODULE LpcProgProofs ----------------------------
(***************************************************************************)
(* Theorems about LpcProg, for every set of parts, files, refusals, words  *)
(* and command lines, any line and any number of runs and resets.          *)
(***************************************************************************)
EXTENDS LpcProg, IspCommandsProofs

(***************************************************************************)
(* The first inductive invariant, for any line: types, the part that was   *)
(* identified, and the range of the loop counters.                         *)
(***************************************************************************)

(* An id that is not refused is small, a word, or the id of this part.     *)
Known ==
  pc = "dispatch" => dev_id \in 0 .. LargestRead \cup {part.part_id} \cup Words

(* The counter names a sector, a block or a question that exists.          *)
Counted ==
  /\ pc = "unlock" => i = 0
  /\ pc = "check" => i <= desc.flash_nb_sectors
  /\ pc = "check" /\ asked # "no" => i < desc.flash_nb_sectors
  /\ pc \in {"eprep", "erase"} => i < desc.flash_nb_sectors
  /\ pc = "load" => asked = "no"
  /\ pc \in Flashing => ImageVerdict = 0 /\ i <= Blocks(file, desc)
  /\ pc \in {"ram", "data", "copy"} => i < Blocks(file, desc)
  /\ pc = "prep" /\ asked # "no" => i < Blocks(file, desc)
  /\ pc = "id" => i < 3

(* erase_flash works for flash or blank, the rest of flash_target for      *)
(* flash only, which has checked that there is a block size.               *)
Dispatched ==
  /\ pc \in Erasing => cmd \in {"flash", "blank"}
  /\ pc \in {"load"} \cup Flashing => cmd = "flash"
  /\ pc \in Erasing \cup {"load"} \cup Flashing /\ cmd = "flash" =>
       WriteSize(desc) # 0 /\ file # NoFile

Typed == TypeOK /\ RightPart /\ Known /\ Counted /\ Dispatched

(* flash_target goes on with an image only if all of it fits.              *)
LEMMA VerdictZero ==
  ASSUME TypeOK, desc \in Devices, ImageVerdict = 0, WriteSize(desc) # 0
  PROVE  /\ LoadedSize(file, desc) > 0
         /\ Blocks(file, desc) * WriteSize(desc) <= desc.flash_size
         /\ ~file.crp /\ (patch \/ file.vectors)
<1>1. LoadedSize(file, desc) \in Int
  <2>1. file.size \in Nat
    <3>1. CASE file \in Files
      <4>1. file \in FileDesc BY <3>1, FilesAssumption
      <4> QED BY <4>1 DEF FileDesc
    <3>2. CASE file = NoFile BY <3>2 DEF NoFile
    <3> QED BY <3>1, <3>2 DEF TypeOK
  <2>2. desc.flash_size \in Nat BY PartFields
  <2> QED BY <2>1, <2>2 DEF LoadedSize, MinOf
<1> DEFINE size == LoadedSize(file, desc)
<1> HIDE DEF size
<1>2. ImageVerdict =
        CASE size <= 0 -> -5
          [] size > 0 /\ ~patch /\ ~file.vectors -> -5
          [] size > 0 /\ (patch \/ file.vectors) /\ file.crp -> -6
          [] size > 0 /\ (patch \/ file.vectors) /\ ~file.crp
             /\ Blocks(file, desc) * WriteSize(desc) > desc.flash_size -> -7
          [] OTHER -> 0
  BY DEF ImageVerdict, size
<1>3. size > 0 BY <1>1, <1>2 DEF size
<1>4. patch \/ file.vectors BY <1>2, <1>3
<1>5. ~file.crp BY <1>2, <1>3, <1>4
<1>6. ~(Blocks(file, desc) * WriteSize(desc) > desc.flash_size) BY <1>2, <1>3, <1>4, <1>5
<1>7. desc.flash_size \in Nat /\ WriteSize(desc) \in Nat /\ Blocks(file, desc) \in Int
  <2>1. WriteSize(desc) \in BlockSizes BY WriteSizeValue
  <2>2. desc.flash_size \in Nat BY PartFields
  <2>3. \A ws \in {64, 256, 512, 1024, 4096} :
          (size \div ws) + (IF size % ws > 0 THEN 1 ELSE 0) \in Int
    BY <1>1 DEF size
  <2>4. Blocks(file, desc) \in Int
    BY <2>1, <2>3 DEF BlockSizes, Blocks, size
  <2> QED BY <2>1, <2>2, <2>4 DEF BlockSizes
<1> QED BY <1>3, <1>4, <1>5, <1>6, <1>7 DEF size

(* While flash_target programs, its counter is a page of the part.         *)
LEMMA CounterIsPage ==
  ASSUME Typed, pc \in Flashing, i < Blocks(file, desc)
  PROVE  /\ i \in Pages(part)
         /\ SectorOf(part, i) \in Sectors(part)
         /\ desc = part
<1>1. desc = part /\ desc \in Devices
  BY DEF Typed, RightPart, Working, TypeOK, TargetTypeOK
<1>2. ImageVerdict = 0 /\ WriteSize(desc) # 0
  BY DEF Typed, Counted, Dispatched
<1>3. i \in Pages(desc)
  BY <1>1, <1>2, VerdictZero, BlockIsPage DEF Typed, TypeOK
<1> QED BY <1>1, <1>3, GeometryAssumption

(* Writing a line changes nothing but the target, which keeps its type.    *)
LEMMA AskTyped ==
  ASSUME Typed, NEW at, NEW op, NEW arg, Ask(at, op, arg),
         op = "C" => arg \in Pages(part)
  PROVE  TypeOK' /\ asked' \in {"sent", "failed"}
<1>1. TargetTypeOK /\ UNCHANGED part
  BY DEF Typed, TypeOK, Ask, Write, Send
<1>2. TargetTypeOK'
  <2>1. CASE Obey(op, arg) BY <1>1, <2>1, ObeyTyped
  <2>2. CASE Lost BY <1>1, <2>2, LostTyped
  <2> QED BY <2>1, <2>2 DEF Ask, Write, Send
<1>3. asked' \in {"sent", "failed"}
  BY DEF Ask, Write, Send
<1> QED BY <1>2, <1>3 DEF Typed, TypeOK, Ask, Write, Send, arguments, bounds

(* A place that is not part of a command asks nothing of the invariant.    *)
LEMMA Elsewhere ==
  ASSUME Typed, TypeOK', pc' \in {"idle", "exit", "probe", "ident"} \cup Handshake
  PROVE  Typed'
  BY DEF Typed, RightPart, Known, Counted, Dispatched, Handshake, Working, Erasing, Flashing

(***************************************************************************)
(* Every step keeps it.                                                    *)
(***************************************************************************)

(* Whatever the handshake hears, it goes on to look at the target's id.    *)
LEMMA TypedConnect ==
  ASSUME Typed, Connect
  PROVE  Typed'
<1>0. TargetTypeOK /\ TypeOK /\ rx \in Seq(Genuine) /\ part \in Devices
  BY DEF Typed, TypeOK, TargetTypeOK
<1>1. ASSUME NEW at \in Handshake, NEW ACTION heard, Write(at, heard),
             heard => TargetTypeOK'
      PROVE  Typed'
  <2>1. TargetTypeOK'
    <3>1. CASE Lost BY <1>0, <1>1, <3>1, LostTyped DEF Write, Send
    <3> QED BY <1>1, <3>1 DEF Write, Send
  <2>2. TypeOK' BY <1>0, <1>1, <2>1 DEF Write, Send, TypeOK, arguments, bounds
  <2> QED BY <1>1, <2>2, Elsewhere DEF Write, Send
<1>2. CASE AskQuestion
  BY <1>0, <1>1, <1>2, HandshakeTyped DEF AskQuestion, Write, Send, Handshake
<1>3. CASE AskSynchro
  BY <1>0, <1>1, <1>3, HandshakeTyped DEF AskSynchro, Write, Send, Handshake
<1>4. CASE AskFreq
  BY <1>0, <1>1, <1>4, HandshakeTyped DEF AskFreq, Write, Send, Handshake
<1>5. CASE AskEchoOff
  BY <1>0, <1>1, <1>5, HandshakeTyped DEF AskEchoOff, Write, Send, Handshake
<1>6. ASSUME NEW r \in Seq(Genuine), Unread(r), Handshaking,
              asked' \in {"no", "sent", "failed"}, ret' = ret,
              pc' \in {"probe", "ident"} \cup Handshake
       PROVE  Typed'
  <2>1. TargetTypeOK' BY <1>0, <1>6, SameTarget DEF Unread
  <2>2. TypeOK' BY <1>0, <1>6, <2>1 DEF TypeOK, Handshaking, arguments, bounds, Places
  <2> QED BY <1>6, <2>2, Elsewhere
<1>7. ASSUME NEW s \in Seq(Genuine), NEW r \in Remainders(s) \cup {<<>>}
      PROVE  r \in Seq(Genuine)
  <2>1. CASE r \in Remainders(s) BY <2>1, RemaindersTyped
  <2>2. CASE r = <<>> BY <2>2
  <2> QED BY <2>1, <2>2
<1>8. CASE ReadSynchronized
  <2>1. Greeted => Tail(rx) \in Seq(Genuine) BY <1>0 DEF Greeted
  <2> QED BY <1>0, <1>6, <1>7, <1>8, <2>1 DEF ReadSynchronized, Reading, Goto, Handshake
<1>9. CASE ReadSynchroOk
  BY <1>0, <1>6, <1>9, AcknowledgesTyped DEF ReadSynchroOk, Reading, Goto, Handshake
<1>10. CASE ReadFreqOk
  BY <1>0, <1>6, <1>10, AcknowledgesTyped DEF ReadFreqOk, Reading, Goto, Handshake
<1>11. CASE ReadEchoOff
  BY <1>0, <1>6, <1>7, <1>11 DEF ReadEchoOff, Reading, Goto
<1> QED BY <1>2, <1>3, <1>4, <1>5, <1>8, <1>9, <1>10, <1>11 DEF Connect

(* An id that is a refusal, a word or a missing line finds no part.        *)
LEMMA TypedIdentify ==
  ASSUME Typed, Identify
  PROVE  Typed'
<1>0. TargetTypeOK /\ TypeOK /\ rx \in Seq(Genuine) /\ part \in Devices
  BY DEF Typed, TypeOK, TargetTypeOK
<1>1. CASE AskProbe
  <2>1. TypeOK' BY <1>1, AskTyped DEF AskProbe
  <2> QED BY <1>1, <2>1, Elsewhere DEF AskProbe, Ask, Write, Send
<1>2. CASE AskIdent
  <2>1. TypeOK' BY <1>2, AskTyped DEF AskIdent
  <2> QED BY <1>2, <2>1, Elsewhere DEF AskIdent, Ask, Write, Send
<1>3. CASE ReadProbe
  <2>1. PICK g \in Replies : \E p \in PartIds(g) : Unread(p.rest)
    BY <1>3 DEF ReadProbe
  <2>2. rx' \in Seq(Genuine) BY <1>0, <2>1, PartIdsTyped DEF Unread
  <2>3. TargetTypeOK' BY <1>0, <2>1, <2>2, SameTarget DEF Unread
  <2>4. TypeOK'
    BY <1>0, <1>3, <2>3
       DEF TypeOK, ReadProbe, Reading, Goto, Handshaking, arguments, bounds, Places
  <2> QED BY <1>3, <2>4, Elsewhere DEF ReadProbe, Goto
<1>4. CASE ReadIdent
  <2>0. PICK g \in Replies : \E p \in PartIds(g) :
          /\ Unread(p.rest)
          /\ dev_id' = p.id
          /\ IF p.id < 0 THEN Return(-1) ELSE Goto("dispatch")
    BY <1>4 DEF ReadIdent
  <2>1. PICK p \in PartIds(g) :
          /\ Unread(p.rest)
          /\ dev_id' = p.id
          /\ IF p.id < 0 THEN Return(-1) ELSE Goto("dispatch")
    BY <2>0
  <2>2. /\ p.id \in {-5, -4, -2} \cup 0 .. LargestRead \cup {part.part_id} \cup Words
        /\ p.id \in Int /\ rx' \in Seq(Genuine)
    BY <1>0, <2>1, PartIdsTyped DEF Unread
  <2>3. TargetTypeOK' BY <1>0, <2>1, <2>2, SameTarget DEF Unread
  <2>4. TypeOK'
    BY <1>0, <1>4, <2>1, <2>2, <2>3
       DEF TypeOK, ReadIdent, Reading, Goto, Return, arguments, bounds, Places
  <2>5. CASE p.id < 0
    BY <2>1, <2>4, <2>5, Elsewhere DEF Return
  <2>6. CASE ~(p.id < 0)
    <3>1. Known' BY <2>1, <2>2, <2>6 DEF Known, Unread
    <3> QED
      BY <2>1, <2>4, <2>6, <3>1
         DEF Typed, RightPart, Counted, Dispatched, Goto, Working, Erasing, Flashing
  <2> QED BY <2>5, <2>6
<1>5. CASE Dispatch
  <2>0. UNCHANGED <<part, target, rx, asked, arguments, dev_id, addr, dump, bounds>> /\ pc = "dispatch"
    BY <1>5 DEF Dispatch
  <2>1. TargetTypeOK' BY <1>0, <2>0, SameTarget
  <2>2. CASE Return(-2) /\ UNCHANGED <<desc, i>>
    <3>1. TypeOK'
      BY <1>0, <2>0, <2>1, <2>2 DEF TypeOK, Return, arguments, bounds, Places
    <3> QED BY <2>2, <3>1, Elsewhere DEF Return
  <2>3. ASSUME NEW p \in Parts, p.part_id = dev_id, desc' = p, i' = 0,
               IF Rejection(p) # 0 THEN Return(Rejection(p)) ELSE Goto(FirstPlace[cmd])
        PROVE  Typed'
    <3>1. p \in Devices /\ p.part_id > LargestRead /\ p.part_id \in Nat
      BY PartFields DEF Devices
    <3>2. p = part
      <4>1. dev_id \in 0 .. LargestRead \cup {part.part_id} \cup Words
        BY <2>0 DEF Typed, Known
      <4>2. p.part_id = part.part_id
        BY <2>3, <3>1, <4>1, RepliesAssumption DEF LargestRead
      <4> QED BY <1>0, <3>1, <4>2, PartsAssumption
    <3>3. FirstPlace[cmd] \in Working \cup {"exit"}
      BY <1>0 DEF TypeOK, Commands, FirstPlace, Working, Erasing
    <3>4. Rejection(p) \in Int
      BY DEF Rejection
    <3>5. TypeOK'
      BY <1>0, <2>0, <2>1, <2>3, <3>3, <3>4
         DEF TypeOK, Return, Goto, arguments, bounds, Places
    <3>6. CASE Rejection(p) # 0
      BY <2>3, <3>5, <3>6, Elsewhere DEF Return
    <3>7. CASE Rejection(p) = 0
      <4>1. pc' = FirstPlace[cmd] /\ cmd' = cmd /\ file' = file BY <2>0, <2>3, <3>7 DEF Goto, arguments
      <4>2. RightPart' BY <2>0, <2>3, <3>2 DEF RightPart
      <4>3. p.flash_nb_sectors \in Nat \ {0} BY <3>1, PartFields DEF PartDesc
      <4>4. pc' \in {"unlock", "dump", "id", "goaddr", "exit"}
        BY <1>0, <4>1 DEF TypeOK, Commands, FirstPlace
      <4>5. pc' = "unlock" => cmd \in {"flash", "blank"}
        BY <1>0, <4>1 DEF TypeOK, Commands, FirstPlace
      <4>6. cmd = "flash" => WriteSize(p) # 0 /\ file # NoFile
        <5>1. p.ram_buff_offset \in Nat /\ p.ram_size \in Nat BY <3>1, PartFields
        <5> QED BY <3>7, <5>1 DEF Rejection
      <4>7. Counted' /\ Known'
        BY <2>3, <4>3, <4>4 DEF Counted, Known, Flashing
      <4>8. Dispatched'
        BY <2>3, <4>1, <4>4, <4>5, <4>6 DEF Dispatched, Erasing, Flashing
      <4> QED BY <3>5, <4>2, <4>7, <4>8 DEF Typed
    <3> QED BY <3>6, <3>7
  <2> QED BY <1>5, <2>2, <2>3 DEF Dispatch
<1> QED BY <1>1, <1>2, <1>3, <1>4, <1>5 DEF Identify

(* A step that leaves the target alone keeps the types.                    *)
LEMMA StepTyped ==
  ASSUME Typed, UNCHANGED <<part, target, arguments, dev_id, desc, bounds>>,
         rx' \in Seq(Genuine), asked' \in {"no", "sent", "failed"}, i' \in Nat,
         addr' \in Entries, dump' \in {"none", "whole", "part"}, ret' \in Int, pc' \in Places
  PROVE  TypeOK'
<1>1. TargetTypeOK' BY SameTarget DEF Typed, TypeOK
<1> QED BY <1>1 DEF Typed, TypeOK, arguments, bounds

(* A command keeps to the part it was dispatched for.                      *)
LEMMA SamePart ==
  ASSUME Typed, pc \in Working, pc' \in Working, UNCHANGED <<part, desc>>
  PROVE  RightPart' /\ Known' /\ desc = part /\ part \in Devices
<1>1. desc = part /\ part \in Devices BY DEF Typed, TypeOK, TargetTypeOK, RightPart
<1>2. pc' # "dispatch" BY DEF Working, Erasing, Flashing
<1> QED BY <1>1, <1>2 DEF RightPart, Known

(* The code of a reply is a number, and its rest what the target sent.     *)
LEMMA ReplyTyped ==
  ASSUME Typed, NEW g \in Replies
  PROVE  /\ g.code \in Int /\ g.rest \in Seq(Genuine)
         /\ \A s \in Remainders(g.rest) : s \in Seq(Genuine)
<1>1. part \in Devices /\ rx \in Seq(Genuine) BY DEF Typed, TypeOK, TargetTypeOK
<1>2. g.code \in -5 .. LargestRead /\ g.rest \in Seq(Genuine) BY <1>1, RepliesTyped
<1>3. \A c \in -5 .. LargestRead : c \in Int BY DEF LargestRead
<1> QED BY <1>2, <1>3, RemaindersTyped

(* erase_flash asks for sectors 0 to flash_nb_sectors - 1 of the part.     *)
LEMMA TypedEraseFlash ==
  ASSUME Typed, EraseFlash
  PROVE  Typed'
<1>0. TargetTypeOK /\ TypeOK /\ rx \in Seq(Genuine) /\ part \in Devices /\ i \in Nat /\ ret \in Int
  BY DEF Typed, TypeOK, TargetTypeOK
<1>1. ASSUME NEW at \in Erasing, pc = at
      PROVE  desc = part /\ pc \in Working /\ cmd \in {"flash", "blank"}
  BY <1>1, SamePart DEF Typed, Dispatched, Working, RightPart, Erasing
<1>2. ASSUME NEW at \in Erasing, NEW op, NEW arg, Ask(at, op, arg),
             op # "C",
             at = "check" => i < desc.flash_nb_sectors
      PROVE  Typed'
  <2>1. TypeOK' BY <1>2, AskTyped
  <2>2. pc' = pc /\ pc = at /\ i' = i /\ UNCHANGED <<part, desc, cmd, file, patch>>
    BY <1>2 DEF Ask, Write, Send, arguments
  <2>3. RightPart' /\ Known' BY <1>1, <2>2, SamePart
  <2>4. Counted' BY <1>2, <2>2 DEF Typed, Counted, Erasing, Flashing
  <2>5. Dispatched' BY <1>2, <2>2 DEF Typed, Dispatched
  <2> QED BY <2>1, <2>3, <2>4, <2>5 DEF Typed
<1>3. CASE AskUnlock BY <1>2, <1>3 DEF AskUnlock, Erasing
<1>4. CASE AskBlankCheck BY <1>2, <1>4 DEF AskBlankCheck, Erasing
<1>5. pc \in {"eprep", "erase"} => i \in Sectors(part)
  <2>1. pc \in {"eprep", "erase"} => i < part.flash_nb_sectors
    BY <1>1 DEF Typed, Counted, Erasing
  <2> QED BY <1>0, <2>1, PartFields DEF Sectors
<1>6. CASE AskErasePrep BY <1>2, <1>5, <1>6 DEF AskErasePrep, Ask, Write, Send, Erasing
<1>7. CASE AskErase BY <1>2, <1>5, <1>7 DEF AskErase, Ask, Write, Send, Erasing
<1>8. ASSUME NEW at \in Erasing, pc = at, EraseFrame, asked' = "no", UNCHANGED <<part, target>>,
             rx' \in Seq(Genuine), i' \in Nat,
             \/ pc' = "exit" /\ ret' \in Int
             \/ pc' \in {"check", "eprep", "erase"} /\ UNCHANGED ret,
             pc' = "check" => i' <= desc.flash_nb_sectors,
             pc' \in {"eprep", "erase"} => i' < desc.flash_nb_sectors
      PROVE  Typed'
  <2>1. UNCHANGED <<cmd, file, patch, dev_id, desc>> /\ addr' = addr /\ dump' = dump
    BY <1>8 DEF EraseFrame, arguments
  <2>2. TypeOK'
    BY <1>0, <1>8, <2>1, StepTyped DEF EraseFrame, TypeOK, Places, Working, Erasing
  <2>3. CASE pc' = "exit" BY <2>2, <2>3, Elsewhere
  <2>4. CASE pc' \in {"check", "eprep", "erase"}
    <3>1. RightPart' /\ Known'
      BY <1>1, <1>8, <2>1, <2>4, SamePart DEF Working, Erasing
    <3>2. Counted' BY <1>8, <2>1, <2>4 DEF Counted, Flashing
    <3>3. Dispatched'
      BY <1>8, <2>1, <2>4 DEF Typed, Dispatched, Erasing, Flashing
    <3> QED BY <2>2, <3>1, <3>2, <3>3 DEF Typed
  <2> QED BY <1>8, <2>3, <2>4
<1>9. ASSUME NEW r \in Int, EraseFailed(r) PROVE pc' = "exit" /\ ret' \in Int
  BY <1>9 DEF EraseFailed, Return
<1>10. ASSUME NEW at \in Erasing, pc = at PROVE desc.flash_nb_sectors \in Nat \ {0}
  BY <1>0, <1>1, <1>10, PartFields DEF PartDesc
<1>11. CASE ReadUnlock
  <2>1. PICK g \in Replies : Unread(g.rest) /\ IF g.code # 0 THEN EraseFailed(-1) ELSE Goto("check")
    BY <1>11 DEF ReadUnlock
  <2>2. g.rest \in Seq(Genuine) BY ReplyTyped
  <2>3. i = 0 BY <1>11 DEF ReadUnlock, Reading, Typed, Counted
  <2> QED BY <1>0, <1>8, <1>9, <1>10, <1>11, <2>1, <2>2, <2>3 DEF ReadUnlock, Reading, Goto, Unread, Erasing
<1>12. CASE ReadBlankCheck
  <2>1. PICK g \in Replies :
       \/ g.code = 0 /\ Unread(g.rest) /\ i' = i + 1 /\ Goto("check")
       \/ g.code < 0 /\ Unread(g.rest) /\ UNCHANGED i /\ EraseFailed(g.code)
       \/ /\ g.code > 0
          /\ \E s \in Remainders(g.rest) : Unread(s)
          /\ UNCHANGED i /\ Goto("eprep")
    BY <1>12 DEF ReadBlankCheck
  <2>2. /\ g.code \in Int /\ g.rest \in Seq(Genuine)
        /\ \A s \in Remainders(g.rest) : s \in Seq(Genuine)
    BY ReplyTyped
  <2>3. i < desc.flash_nb_sectors /\ desc.flash_nb_sectors \in Nat
    BY <1>10, <1>12 DEF ReadBlankCheck, Reading, Typed, Counted, Erasing
  <2> QED BY <1>0, <1>8, <1>9, <1>12, <2>1, <2>2, <2>3 DEF ReadBlankCheck, Reading, Goto, Unread, Erasing
<1>13. CASE ReadErasePrep
  <2>1. PICK g \in Replies : Unread(g.rest) /\ IF g.code # 0 THEN EraseFailed(g.code) ELSE Goto("erase")
    BY <1>13 DEF ReadErasePrep
  <2>2. g.code \in Int /\ g.rest \in Seq(Genuine) BY ReplyTyped
  <2>3. i < desc.flash_nb_sectors BY <1>13 DEF ReadErasePrep, Reading, Typed, Counted
  <2> QED BY <1>0, <1>8, <1>9, <1>13, <2>1, <2>2, <2>3 DEF ReadErasePrep, Reading, Goto, Unread, Erasing
<1>14. CASE ReadErase
  <2>1. PICK g \in Replies : /\ Unread(g.rest)
                             /\ IF g.code # 0 THEN EraseFailed(g.code) /\ UNCHANGED i
                                ELSE i' = i + 1 /\ Goto("check")
    BY <1>14 DEF ReadErase
  <2>2. g.code \in Int /\ g.rest \in Seq(Genuine) BY ReplyTyped
  <2>3. i < desc.flash_nb_sectors /\ desc.flash_nb_sectors \in Nat
    BY <1>10, <1>14 DEF ReadErase, Reading, Typed, Counted, Erasing
  <2> QED BY <1>0, <1>8, <1>9, <1>14, <2>1, <2>2, <2>3 DEF ReadErase, Reading, Goto, Unread, Erasing
<1>15. CASE FlashNowBlank
  <2>1. UNCHANGED <<part, target, rx, asked, i, cmd, file, patch, dev_id, desc, addr, dump>> /\ pc = "check"
    BY <1>15 DEF FlashNowBlank, EraseFrame, arguments
  <2>2. CASE cmd # "flash"
    BY <1>0, <1>8, <1>15, <2>1, <2>2 DEF FlashNowBlank, Return, Erasing
  <2>3. CASE cmd = "flash"
    <3>1. pc' = "load" /\ UNCHANGED ret BY <1>15, <2>3 DEF FlashNowBlank, Goto
    <3>2. TypeOK'
      BY <1>0, <1>15, <2>1, <3>1, StepTyped DEF FlashNowBlank, EraseFrame, TypeOK, Places, Working
    <3>3. RightPart' /\ Known' BY <1>1, <2>1, <3>1, SamePart DEF Working, Erasing
    <3>4. Counted' BY <1>15, <2>1, <3>1 DEF FlashNowBlank, Counted, Flashing
    <3>5. Dispatched' BY <2>1, <2>3, <3>1 DEF Typed, Dispatched, Erasing, Flashing
    <3> QED BY <3>2, <3>3, <3>4, <3>5 DEF Typed
  <2> QED BY <2>2, <2>3
<1> QED BY <1>3, <1>4, <1>6, <1>7, <1>11, <1>12, <1>13, <1>14, <1>15 DEF EraseFlash

(* flash_target keeps its counter on the blocks of the image.              *)
LEMMA TypedFlashTarget ==
  ASSUME Typed, FlashTarget
  PROVE  Typed'
<1>0. TargetTypeOK /\ TypeOK /\ rx \in Seq(Genuine) /\ part \in Devices /\ i \in Nat /\ ret \in Int
  BY DEF Typed, TypeOK, TargetTypeOK
<1>1. ASSUME pc \in {"load"} \cup Flashing
      PROVE  /\ desc = part /\ cmd = "flash" /\ pc \in Working
             /\ WriteSize(desc) # 0 /\ file # NoFile /\ file \in Files
  BY <1>0, <1>1 DEF Typed, TypeOK, RightPart, Dispatched, Working, Flashing
<1>2. ASSUME pc \in {"load"} \cup Flashing, ImageVerdict = 0
      PROVE  Blocks(file, desc) \in Nat
  BY <1>0, <1>1, <1>2, VerdictZero, BlockIsPage
<1>3. ASSUME NEW at \in Flashing, NEW op, NEW arg, Ask(at, op, arg),
             op = "C" => arg \in Pages(part),
             at = "prep" => i < Blocks(file, desc)
      PROVE  Typed'
  <2>1. TypeOK' BY <1>3, AskTyped
  <2>2. pc' = pc /\ pc = at /\ i' = i /\ UNCHANGED <<part, desc, cmd, file, patch>>
    BY <1>3 DEF Ask, Write, Send, arguments
  <2>3. RightPart' /\ Known' BY <1>1, <1>3, <2>2, SamePart
  <2>4. ImageVerdict' = ImageVerdict BY <2>2 DEF ImageVerdict
  <2>5. Counted' BY <1>3, <2>2, <2>4 DEF Typed, Counted, Flashing
  <2>6. Dispatched' BY <1>3, <2>2 DEF Typed, Dispatched
  <2> QED BY <2>1, <2>3, <2>5, <2>6 DEF Typed
<1>4. ASSUME pc \in {"prep", "ram", "copy"}, pc = "prep" => i < Blocks(file, desc)
      PROVE  i \in Pages(part) /\ SectorOf(desc, i) \in Sectors(part)
  <2>1. pc \in Flashing /\ i < Blocks(file, desc)
    BY <1>4 DEF Typed, Counted, Flashing
  <2> QED BY <2>1, CounterIsPage
<1>5. CASE AskPrepare BY <1>3, <1>4, <1>5 DEF AskPrepare, Flashing
<1>6. CASE AskRam BY <1>3, <1>6 DEF AskRam, Flashing
<1>7. CASE AskCopy BY <1>3, <1>4, <1>7 DEF AskCopy, Ask, Write, Send, Flashing
<1>8. ASSUME pc \in {"load"} \cup Flashing, EraseFrame, asked' \in {"no", "sent", "failed"}, TargetTypeOK', UNCHANGED part,
             i' \in Nat,
             \/ pc' = "exit" /\ ret' \in Int
             \/ pc' \in Flashing /\ UNCHANGED ret,
             pc' \in Flashing => ImageVerdict = 0 /\ i' <= Blocks(file, desc),
             pc' \in {"ram", "data", "copy"} => i' < Blocks(file, desc),
             pc' = "prep" => asked' = "no"
      PROVE  Typed'
  <2>1. UNCHANGED <<cmd, file, patch, dev_id, desc, addr, dump, starts, resets>>
    BY <1>8 DEF EraseFrame, arguments, bounds
  <2>2. TypeOK'
    BY <1>0, <1>8, <2>1 DEF TypeOK, Places, Working
  <2>3. CASE pc' = "exit" BY <2>2, <2>3, Elsewhere
  <2>4. CASE pc' \in Flashing
    <3>1. RightPart' /\ Known'
      BY <1>1, <1>8, <2>1, <2>4, SamePart DEF Working
    <3>2. ImageVerdict' = ImageVerdict BY <2>1 DEF ImageVerdict
    <3>3. Counted' BY <1>8, <2>1, <2>4, <3>2 DEF Counted, Flashing
    <3>4. Dispatched'
      BY <1>1, <1>8, <2>1, <2>4 DEF Dispatched, Erasing, Flashing
    <3> QED BY <2>2, <3>1, <3>3, <3>4 DEF Typed
  <2> QED BY <1>8, <2>3, <2>4
<1>9. CASE LoadImage
  <2>1. /\ UNCHANGED <<part, target, rx>> /\ asked' = asked /\ EraseFrame /\ pc = "load"
        /\ asked' \in {"no", "sent", "failed"}
    BY <1>0, <1>9 DEF LoadImage, TypeOK
  <2>2. TargetTypeOK' BY <1>0, <2>1, SameTarget
  <2>3. ImageVerdict \in Int BY DEF ImageVerdict
  <2>4. TypeOK' /\ (pc' # "exit" => pc' = "prep" /\ i' = 0 /\ ImageVerdict = 0)
    BY <1>0, <1>9, <2>1, <2>2, <2>3
       DEF LoadImage, Return, Goto, EraseFrame, arguments, bounds, TypeOK, Places, Working, Flashing
  <2>5. CASE pc' = "exit" BY <2>4, <2>5, Elsewhere
  <2>6. CASE pc' = "prep" /\ i' = 0 /\ ImageVerdict = 0
    <3>1. UNCHANGED <<cmd, file, patch, desc>> BY <2>1 DEF EraseFrame, arguments
    <3>2. RightPart' /\ Known'
      BY <1>1, <2>1, <2>6, <3>1, SamePart DEF Working, Flashing
    <3>3. ImageVerdict' = 0 BY <2>6, <3>1 DEF ImageVerdict
    <3>4. Blocks(file, desc) \in Nat /\ ImageVerdict' = 0 BY <1>2, <2>1, <2>6, <3>3
    <3>5. asked' = "no" BY <2>1 DEF Typed, Counted
    <3>6. Counted' BY <2>6, <3>1, <3>4, <3>5 DEF Counted, Flashing
    <3>7. Dispatched' BY <1>1, <2>1, <2>6, <3>1 DEF Dispatched, Erasing, Flashing
    <3> QED BY <2>4, <3>2, <3>6, <3>7 DEF Typed
  <2> QED BY <2>4, <2>5, <2>6
<1>10. ASSUME NEW at \in Flashing, pc = at PROVE Blocks(file, desc) \in Nat /\ ImageVerdict = 0 /\ pc \in Flashing
  BY <1>2, <1>10 DEF Typed, Counted
<1>11. ASSUME NEW g \in Replies, Unread(g.rest)
       PROVE  g.code \in Int /\ TargetTypeOK' /\ UNCHANGED part
  BY <1>0, <1>11, ReplyTyped, SameTarget DEF Unread
<1>12. CASE ReadPrepare
  <2>1. PICK g \in Replies : Unread(g.rest) /\ IF g.code # 0 THEN Return(g.code) ELSE Goto("ram")
    BY <1>12 DEF ReadPrepare
  <2>2. pc = "prep" /\ i < Blocks(file, desc) /\ i' = i /\ EraseFrame /\ asked' = "no"
    BY <1>12 DEF ReadPrepare, Reading, Typed, Counted
  <2> QED BY <1>0, <1>8, <1>10, <1>11, <2>1, <2>2 DEF Goto, Return, Flashing
<1>13. CASE ReadRam
  <2>1. PICK g \in Replies : Unread(g.rest) /\ IF g.code # 0 THEN Return(-8) ELSE Goto("data")
    BY <1>13 DEF ReadRam
  <2>2. pc = "ram" /\ i < Blocks(file, desc) /\ i' = i /\ EraseFrame /\ asked' = "no"
    BY <1>13 DEF ReadRam, Reading, Typed, Counted
  <2> QED BY <1>0, <1>8, <1>10, <1>11, <2>1, <2>2 DEF Goto, Return, Flashing
<1>14. CASE ReadCopy
  <2>1. PICK g \in Replies : /\ Unread(g.rest)
                             /\ IF g.code # 0 THEN Return(g.code) /\ UNCHANGED i
                                ELSE i' = i + 1 /\ Goto("prep")
    BY <1>14 DEF ReadCopy
  <2>2. pc = "copy" /\ i < Blocks(file, desc) /\ EraseFrame /\ asked' = "no"
    BY <1>14 DEF ReadCopy, Reading, Typed, Counted
  <2> QED BY <1>0, <1>8, <1>10, <1>11, <2>1, <2>2 DEF Goto, Return, Flashing
<1>15. ASSUME pc = "data"
       PROVE  Page \in Contents /\ Garbage \in Contents /\ asked \in {"no", "sent", "failed"} /\ i < Blocks(file, desc)
  BY <1>0, <1>1, <1>15
     DEF Page, ImagePage, Garbage, Plain, Contents, Kinds, TypeOK, Flashing, Typed, Counted
<1>16. TargetTypeOK /\ UNCHANGED <<part, flash, prepared>> /\ mode' = mode /\ echo' = echo /\ unlocked' = unlocked
         /\ pending' \in {"line", "stray", "data"} /\ ram' \in Contents /\ rx' \in Seq(Genuine) => TargetTypeOK'
  BY DEF TargetTypeOK, Pages, Sectors, Genuine
<1>17. pc = "data" /\ UNCHANGED part /\ rx' \in Seq(Genuine) /\ (Spilled(Page) \/ InRam(Page) \/ InRam(Garbage)) => TargetTypeOK'
  BY <1>0, <1>15, <1>16 DEF Spilled, InRam, target, TargetTypeOK
<1>18. CASE SendEncoded
  BY <1>0, <1>8, <1>10, <1>15, <1>17, <1>18 DEF SendEncoded, Goto, Flashing, Typed, Counted
<1>19. CASE SendTwice
  <2>1. <<>> \in Seq(Genuine) /\ <<INVALID_COMMAND>> \in Seq(Genuine)
    BY <1>0, TextsTyped DEF INVALID_COMMAND, LargestRead
  <2> QED BY <1>0, <1>8, <1>10, <1>15, <1>17, <1>19, <2>1 DEF SendTwice, Goto, Flashing, Typed, Counted
<1>20. CASE SendRaw
  BY <1>0, <1>8, <1>10, <1>15, <1>17, <1>20 DEF SendRaw, Goto, Flashing, Typed, Counted
<1>21. CASE SendFailed
  <2>1. <<RESEND>> \in Seq(Genuine) BY <1>0, TextsTyped
  <2>2. rx \o <<RESEND>> \in Seq(Genuine) BY <1>0, <2>1
  <2>3. rx' \in Seq(Genuine) BY <1>21, <2>2, RemaindersTyped DEF SendFailed
  <2>4. pc' = "exit" /\ ret' \in Int BY <1>21 DEF SendFailed, Return
  <2> QED BY <1>0, <1>8, <1>15, <1>17, <1>21, <2>3, <2>4 DEF SendFailed, Flashing
<1>22. CASE FlashDone
  <2>1. TargetTypeOK' BY <1>0, <1>22, SameTarget DEF FlashDone
  <2> QED BY <1>0, <1>8, <1>22, <2>1 DEF FlashDone, Return, Flashing
<1> QED BY <1>5, <1>6, <1>7, <1>9, <1>12, <1>13, <1>14, <1>18, <1>19, <1>20, <1>21, <1>22 DEF FlashTarget

(* A part has at least one page: a block fits in a sector, which fits in   *)
(* the flash.                                                              *)
LEMMA FirstPage ==
  ASSUME NEW p \in Devices
  PROVE  0 \in Pages(p)
<1>1. p.flash_size \in Nat /\ p.flash_nb_sectors \in Nat \ {0} /\ SectorSize(p) \in Nat \ {0}
  <2>1. p.flash_nb_sectors \in Nat \ {0} BY PartFields DEF PartDesc
  <2> QED BY <2>1, PartFields
<1>2. SectorSize(p) <= p.flash_size
  <2>1. ASSUME NEW a \in Nat, NEW n \in Nat \ {0}, a \div n > 0 PROVE a \div n <= a
    <3>1. n * (a \div n) <= a OBVIOUS
    <3>2. PICK q \in Nat : q = a \div n BY <2>1
    <3>3. n * q >= q BY <3>2
    <3> QED BY <3>1, <3>2, <3>3
  <2> QED BY <1>1, <2>1 DEF SectorSize
<1>3. PageSize(p) \in Nat \ {0} /\ PageSize(p) <= SectorSize(p)
  BY <1>1, WriteSizeValue DEF PageSize, BlockSizes
<1>4. ASSUME NEW a \in Nat, NEW q \in Nat \ {0}, q <= a PROVE a \div q >= 1
  BY <1>4
<1>5. PageSize(p) <= p.flash_size BY <1>1, <1>2, <1>3
<1>6. p.flash_size \div PageSize(p) >= 1 BY <1>1, <1>3, <1>4, <1>5
<1>7. p.flash_size \div PageSize(p) \in Int BY <1>1, <1>3
<1> QED BY <1>6, <1>7 DEF Pages

(* dump, id and go work for the part they were dispatched for.             *)
LEMMA TypedOthers ==
  ASSUME Typed, DumpToFile \/ GetIds \/ StartProg
  PROVE  Typed'
<1> DEFINE Here == {"dump", "id", "goaddr", "gounlock", "gorun"}
<1>0. TargetTypeOK /\ TypeOK /\ rx \in Seq(Genuine) /\ part \in Devices /\ i \in Nat /\ ret \in Int
  BY DEF Typed, TypeOK, TargetTypeOK
<1>1. ASSUME pc \in Here PROVE desc = part /\ pc \in Working
  BY <1>1 DEF Typed, RightPart, Working
<1>2. ASSUME pc \in Here, TypeOK', UNCHANGED <<part, desc, cmd, file, patch>>,
             \/ pc' = "exit"
             \/ pc' \in Here /\ (pc' = "id" => i' < 3)
      PROVE  Typed'
  <2>1. CASE pc' = "exit" BY <1>2, <2>1, Elsewhere
  <2>2. CASE pc' \in Here /\ (pc' = "id" => i' < 3)
    <3>1. RightPart' /\ Known' BY <1>1, <1>2, <2>2, SamePart DEF Working
    <3>2. Counted' BY <2>2 DEF Counted, Flashing
    <3>3. Dispatched' BY <2>2 DEF Dispatched, Erasing, Flashing
    <3> QED BY <1>2, <3>1, <3>2, <3>3 DEF Typed
  <2> QED BY <1>2, <2>1, <2>2
<1>3. ASSUME NEW at \in Here, NEW op, NEW arg, Ask(at, op, arg), op \notin {"P", "E", "C"}
      PROVE  Typed'
  <2>1. TypeOK' BY <1>3, AskTyped
  <2>2. pc' = pc /\ pc = at /\ i' = i /\ UNCHANGED <<part, desc, cmd, file, patch>>
    BY <1>3 DEF Ask, Write, Send, arguments
  <2>3. pc = "id" => i < 3 BY DEF Typed, Counted
  <2> QED BY <1>2, <1>3, <2>1, <2>2, <2>3
<1>4. CASE AskDump BY <1>3, <1>4 DEF AskDump
<1>5. CASE AskId
  <2>1. PICK n \in 1 .. 3 : n = i + 1 BY <1>0, <1>5 DEF AskId
  <2>2. <<"J", "N", "K">>[n] \notin {"P", "E", "C"} BY <2>1
  <2> QED BY <1>3, <1>5, <2>1, <2>2 DEF AskId
<1>6. CASE AskVector BY <1>3, <1>6 DEF AskVector
<1>7. CASE AskGoUnlock BY <1>3, <1>7 DEF AskGoUnlock
<1>8. CASE AskGo BY <1>3, <1>8 DEF AskGo
<1>9. ASSUME NEW g \in Replies
      PROVE  /\ g.code \in Int /\ g.rest \in Seq(Genuine)
             /\ \A s \in Remainders(g.rest) : s \in Seq(Genuine)
  BY ReplyTyped
<1>10. UNCHANGED <<part, mode, echo, unlocked, prepared, ram, flash>> /\ pending' \in {"line", "stray", "data"}
         /\ rx' \in Seq(Genuine) => TargetTypeOK'
  BY <1>0 DEF TargetTypeOK, Pages, Sectors, Genuine
<1>11. pending \in {"line", "stray", "data"} /\ asked \in {"no", "sent", "failed"}
  BY <1>0 DEF TypeOK, TargetTypeOK
<1>12. CASE ReadDump
  <2>1. PICK g \in Replies :
       /\ \E s \in Remainders(g.rest) : rx' = s
       /\ \E got \in IF g.code = 0 /\ mode = "synced" THEN {"whole", "part"} ELSE {"part"} :
            /\ pending' \in LeftWaiting(g.code, desc.uuencode = 1)
            /\ \/ dump' = got /\ Return(desc.flash_size)
               \/ dump' = "part" /\ Return(-2)
               \/ dump' = "none" /\ Return(-1)
    BY <1>12 DEF ReadDump
  <2>2. pc = "dump" /\ asked' = "no" /\ UNCHANGED <<part, mode, echo, unlocked, prepared, ram, flash>>
        /\ UNCHANGED <<cmd, file, patch, dev_id, desc, i, addr, starts, resets>>
    BY <1>12 DEF ReadDump, Reading, arguments, bounds
  <2>3. desc.flash_size \in Nat BY <1>0, <1>1, <2>2, PartFields
  <2>4. pc' = "exit" /\ ret' \in Int /\ dump' \in {"none", "whole", "part"}
        /\ pending' \in {"line", "stray", "data"} /\ rx' \in Seq(Genuine)
    BY <1>9, <1>11, <2>1, <2>3 DEF Return, LeftWaiting
  <2>5. TypeOK' BY <1>0, <1>10, <2>2, <2>4 DEF TypeOK, Places
  <2> QED BY <1>2, <2>2, <2>4, <2>5
<1>13. CASE DumpNoMemory
  <2>1. TypeOK'
    BY <1>0, <1>13, StepTyped DEF DumpNoMemory, Return, TypeOK, Places
  <2> QED BY <1>2, <1>13, <2>1 DEF DumpNoMemory, Return, arguments
<1>14. CASE ReadId
  <2>1. PICK g \in Replies :
          \E s \in IF g.code = 0 THEN Remainders(g.rest) ELSE {g.rest} : Unread(s)
    BY <1>14 DEF ReadId
  <2>2. rx' \in Seq(Genuine) /\ UNCHANGED <<part, target>> BY <1>9, <2>1 DEF Unread
  <2>3. pc = "id" /\ i < 3 /\ i' = i + 1 /\ asked' = "no" /\ (IF i = 2 THEN Return(0) ELSE Goto("id"))
        /\ UNCHANGED <<arguments, dev_id, desc, addr, dump, bounds>>
    BY <1>14 DEF ReadId, Reading, Typed, Counted
  <2>4. TypeOK'
    BY <1>0, <2>2, <2>3, StepTyped DEF Return, Goto, TypeOK, Places, Working
  <2>5. pc' = "exit" \/ (pc' = "id" /\ i' < 3)
    BY <1>0, <2>3 DEF Return, Goto
  <2> QED BY <1>2, <2>2, <2>3, <2>4, <2>5 DEF arguments
<1>15. EntriesOf(flash[0]) \subseteq Entries
  <2>1. flash[0] \in Contents BY <1>0, FirstPage DEF TargetTypeOK
  <2>2. flash[0].file \in Files \cup {NoFile} BY <2>1 DEF Contents
  <2>3. flash[0].file.entry \in Entries
    <3>1. CASE flash[0].file \in Files
      <4>1. flash[0].file \in FileDesc BY <3>1, FilesAssumption
      <4> QED BY <4>1 DEF FileDesc
    <3>2. NoFile.entry \in Entries BY DEF NoFile, Entries
    <3> QED BY <2>2, <3>1, <3>2
  <2> QED BY <2>3 DEF EntriesOf, Entries
<1>16. CASE ReadVector
  <2>1. PICK g \in Replies :
       /\ \E s \in Remainders(g.rest) : rx' = s
       /\ pending' \in LeftWaiting(g.code, desc.uuencode = 1)
       /\ \/ /\ g.code = 0 /\ mode = "synced"
             /\ addr' \in IF NoisyLine /\ desc.uuencode = 0 THEN Entries
                          ELSE EntriesOf(flash[0])
             /\ Goto("gounlock")
          \/ /\ g.code = 0
             /\ \E r \in IF desc.uuencode = 1 THEN {0} ELSE {-6, 1, 2, 3} : Return(r)
             /\ UNCHANGED addr
          \/ g.code = 4 /\ addr' = "low" /\ Goto("gounlock")
          \/ g.code \notin {0, 4} /\ Return(g.code) /\ UNCHANGED addr
    BY <1>16 DEF ReadVector
  <2>2. pc = "goaddr" /\ asked' = "no" /\ UNCHANGED <<part, mode, echo, unlocked, prepared, ram, flash>>
        /\ UNCHANGED <<cmd, file, patch, dev_id, desc, i, dump, starts, resets>>
    BY <1>16 DEF ReadVector, Reading, GoFrame, arguments, bounds
  <2>3. rx' \in Seq(Genuine) /\ g.code \in Int BY <1>9, <2>1
  <2>4. pending' \in {"line", "stray", "data"} BY <1>11, <2>1 DEF LeftWaiting
  <2>5. addr' \in Entries BY <1>0, <1>15, <2>1 DEF TypeOK, Entries
  <2>6. pc' \in {"exit", "gounlock"} /\ ret' \in Int BY <1>0, <2>1, <2>3 DEF Return, Goto
  <2>7. TypeOK' BY <1>0, <1>10, <2>2, <2>3, <2>4, <2>5, <2>6 DEF TypeOK, Places, Working
  <2> QED BY <1>2, <2>2, <2>6, <2>7
<1>17. ASSUME pc \in {"gounlock", "gorun"}, UNCHANGED <<part, target, addr>>, GoFrame, rx' \in Seq(Genuine),
              asked' \in {"no", "sent", "failed"}, pc' \in {"exit", "gorun"}, ret' \in Int
       PROVE  Typed'
  <2>1. TypeOK' BY <1>0, <1>17, StepTyped DEF GoFrame, TypeOK, Places, Working
  <2> QED BY <1>2, <1>17, <2>1 DEF GoFrame, arguments
<1>18. CASE ReadGoUnlock
  <2>1. PICK g \in Replies : Unread(g.rest) /\ IF g.code # 0 THEN Return(-1) ELSE Goto("gorun")
    BY <1>18 DEF ReadGoUnlock
  <2> QED BY <1>0, <1>9, <1>17, <1>18, <2>1 DEF ReadGoUnlock, Reading, Unread, Return, Goto
<1>19. CASE ReadGo
  <2>1. PICK g \in Replies :
       /\ Unread(g.rest)
       /\ Return(CASE g.code = -5 -> -4 [] g.code = -4 -> -3
                   [] g.code = 0 -> 0 [] g.code > 0 -> -1)
    BY <1>19 DEF ReadGo
  <2>2. g.code \in {-5, -4} \cup Nat
    <3>1. CASE rx # <<>> /\ g.code = CodeOf(Head(rx))
      <4>1. Head(rx) \in Genuine BY <1>0, <3>1
      <4>2. CodeOf(Head(rx)) \in 0 .. LargestRead BY <1>0, <4>1, CodeRange
      <4>3. CodeOf(Head(rx)) \in Nat BY <4>2 DEF LargestRead
      <4> QED BY <3>1, <4>3
    <3>2. g.code \in {-5, -4} \/ (rx # <<>> /\ g.code = CodeOf(Head(rx)))
      BY DEF Replies
    <3> QED BY <3>1, <3>2
  <2>3. pc' = "exit" /\ ret' \in Int BY <2>1, <2>2 DEF Return
  <2> QED BY <1>9, <1>17, <1>19, <2>1, <2>3 DEF ReadGo, Reading, Unread
<1>20. CASE GoTooLow
  BY <1>0, <1>11, <1>17, <1>20 DEF GoTooLow, Return
<1> QED BY <1>4, <1>5, <1>6, <1>7, <1>8, <1>12, <1>13, <1>14, <1>16, <1>18, <1>19, <1>20
        DEF DumpToFile, GetIds, StartProg

(* Starting, killing and resetting change nothing of this.                 *)
LEMMA TypedUser ==
  ASSUME Typed, User
  PROVE  Typed'
<1>0. TargetTypeOK /\ TypeOK /\ rx \in Seq(Genuine) /\ part \in Devices
  BY DEF Typed, TypeOK, TargetTypeOK
<1>1. CASE Start
  <2>1. PICK inv \in Invocations : cmd' = inv.cmd /\ file' = inv.file /\ patch' = inv.patch
    BY <1>1 DEF Start
  <2>2. cmd' \in Commands /\ file' \in Files \cup {NoFile} /\ patch' \in BOOLEAN
    BY <2>1, LineAssumption
  <2>3. rx' \in Seq(Genuine) BY <1>0, <1>1, RemaindersTyped DEF Start
  <2>4. TargetTypeOK' BY <1>0, <1>1, <2>3, SameTarget DEF Start
  <2>5. starts' \in 0 .. MaxStarts
    BY <1>0, <1>1, LineAssumption DEF Start, TypeOK
  <2>6. TypeOK'
    BY <1>0, <1>1, <2>2, <2>4, <2>5 DEF Start, TypeOK, Places, Handshake, Entries
  <2> QED BY <1>1, <2>6, Elsewhere DEF Start, Handshake
<1>2. CASE Kill
  <2>1. TargetTypeOK'
    BY <1>0, <1>2 DEF Kill, Lost, target, TargetTypeOK, Pages, Sectors, Genuine
  <2>2. TypeOK' BY <1>0, <1>2, <2>1 DEF Kill, TypeOK, Places, arguments, bounds
  <2> QED BY <1>2, <2>2, Elsewhere DEF Kill
<1>3. ASSUME Restarted, UNCHANGED <<part, rx>>, flash' \in [Pages(part) -> Contents]
      PROVE  TargetTypeOK'
  <2>1. Garbage \in Contents BY DEF Garbage, Plain, Contents, Kinds
  <2> QED BY <1>0, <1>3, <2>1 DEF Restarted, TargetTypeOK, Modes, Pages, Sectors, Genuine
<1>4. ASSUME TypeOK', UNCHANGED <<pc, part, cmd, file, patch, desc, i, dev_id>>,
             asked' = asked \/ pc \in {"erase", "copy"}
      PROVE  Typed'
  <2>1. ImageVerdict' = ImageVerdict BY <1>4 DEF ImageVerdict
  <2>2. Counted' BY <1>4, <2>1 DEF Typed, Counted, Flashing
  <2>3. RightPart' /\ Known' /\ Dispatched'
    BY <1>4 DEF Typed, RightPart, Known, Dispatched
  <2> QED BY <1>4, <2>2, <2>3 DEF Typed
<1>5. resets < MaxResets /\ resets' = resets + 1 => resets' \in 0 .. MaxResets
  BY <1>0, LineAssumption DEF TypeOK
<1>6. CASE PressReset
  <2>1. flash' \in [Pages(part) -> Contents] BY <1>0, <1>6 DEF PressReset, TargetTypeOK
  <2>2. TargetTypeOK' BY <1>3, <1>6, <2>1 DEF PressReset
  <2>3. TypeOK' BY <1>0, <1>5, <1>6, <2>2 DEF PressReset, host, TypeOK, arguments
  <2> QED BY <1>4, <1>6, <2>3 DEF PressReset, host, arguments
<1>7. ASSUME NEW at \in {"erase", "copy"}, NEW op, NEW arg, PressResetDuring(at, op, arg)
      PROVE  Typed'
  <2>1. Garbage \in Contents BY DEF Garbage, Plain, Contents, Kinds
  <2>2. flash' \in [Pages(part) -> Contents]
    BY <1>0, <1>7, <2>1 DEF PressResetDuring, CutShort, TargetTypeOK
  <2>3. TargetTypeOK' BY <1>3, <1>7, <2>2 DEF PressResetDuring, CutShort
  <2>4. TypeOK' BY <1>0, <1>5, <1>7, <2>3 DEF PressResetDuring, TypeOK, arguments
  <2> QED BY <1>4, <1>7, <2>4 DEF PressResetDuring, arguments
<1>8. CASE PressResetErasing BY <1>7, <1>8 DEF PressResetErasing
<1>9. CASE PressResetCopying BY <1>7, <1>9 DEF PressResetCopying
<1> QED BY <1>1, <1>2, <1>6, <1>8, <1>9 DEF User

(* It holds when the board is powered up and no program has run yet.       *)
LEMMA TypedInit ==
  ASSUME Init
  PROVE  Typed
<1>1. part \in Devices BY DEF Init, TargetInit
<1>2. Blank \in Contents /\ Old \in Contents /\ Garbage \in Contents
  BY DEF Blank, Old, Garbage, Plain, Contents, Kinds
<1>3. flash \in [Pages(part) -> Contents] BY <1>2 DEF Init, TargetInit
<1>4. <<>> \in Seq(Genuine) OBVIOUS
<1>5. TargetTypeOK BY <1>1, <1>2, <1>3, <1>4 DEF Init, TargetInit, TargetTypeOK, Modes
<1>6. TypeOK
  BY <1>5, LineAssumption DEF Init, TypeOK, Places, Commands, Entries
<1>7. pc = "idle" BY DEF Init
<1> QED
  BY <1>6, <1>7 DEF Typed, RightPart, Known, Counted, Dispatched, Working, Erasing, Flashing

(* The first inductive invariant is one.                                   *)
LEMMA TypedStep ==
  ASSUME Typed, [Next]_vars
  PROVE  Typed'
<1>1. CASE Program
  BY <1>1, TypedConnect, TypedIdentify, TypedEraseFlash, TypedFlashTarget, TypedOthers
     DEF Program
<1>2. CASE User BY <1>2, TypedUser
<1>3. CASE UNCHANGED vars
  <2>1. TypeOK'
    BY <1>3 DEF Typed, vars, target, host, arguments, bounds, TypeOK, TargetTypeOK, Pages, Sectors, Genuine
  <2>2. ImageVerdict' = ImageVerdict
    BY <1>3 DEF vars, host, arguments, ImageVerdict
  <2>3. RightPart' /\ Known' /\ Counted' /\ Dispatched'
    BY <1>3, <2>2 DEF Typed, vars, host, arguments, RightPart, Known, Counted, Dispatched
  <2> QED BY <2>1, <2>3 DEF Typed
<1> QED BY <1>1, <1>2, <1>3 DEF Next

(* So it always holds.                                                    *)
LEMMA TypedAlways == Spec => []Typed
<1> QED BY TypedInit, TypedStep, PTL DEF Spec

(* TypeOK holds of every behaviour: among others the sectors prepared and  *)
(* erased and the pages written exist on the part on the board.            *)
THEOREM TypeCorrect == Spec => []TypeOK
<1>1. Typed => TypeOK BY DEF Typed
<1> QED BY <1>1, TypedAlways, PTL

(* No command works with the description of another part than the one on   *)
(* the board, whatever becomes of the texts on the line, and however late  *)
(* the answers are: no refusal, echo, word or left-over digits are the id  *)
(* of a listed part.                                                       *)
THEOREM RightPartCorrect == Spec => []RightPart
<1>1. Typed => RightPart BY DEF Typed
<1> QED BY <1>1, TypedAlways, PTL

(***************************************************************************)
(* The second inductive invariant, for any line: where the pages in RAM    *)
(* and in flash come from.                                                 *)
(***************************************************************************)

(* No page of a protected image is anywhere on the board.                  *)
Unprotected ==
  /\ ram.kind = "image" => ~ram.file.crp
  /\ \A b \in Pages(part) : flash[b].kind = "image" => ~flash[b].file.crp

(* Encoded data is in RAM, acknowledged, before the copy is asked for.     *)
Placed ==
  part.uuencode = 1 =>
    /\ \A b \in Pages(part) :
         flash[b].kind = "image" =>
           /\ flash[b].page = b
           /\ b = 0 => flash[b].patched \/ flash[b].file.vectors
    /\ pc = "copy" /\ asked = "no" => ram \in {Page, Garbage}

Staged == Unprotected /\ Placed

(* A page can lose its content; only a copy gives it a new one.            *)
Fading ==
  /\ ram' \in {ram, Garbage}
  /\ \A b \in Pages(part) : flash'[b] \in {flash[b], Blank, Garbage}

(* Losing contents does no harm.                                           *)
LEMMA StagedFading ==
  ASSUME Typed, Staged, Fading, UNCHANGED part,
         pc' = "copy" /\ asked' = "no" =>
           asked = "no" /\ pc = "copy" /\ UNCHANGED <<file, patch, i>>
  PROVE  Staged'
<1>1. Unprotected'
  BY PlainKinds DEF Staged, Unprotected, Fading, Pages
<1>2. ASSUME part.uuencode = 1, NEW b \in Pages(part), flash'[b].kind = "image"
      PROVE  flash'[b].page = b /\ (b = 0 => flash'[b].patched \/ flash'[b].file.vectors)
  <2>1. flash'[b] = flash[b] BY <1>2, PlainKinds DEF Fading
  <2> QED BY <1>2, <2>1 DEF Staged, Placed
<1>3. ASSUME part.uuencode = 1, pc' = "copy", asked' = "no" PROVE ram' \in {Page', Garbage}
  <2>1. ram \in {Page, Garbage} BY <1>3 DEF Staged, Placed
  <2>2. Page' = Page BY <1>3 DEF Page, ImagePage
  <2> QED BY <2>1, <2>2 DEF Fading
<1> QED BY <1>1, <1>2, <1>3 DEF Staged, Placed, Pages

(* Every line but a copy only makes pages lose their content.              *)
LEMMA ObeyFading ==
  ASSUME TypeOK, NEW op, NEW arg, op # "C", Obey(op, arg)
  PROVE  Fading
<1> USE DEF Fading
<1>1. Execute(op, arg) => Fading
  <2>1. \A s : Erase(s) => Fading BY DEF Erase
  <2> QED
    BY <2>1 DEF Execute, KnownSectors, Refused, Unknown, ReadPartId, ReadUidOrVersion, Unlock, BlankCheck,
       Prepare, NotReady, WrongSectors, NotMapped, Compare, WriteRam, ReadMemory, Go, target
<1> QED BY <1>1 DEF Obey, target

(* What is staged in RAM and copied is a page of the image that passed the *)
(* tests of flash_target.                                                  *)
LEMMA PageStaged ==
  ASSUME Typed, pc \in {"data", "copy"}
  PROVE  /\ Page.kind = "image" /\ Page.page = i
         /\ ~Page.file.crp
         /\ i = 0 => Page.patched \/ Page.file.vectors
<1>1. ImageVerdict = 0 /\ WriteSize(desc) # 0 /\ desc \in Devices
  BY DEF Typed, TypeOK, TargetTypeOK, RightPart, Counted, Dispatched, Flashing, Working
<1>2. ~file.crp /\ (patch \/ file.vectors) BY <1>1, VerdictZero DEF Typed
<1> QED BY <1>2 DEF Page, ImagePage

(* A copy to page i puts there what was in RAM, or spoils the page.        *)
LEMMA StagedCopy ==
  ASSUME Typed, Staged, AskCopy
  PROVE  Staged'
<1>1. pc = "copy" /\ asked = "no" /\ asked' # "no" /\ UNCHANGED part
  BY DEF AskCopy, Ask, Write, Send
<1>2. CASE Fading BY <1>1, <1>2, StagedFading
<1>3. (ram' = ram /\ flash' = [flash EXCEPT ![i] = ram]) \/ Fading
  <2>1. CASE Lost BY <2>1 DEF Lost, Fading, target
  <2>2. CASE Obey("C", i)
    <3>1. Copy(i) => (ram' = ram /\ flash' = [flash EXCEPT ![i] = ram]) \/ Fading
      <4>1. flash \in [Pages(part) -> Contents] BY DEF Typed, TypeOK, TargetTypeOK
      <4>2. CASE flash[i] = Blank BY <4>2 DEF Copy
      <4>3. CASE flash[i] # Blank BY <4>1, <4>3 DEF Copy, Fading
      <4> QED BY <4>2, <4>3
    <3>2. Execute("C", i) => Copy(i) \/ Fading
      BY DEF Execute, KnownSectors, Refused, NotReady, target, Fading
    <3> QED BY <2>2, <3>1, <3>2 DEF Obey, Fading, target
  <2> QED BY <2>1, <2>2 DEF AskCopy, Ask, Write, Send
<1>4. CASE ram' = ram /\ flash' = [flash EXCEPT ![i] = ram]
  <2>1. \A b \in Pages(part) : flash'[b] = flash[b] \/ (b = i /\ flash'[b] = ram)
    BY <1>4 DEF Typed, TypeOK, TargetTypeOK
  <2>2. Unprotected' BY <1>1, <1>4, <2>1 DEF Staged, Unprotected, Pages
  <2>3. ASSUME part.uuencode = 1, NEW b \in Pages(part), flash'[b].kind = "image"
        PROVE  flash'[b].page = b /\ (b = 0 => flash'[b].patched \/ flash'[b].file.vectors)
    <3>1. CASE flash'[b] = flash[b] BY <2>3, <3>1 DEF Staged, Placed
    <3>2. CASE b = i /\ flash'[b] = ram
      <4>1. ram = Page BY <1>1, <2>3, <3>2, PlainKinds DEF Staged, Placed
      <4> QED BY <1>1, <3>2, <4>1, PageStaged
    <3> QED BY <2>1, <3>1, <3>2
  <2> QED BY <1>1, <2>2, <2>3 DEF Staged, Placed, Pages
<1> QED BY <1>2, <1>3, <1>4

(* Every step of the program keeps it.                                     *)
LEMMA StagedProgram ==
  ASSUME Typed, Staged, Program
  PROVE  Staged'
<1>0. TypeOK BY DEF Typed
<1>1. ASSUME UNCHANGED <<part, ram, flash>>, pc' # "copy" PROVE Staged'
  BY <1>1, StagedFading DEF Fading
<1>2. ASSUME NEW at, NEW ACTION heard, Write(at, heard), heard => Fading PROVE Staged'
  <2>1. Lost => Fading BY DEF Lost, Fading, target
  <2>2. Fading BY <1>2, <2>1 DEF Write, Send
  <2> QED BY <1>2, <2>2, StagedFading DEF Write, Send
<1>3. ASSUME NEW at, NEW op, NEW arg, op # "C", Ask(at, op, arg) PROVE Staged'
  BY <1>0, <1>2, <1>3, ObeyFading DEF Ask
<1>4. Obey("?", 0) => Fading BY <1>0, ObeyFading
<1>5. CASE Connect
  <2>1. HearQuestion => Fading BY DEF HearQuestion, Fading, target
  <2>2. HearSynchronized => Fading BY <1>4 DEF HearSynchronized, Fading
  <2>3. HearFrequency => Fading BY <1>4 DEF HearFrequency
  <2>4. HearEchoOff => Fading BY <1>4 DEF HearEchoOff, Refused, Fading, target
  <2>5. AskQuestion \/ AskSynchro \/ AskFreq \/ AskEchoOff => Staged'
    BY <1>2, <2>1, <2>2, <2>3, <2>4 DEF AskQuestion, AskSynchro, AskFreq, AskEchoOff
  <2>6. ReadSynchronized \/ ReadSynchroOk \/ ReadFreqOk \/ ReadEchoOff => Staged'
    BY <1>1 DEF ReadSynchronized, ReadSynchroOk, ReadFreqOk, Acknowledges, ReadEchoOff,
       Goto, Unread, target
  <2> QED BY <1>5, <2>5, <2>6 DEF Connect
<1>6. CASE Identify
  <2>1. AskProbe \/ AskIdent => Staged' BY <1>3 DEF AskProbe, AskIdent
  <2>2. ReadProbe \/ ReadIdent => Staged'
    BY <1>1 DEF ReadProbe, ReadIdent, Goto, Return, Unread, target
  <2>3. Dispatch => Staged'
    <3>1. FirstPlace[cmd] # "copy" BY <1>0 DEF TypeOK, Commands, FirstPlace
    <3> QED BY <1>1, <3>1 DEF Dispatch, Goto, Return, target
  <2> QED BY <1>6, <2>1, <2>2, <2>3 DEF Identify
<1>7. CASE EraseFlash
  <2>1. AskUnlock \/ AskBlankCheck \/ AskErasePrep \/ AskErase => Staged'
    BY <1>3 DEF AskUnlock, AskBlankCheck, AskErasePrep, AskErase
  <2>2. ReadUnlock \/ ReadBlankCheck \/ ReadErasePrep \/ ReadErase \/ FlashNowBlank => Staged'
    BY <1>1 DEF ReadUnlock, ReadBlankCheck, ReadErasePrep, ReadErase, FlashNowBlank,
       EraseFailed, Goto, Return, Unread, target
  <2> QED BY <1>7, <2>1, <2>2 DEF EraseFlash
<1>8. CASE FlashTarget
  <2>1. AskPrepare \/ AskRam => Staged' BY <1>3 DEF AskPrepare, AskRam
  <2>2. LoadImage \/ ReadPrepare \/ ReadRam \/ ReadCopy \/ FlashDone => Staged'
    BY <1>1 DEF LoadImage, ReadPrepare, ReadRam, ReadCopy, FlashDone, Goto, Return, Unread, target
  <2>3. ASSUME pc = "data", UNCHANGED <<part, flash, file, patch, i>>, ram' \in {ram, Page, Garbage},
               pc' = "copy" /\ part.uuencode = 1 => ram' = Page
        PROVE  Staged'
    <3>1. Unprotected' BY <2>3, PageStaged, PlainKinds DEF Staged, Unprotected, Pages
    <3>2. Page' = Page BY <2>3 DEF Page, ImagePage
    <3> QED BY <2>3, <3>1, <3>2 DEF Staged, Placed, Pages
  <2>4. Spilled(Page) => ram' \in {ram, Page, Garbage} /\ flash' = flash BY DEF Spilled, target
  <2>5. desc = part \/ pc # "data" BY DEF Typed, RightPart, Working, Flashing
  <2>6. SendEncoded => Staged' BY <2>3 DEF SendEncoded, InRam, EraseFrame, arguments
  <2>7. SendTwice => Staged'
    <3>1. ASSUME SendTwice, InRam(Garbage) PROVE Staged'
      <4>1. UNCHANGED <<part, flash, file, patch, i>> /\ ram' = Garbage
        BY <3>1 DEF SendTwice, InRam, EraseFrame, arguments
      <4>2. Unprotected' BY <4>1, PlainKinds DEF Staged, Unprotected, Pages
      <4>3. Placed' BY <4>1 DEF Staged, Placed, Pages
      <4> QED BY <4>2, <4>3 DEF Staged
    <3> QED BY <2>3, <3>1 DEF SendTwice, InRam, EraseFrame, arguments
  <2>8. SendRaw => Staged' BY <2>3, <2>4, <2>5 DEF SendRaw, InRam, EraseFrame, arguments
  <2>9. SendFailed => Staged' BY <2>3, <2>4 DEF SendFailed, Return, EraseFrame, arguments
  <2> QED BY <1>8, <2>1, <2>2, <2>6, <2>7, <2>8, <2>9, StagedCopy DEF FlashTarget
<1>9. CASE DumpToFile \/ GetIds
  <2>1. AskDump \/ AskId => Staged'
    <3>1. CASE AskDump BY <1>3, <3>1 DEF AskDump
    <3>2. CASE AskId
      <4>1. PICK n \in 1 .. 3 : n = i + 1 BY <1>0, <3>2 DEF AskId, TypeOK
      <4>2. <<"J", "N", "K">>[n] # "C" BY <4>1
      <4> QED BY <1>3, <3>2, <4>1, <4>2 DEF AskId
    <3> QED BY <3>1, <3>2
  <2>2. ReadDump => Staged' BY <1>1 DEF ReadDump, Return
  <2>3. DumpNoMemory \/ ReadId => Staged'
    BY <1>1 DEF DumpNoMemory, ReadId, Goto, Return, Unread, target
  <2> QED BY <1>9, <2>1, <2>2, <2>3 DEF DumpToFile, GetIds
<1>10. CASE StartProg
  <2>1. AskVector \/ AskGoUnlock \/ AskGo => Staged' BY <1>3 DEF AskVector, AskGoUnlock, AskGo
  <2>2. ReadVector => Staged' BY <1>1 DEF ReadVector, Goto, Return
  <2>3. ReadGoUnlock \/ ReadGo \/ GoTooLow => Staged'
    BY <1>1 DEF ReadGoUnlock, ReadGo, GoTooLow, Goto, Return, Unread, target
  <2> QED BY <1>10, <2>1, <2>2, <2>3 DEF StartProg
<1> QED BY <1>5, <1>6, <1>7, <1>8, <1>9, <1>10 DEF Program

(* ... and every step there is.                                            *)
LEMMA StagedStep ==
  ASSUME Typed, Staged, [Next]_vars
  PROVE  Staged'
<1>1. CASE Program BY <1>1, StagedProgram
<1>2. CASE User
  <2>1. Start \/ Kill => Fading /\ pc' # "copy" /\ UNCHANGED part
    BY DEF Start, Kill, Lost, Fading, target
  <2>2. PressReset => /\ Fading /\ UNCHANGED part
                      /\ UNCHANGED <<pc, asked, file, patch, i>>
    BY DEF PressReset, Restarted, Fading, host, arguments
  <2>3. PressResetErasing \/ PressResetCopying => Fading /\ asked' # "no" /\ UNCHANGED part
    <3>1. flash \in [Pages(part) -> Contents] BY DEF Typed, TypeOK, TargetTypeOK
    <3> QED BY <3>1 DEF PressResetErasing, PressResetCopying, PressResetDuring, CutShort, Restarted, Fading
  <2> QED BY <1>2, <2>1, <2>2, <2>3, StagedFading DEF User
<1>3. CASE UNCHANGED vars
  BY <1>3, StagedFading DEF vars, target, host, arguments, Fading
<1> QED BY <1>1, <1>2, <1>3 DEF Next

(* The second inductive invariant holds from the start, and always.        *)
LEMMA StagedAlways == Spec => []Staged
<1>1. Init => Staged
  BY PlainKinds DEF Init, TargetInit, Staged, Unprotected, Placed
<1>2. Typed /\ Staged /\ [Next]_vars => Staged' BY StagedStep
<1> QED BY <1>1, <1>2, TypedAlways, PTL DEF Spec

(* On any line, with any number of runs of the program, nothing of a       *)
(* protected image ever gets on the board, and a board with encoded        *)
(* transfers never has a first page with wrong vectors.                    *)
THEOREM NeverProtectedCorrect == Spec => []NeverProtected
<1>1. Staged => NeverProtected BY DEF Staged, Unprotected, Placed, NeverProtected
<1> QED BY <1>1, StagedAlways, PTL

(* Nor does a page of an encoded transfer ever land in another place.      *)
THEOREM InPlaceCorrect == Spec => []InPlace
<1>1. Staged => InPlace BY DEF Staged, Placed, InPlace
<1> QED BY <1>1, StagedAlways, PTL

-----------------------------------------------------------------------------
(***************************************************************************)
(* From here on, a line that is not slow: every answer comes before the    *)
(* program stops waiting for it, or never.  The line may still lose and    *)
(* alter text, and the program be killed and the target reset at any       *)
(* moment, any number of times.                                            *)
(***************************************************************************)

(***************************************************************************)
(* The inductive invariant when answers come in time.                      *)
(***************************************************************************)

(* An answer is there, and its code says success.                          *)
Accepted == asked = "sent" /\ rx # <<>> /\ CodeOf(Head(rx)) = 0

(* A line is written when the answer to the one before was read; a write   *)
(* that failed has no answer.                                              *)
Drained ==
  /\ pc # "idle" /\ asked # "sent" => rx = <<>>
  /\ pc \in {"dispatch", "data"} => asked = "no"
  /\ NeverOutOfOrder

(* A code is short, and one line unless more is announced.                 *)
Short ==
  asked = "sent" /\ pc \notin Handshake /\ rx # <<>> =>
    /\ Head(rx) <= LargestRead
    /\ \/ Len(rx) = 1
       \/ pc \in {"probe", "ident", "id"} /\ CodeOf(Head(rx)) = 0
       \/ pc = "check" /\ CodeOf(Head(rx)) # 0

(* The target is in a session with its echo off, or silent.                *)
Opened == mode \in {"synced", "reset", "running"} /\ (mode = "synced" => ~echo)

InSession ==
  /\ pc \in Working => Opened
  /\ pc = "dispatch" /\ dev_id = part.part_id => Opened
  /\ pc = "ident" /\ asked = "sent" /\ Len(rx) >= 2 /\ NumberOf(rx[2]) = part.part_id => Opened

(* What the accepted commands left the target ready for.                   *)
Ready ==
  mode = "synced" =>
    /\ pc \in {"check", "eprep", "erase", "load", "gorun"} \cup Flashing => unlocked
    /\ pc \in {"unlock", "gounlock"} /\ Accepted => unlocked
    /\ pc = "eprep" /\ Accepted => i \in prepared
    /\ pc = "erase" /\ asked = "no" => i \in prepared
    /\ pc = "prep" /\ Accepted => SectorOf(part, i) \in prepared
    /\ pc \in {"ram", "data"} => SectorOf(part, i) \in prepared
    /\ pc = "copy" /\ asked = "no" => SectorOf(part, i) \in prepared
    /\ pc = "ram" /\ Accepted => pending = "data"
    /\ pc = "data" => pending = "data"
    /\ Checked /\ pc = "copy" /\ asked = "no" /\ pending = "line" => ram = Page

BlankBefore(s) == \A b \in Pages(part) : SectorOf(part, b) < s => flash[b] = Blank
AllBlank == \A b \in Pages(part) : flash[b] = Blank

(* The sectors the erase loop has passed are blank.                        *)
Blanked ==
  /\ pc \in {"check", "eprep", "erase"} => BlankBefore(i)
  /\ pc \in {"check", "erase"} /\ Accepted => BlankSectors({i})
  /\ pc = "load" => AllBlank
  /\ pc = "exit" /\ ret = 0 /\ cmd = "blank" => AllBlank

Prefix(n) ==
  \A b \in Pages(part) :
    flash[b] = IF b < n THEN ImagePage(file, patch, b) ELSE Blank

(* The blocks the flash loop has passed are in flash.                      *)
Written ==
  Checked =>
    /\ pc \in {"prep", "ram", "data"} => Prefix(i)
    /\ pc = "copy" /\ asked = "no" => Prefix(i)
    /\ pc = "copy" /\ Accepted => Prefix(i + 1)
    /\ pc = "exit" /\ ret = 0 /\ cmd = "flash" => Prefix(Blocks(file, part))

(* The other places belong to the other commands.                          *)
Others ==
  /\ pc = "dump" => cmd = "dump"
  /\ pc = "id" => cmd = "id"
  /\ pc \in {"goaddr", "gounlock", "gorun"} => cmd = "go"

Quiet == Drained /\ Short /\ InSession /\ Ready /\ Blanked /\ Written /\ Others

(***************************************************************************)
(* What the proof keeps needing: answers, replies and outcomes.            *)
(***************************************************************************)

(* A short code that is no complaint about the order of the commands.      *)
Complaints == {CMD_LOCKED, SECTOR_NOT_PREPARED_FOR_WRITE_OPERATION}
Refusing(c) == c \in 1 .. LargestRead /\ c \notin Complaints

(* The line was lost, spoilt, taken for data, not heard or refused.        *)
Fruitless ==
  /\ UNCHANGED <<mode, echo, unlocked, prepared, flash>>
  /\ rx' = <<>> \/ (asked' = "sent" /\ \E c \in Nat : Refusing(c) /\ rx' = <<c>>)

(* A line that complains about the order of the commands is a word printed *)
(* after a code.                                                           *)
InOrder(text) == \A n \in 1 .. Len(text) : text[n] \in Complaints => n > 1 /\ text[n] \in Words

(* With or without the echo in front, an answer that is in order arrives   *)
(* so.                                                                     *)
LEMMA AnswerInOrder ==
  ASSUME rx = <<>>, NEW text \in Seq(Tokens), Answer(text), InOrder(text)
  PROVE  InOrder(rx')
<1>1. CASE ~echo BY <1>1, AnswerAlone
<1>2. CASE echo
  <2>1. /\ Len(rx') = Len(text) + 1 /\ rx'[1] = 0
        /\ \A n \in 2 .. Len(rx') : rx'[n] = text[n - 1]
    BY <1>2, AnswerAlone
  <2>2. Len(text) \in Nat OBVIOUS
  <2>3. 0 \notin Complaints BY DEF Complaints, CMD_LOCKED, SECTOR_NOT_PREPARED_FOR_WRITE_OPERATION
  <2> QED BY <2>1, <2>2, <2>3 DEF InOrder
<1> QED BY <1>1, <1>2

(* Every text of the target is in order but the two complaints.            *)
LEMMA TextsInOrder ==
  ASSUME part \in Devices
  PROVE  /\ \A c \in Tokens \ Complaints : <<c>> \in Seq(Tokens) /\ InOrder(<<c>>)
         /\ \A c \in Refusals : c \in Tokens \ Complaints /\ Refusing(c)
         /\ {0, INVALID_COMMAND, INVALID_SECTOR, ADDR_ERROR, ADDR_NOT_MAPPED, SYNCHRO, SYNCHRO_OK}
               \subseteq Tokens \ Complaints
         /\ \A w \in Words \cup {part.part_id} :
              <<0, w>> \in Seq(Tokens) /\ InOrder(<<0, w>>)
         /\ \A w \in Words :
              /\ <<SECTOR_NOT_BLANK, 0, w>> \in Seq(Tokens) /\ InOrder(<<SECTOR_NOT_BLANK, 0, w>>)
              /\ <<COMPARE_ERROR, w>> \in Seq(Tokens) /\ InOrder(<<COMPARE_ERROR, w>>)
<1> USE DEF Tokens, Complaints, CMD_LOCKED, SECTOR_NOT_PREPARED_FOR_WRITE_OPERATION, SYNCHRO, SYNCHRO_OK, RESEND
<1>1. \A c \in Tokens \ Complaints : <<c>> \in Seq(Tokens) /\ InOrder(<<c>>) BY DEF InOrder
<1>2. \A c \in Refusals : c \in Tokens \ Complaints /\ Refusing(c)
  BY RepliesAssumption DEF LastCode, LargestRead, Refusing
<1>3. {0, INVALID_COMMAND, INVALID_SECTOR, ADDR_ERROR, ADDR_NOT_MAPPED, SYNCHRO, SYNCHRO_OK}
        \subseteq Tokens \ Complaints
  BY DEF INVALID_COMMAND, INVALID_SECTOR, ADDR_ERROR, ADDR_NOT_MAPPED
<1>4. \A w \in Words : w \in Nat BY RepliesAssumption
<1>5. part.part_id \in Nat /\ part.part_id > LargestRead BY PartFields
<1>6. ASSUME NEW w \in Words \cup {part.part_id}
      PROVE  <<0, w>> \in Seq(Tokens) /\ InOrder(<<0, w>>)
  <2>1. w \in Nat /\ (w > LargestRead \/ w \in Words) BY <1>4, <1>5
  <2> QED BY <2>1 DEF InOrder, LargestRead
<1>7. ASSUME NEW w \in Words
      PROVE  /\ <<SECTOR_NOT_BLANK, 0, w>> \in Seq(Tokens) /\ InOrder(<<SECTOR_NOT_BLANK, 0, w>>)
             /\ <<COMPARE_ERROR, w>> \in Seq(Tokens) /\ InOrder(<<COMPARE_ERROR, w>>)
  <2>1. w \in Nat BY <1>4
  <2>2. /\ <<SECTOR_NOT_BLANK, 0, w>> \in Seq(Tokens) /\ <<COMPARE_ERROR, w>> \in Seq(Tokens)
    BY <2>1 DEF SECTOR_NOT_BLANK, COMPARE_ERROR
  <2>3. InOrder(<<SECTOR_NOT_BLANK, 0, w>>) BY <2>1 DEF InOrder, SECTOR_NOT_BLANK
  <2>4. InOrder(<<COMPARE_ERROR, w>>) BY <2>1 DEF InOrder, COMPARE_ERROR
  <2> QED BY <2>2, <2>3, <2>4
<1> QED BY <1>1, <1>2, <1>3, <1>6, <1>7

(* What a target that is ready for the command answers is in order.        *)
LEMMA ObeyInOrder ==
  ASSUME part \in Devices, rx = <<>>, NEW op, NEW arg, Obey(op, arg),
         mode = "synced" /\ op \in {"E", "C", "G"} => unlocked,
         mode = "synced" /\ op = "E" => arg \subseteq prepared,
         mode = "synced" /\ op = "C" => SectorOf(part, arg) \in prepared
  PROVE  NeverOutOfOrder'
<1>1. ASSUME NEW c \in Tokens \ Complaints, Answer(<<c>>) PROVE InOrder(rx')
  BY <1>1, AnswerInOrder, TextsInOrder
<1>2. ASSUME NEW w \in Words \cup {part.part_id}, Answer(<<0, w>>) PROVE InOrder(rx')
  BY <1>2, AnswerInOrder, TextsInOrder
<1>3. ASSUME NEW w \in Words, Answer(<<SECTOR_NOT_BLANK, 0, w>>) \/ Answer(<<COMPARE_ERROR, w>>)
      PROVE  InOrder(rx')
  BY <1>3, AnswerInOrder, TextsInOrder
<1>4. InOrder(<<>>) BY DEF InOrder
<1>5. CASE mode = "synced" /\ pending = "line" /\ Execute(op, arg)
  <2>1. Refused => InOrder(rx') BY <1>1, TextsInOrder DEF Refused
  <2>2. ReadPartId \/ ReadUidOrVersion => InOrder(rx')
    BY <1>2 DEF ReadPartId, ReadUidOrVersion, CMD_SUCCESS
  <2>3. Unlock \/ Prepare(arg) \/ WrongSectors \/ NotMapped \/ WriteRam \/ ReadMemory \/ Unknown => InOrder(rx')
    BY <1>1, TextsInOrder DEF Unlock, Prepare, WrongSectors, NotMapped, WriteRam, ReadMemory, Unknown, CMD_SUCCESS
  <2>4. Erase(arg) \/ Copy(arg) => InOrder(rx')
    BY <1>1, TextsInOrder DEF Erase, Copy, CMD_SUCCESS
  <2>5. BlankCheck(arg) \/ Compare(arg) => InOrder(rx')
    BY <1>1, <1>3, TextsInOrder DEF BlankCheck, Compare, CMD_SUCCESS
  <2>6. op = "E" => ~NotReady(arg) BY <1>5 DEF NotReady
  <2>7. op = "C" => ~NotReady({SectorOf(part, arg)}) BY <1>5 DEF NotReady
  <2>8. op = "G" /\ Go(arg = 1) => InOrder(rx')
    BY <1>1, <1>5, TextsInOrder DEF Go, CMD_SUCCESS
  <2>9. InOrder(rx')
    BY <1>5, <2>1, <2>2, <2>3, <2>4, <2>5, <2>6, <2>7, <2>8 DEF Execute
  <2> QED BY <2>9 DEF NeverOutOfOrder, InOrder, Complaints
<1>6. CASE ~(mode = "synced" /\ pending = "line")
  <2>1. InOrder(rx') BY <1>1, <1>4, <1>6, TextsInOrder DEF Obey
  <2> QED BY <2>1 DEF NeverOutOfOrder, InOrder, Complaints
<1> QED BY <1>5, <1>6 DEF Obey

(* A read on a line that is not slow leaves nothing of an answer, and a    *)
(* success code was sent as such.                                          *)
LEMMA ReplyQuiet ==
  ASSUME ~SlowLine, Typed, Drained, Short, pc \notin Handshake \cup {"idle"}, asked # "no",
         NEW g \in Replies
  PROVE  /\ g.code = 0 => Accepted
         /\ \A s : Remainders(s) = {<<>>}
         /\ pc \notin {"probe", "ident", "id", "check"} => g.rest = <<>>
         /\ pc = "check" /\ g.code <= 0 => g.rest = <<>>
         /\ pc \in {"probe", "ident", "id"} /\ g.code # 0 => g.rest = <<>>
         /\ g.rest # <<>> => asked = "sent" /\ rx # <<>> /\ g.rest = Tail(rx)
         /\ g.code \in Int
<1>0. rx \in Seq(Genuine) /\ asked \in {"sent", "failed"} /\ part \in Devices
  BY DEF Typed, TypeOK, TargetTypeOK
<1>1. \A s : Remainders(s) = {<<>>} BY DEF Remainders
<1>2. CASE asked = "failed"
  <2>1. g = [code |-> -5, rest |-> rx] BY <1>2 DEF Replies
  <2>2. rx = <<>> BY <1>2 DEF Drained
  <2> QED BY <1>1, <2>1, <2>2
<1>3. CASE asked = "sent" /\ g = [code |-> -4, rest |-> <<>>]
  BY <1>1, <1>3
<1>4. CASE asked = "sent" /\ g # [code |-> -4, rest |-> <<>>]
  <2>1. rx # <<>> /\ \E d \in Digits(Head(rx)) : g = [code |-> CodeOf(Head(rx)), rest |-> d \o Tail(rx)]
    BY <1>4 DEF Replies
  <2>2. Head(rx) \in Genuine /\ Tail(rx) \in Seq(Genuine) BY <1>0, <2>1
  <2>3. Head(rx) <= LargestRead BY <1>4, <2>1 DEF Short
  <2>4. Digits(Head(rx)) = {<<>>}
    <3>1. ~(NumberOf(Head(rx)) > LargestRead)
      BY <2>2, <2>3 DEF NumberOf, LargestRead, Genuine, Tokens, SYNCHRO, SYNCHRO_OK, RESEND
    <3> QED BY <3>1 DEF Digits
  <2>5. g.code = CodeOf(Head(rx)) /\ g.rest = Tail(rx) BY <2>1, <2>2, <2>4
  <2>6. g.code \in Nat
    <3>1. CodeOf(Head(rx)) \in 0 .. LargestRead BY <1>0, <2>2, CodeRange
    <3>2. \A c \in 0 .. LargestRead : c \in Nat BY DEF LargestRead
    <3> QED BY <2>5, <3>1, <3>2
  <2>7. Len(rx) = 1 => Tail(rx) = <<>>
    <3>1. Len(rx) = 1 => Len(Tail(rx)) = 0 BY <1>0, <2>1
    <3> HIDE <1>0, <2>1
    <3>2. Tail(rx) # <<>> => Len(Tail(rx)) \in Nat \ {0} BY <2>2, EmptySeq
    <3> QED BY <3>1, <3>2
  <2> QED BY <1>1, <1>4, <2>1, <2>5, <2>6, <2>7 DEF Short, Accepted
<1> QED BY <1>0, <1>2, <1>3, <1>4

(* The same of the texts of the handshake, whatever state it is heard in.  *)
LEMMA HandshakeInOrder ==
  ASSUME part \in Devices, rx = <<>>,
         HearQuestion \/ HearSynchronized \/ HearFrequency \/ HearEchoOff
  PROVE  NeverOutOfOrder'
<1>1. ASSUME NEW c \in Tokens \ Complaints, Answer(<<c>>) PROVE NeverOutOfOrder'
  BY <1>1, AnswerInOrder, TextsInOrder DEF NeverOutOfOrder, InOrder, Complaints
<1>2. Obey("?", 0) => NeverOutOfOrder' BY ObeyInOrder
<1>3. HearQuestion => NeverOutOfOrder'
  <2>1. ASSUME NEW c \in {0, SYNCHRO} PROVE InOrder(<<c>>)
    BY TextsInOrder
  <2>2. Append(rx, SYNCHRO) = <<SYNCHRO>> OBVIOUS
  <2>3. rx \o <<0>> = <<0>> /\ rx \o <<>> = <<>>
    <3>1. <<>> \in Seq(Tokens) /\ <<0>> \in Seq(Tokens) BY DEF Tokens
    <3> QED BY <3>1, ConcatEmptySeq
  <2>4. InOrder(<<>>) BY DEF InOrder
  <2>5. HearQuestion => rx' \in {<<SYNCHRO>>, <<0>>, <<>>} BY <2>2, <2>3 DEF HearQuestion
  <2> QED BY <2>1, <2>4, <2>5 DEF NeverOutOfOrder, InOrder, Complaints
<1>4. HearSynchronized => NeverOutOfOrder'
  BY <1>1, <1>2, TextsInOrder DEF HearSynchronized
<1>5. HearEchoOff => NeverOutOfOrder'
  BY <1>1, <1>2, TextsInOrder DEF HearEchoOff, Refused, CMD_SUCCESS
<1> QED BY <1>2, <1>3, <1>4, <1>5 DEF HearFrequency

(* What a line written by a command of the program leads to, of a target   *)
(* that is silent or in a session with its echo off.                       *)
Fruitful(op, arg) ==
  /\ asked' = "sent" /\ mode = "synced"
  /\ \/ op = "U" /\ rx' = <<0>> /\ unlocked' /\ UNCHANGED <<mode, echo, pending, prepared, flash>>
     \/ op = "I" /\ BlankSectors(arg) /\ rx' = <<0>> /\ UNCHANGED target
     \/ op = "I" /\ (\E w \in Words : rx' = <<SECTOR_NOT_BLANK, 0, w>>) /\ UNCHANGED target
     \/ op = "P" /\ rx' = <<0>> /\ prepared' = arg /\ UNCHANGED <<mode, echo, pending, unlocked, flash>>
     \/ op = "E" /\ rx' = <<0>> /\ Erase(arg)
     \/ op = "C" /\ rx' = <<0>> /\ Copy(arg) /\ pending = "line"
     \/ op = "W" /\ rx' = <<0>> /\ pending' = "data" /\ UNCHANGED <<mode, echo, unlocked, prepared, flash>>
     \/ op = "R" /\ rx' = <<0>> /\ UNCHANGED target
     \/ op \in {"J", "N", "K"} /\ (\E w \in Words \cup {part.part_id} : rx' = <<0, w>>) /\ UNCHANGED target
     \/ op = "G" /\ rx' = <<0>> /\ mode' = "running"

(* A command asked in its proper order is lost, refused, or obeyed: what   *)
(* Ask leaves on the line and in the target is one of these.               *)
LEMMA AskOutcome ==
  ASSUME part \in Devices, rx = <<>>, Opened, NEW at, NEW op, NEW arg, Ask(at, op, arg),
         op \notin {"M", "X", "?"},
         mode = "synced" /\ op \in {"E", "C", "G"} => unlocked,
         mode = "synced" /\ op = "E" => arg \subseteq prepared,
         mode = "synced" /\ op = "C" => SectorOf(part, arg) \in prepared
  PROVE  Fruitless \/ Fruitful(op, arg)
<1>1. CASE Lost BY <1>1 DEF Lost, target, Fruitless
<1>2. CASE asked' = "sent" /\ Obey(op, arg)
  <2>1. ASSUME ~echo, NEW c \in Tokens, Answer(<<c>>) PROVE rx' = <<c>>
    <3>1. <<c>> \in Seq(Tokens) OBVIOUS
    <3> QED BY <2>1, <3>1, AnswerAlone
  <2>2. ASSUME ~echo, NEW c \in {INVALID_COMMAND, INVALID_SECTOR, ADDR_ERROR, ADDR_NOT_MAPPED} \cup Refusals,
               Answer(<<c>>), UNCHANGED <<mode, echo, unlocked, prepared, flash>>
        PROVE  Fruitless
    <3>1. c \in Tokens /\ c \in Nat /\ Refusing(c)
      <4>1. CASE c \in Refusals
        <5>1. c \in Nat BY <4>1, RepliesAssumption DEF LastCode
        <5> QED BY <4>1, <5>1, TextsInOrder
      <4>2. CASE c \in {INVALID_COMMAND, INVALID_SECTOR, ADDR_ERROR, ADDR_NOT_MAPPED}
        BY <4>2 DEF Refusing, INVALID_COMMAND, INVALID_SECTOR, ADDR_ERROR, ADDR_NOT_MAPPED, LargestRead,
           Complaints, CMD_LOCKED, SECTOR_NOT_PREPARED_FOR_WRITE_OPERATION, Tokens
      <4> QED BY <2>2, <4>1, <4>2
    <3> QED BY <1>2, <2>1, <2>2, <3>1 DEF Fruitless
  <2>3. CASE mode = "synced" /\ pending = "line" /\ Execute(op, arg)
    <3>0. ~echo /\ 0 \in Tokens BY <2>3 DEF Opened, Tokens
    <3> USE <1>2, <2>3, <3>0
    <3>1. CASE Refused BY <2>2, <3>1 DEF Refused, target
    <3>2. CASE op \in {"J", "N", "K"} /\ ~Refused
      <4>1. \E w \in Words \cup {part.part_id} : Answer(<<0, w>>) /\ UNCHANGED target
        BY <3>2 DEF Execute, ReadPartId, ReadUidOrVersion, CMD_SUCCESS
      <4>2. PICK w \in Words \cup {part.part_id} : Answer(<<0, w>>) /\ UNCHANGED target
        BY <4>1
      <4>3. rx' = <<0, w>> BY <4>2, AnswerAlone, TextsInOrder
      <4> QED BY <3>2, <4>2, <4>3 DEF Fruitful
    <3>3. CASE op = "U" /\ ~Refused
      BY <2>1, <3>3 DEF Execute, Unlock, CMD_SUCCESS, Fruitful
    <3>4. CASE op \in {"I", "P", "E"} /\ WrongSectors
      BY <2>2, <3>4 DEF WrongSectors, target
    <3>5. CASE op = "I" /\ ~Refused /\ ~WrongSectors
      <4>1. BlankCheck(arg) BY <3>5 DEF Execute
      <4>2. CASE BlankSectors(arg) BY <2>1, <3>5, <4>1, <4>2 DEF BlankCheck, Fruitful, CMD_SUCCESS
      <4>3. CASE ~BlankSectors(arg)
        <5>1. PICK w \in Words : Answer(<<SECTOR_NOT_BLANK, 0, w>>) BY <4>1, <4>3 DEF BlankCheck
        <5>2. rx' = <<SECTOR_NOT_BLANK, 0, w>> BY <5>1, AnswerAlone, TextsInOrder
        <5> QED BY <3>5, <4>1, <5>2 DEF BlankCheck, Fruitful
      <4> QED BY <4>2, <4>3
    <3>6. CASE op = "P" /\ ~Refused /\ ~WrongSectors
      BY <2>1, <3>6 DEF Execute, Prepare, CMD_SUCCESS, Fruitful
    <3>7. CASE op = "E" /\ ~Refused /\ ~WrongSectors
      <4>1. Erase(arg) BY <3>7 DEF Execute, NotReady
      <4> QED BY <2>1, <3>7, <4>1 DEF Erase, CMD_SUCCESS, Fruitful
    <3>8. CASE op = "C" /\ ~Refused
      <4>1. Copy(arg) BY <3>8 DEF Execute, NotReady
      <4> QED BY <2>1, <3>8, <4>1 DEF Copy, CMD_SUCCESS, Fruitful
    <3>9. CASE op = "W" /\ ~Refused
      BY <2>1, <2>2, <3>9 DEF Execute, WriteRam, CMD_SUCCESS, Fruitful, target
    <3>10. CASE op = "R" /\ ~Refused
      BY <2>1, <3>10 DEF Execute, ReadMemory, CMD_SUCCESS, Fruitful
    <3>11. CASE op = "G" /\ ~Refused
      BY <2>1, <2>2, <3>11 DEF Execute, Go, CMD_SUCCESS, Fruitful, target
    <3>12. Refused \/ op \in {"J", "N", "K"} \/ op = "U" \/ op = "I" \/ op = "P" \/ op = "E"
           \/ op = "C" \/ op = "W" \/ op = "R" \/ op = "G"
      BY DEF Execute
    <3> QED BY <3>1, <3>2, <3>3, <3>4, <3>5, <3>6, <3>7, <3>8, <3>9, <3>10, <3>11, <3>12
  <2>4. CASE mode = "synced" /\ pending = "stray" /\ Answer(<<INVALID_COMMAND>>)
             /\ UNCHANGED <<mode, echo, unlocked, prepared, ram, flash>>
    BY <2>2, <2>4 DEF Opened
  <2>5. CASE mode = "synced" /\ pending = "data" /\ UNCHANGED rx
             /\ UNCHANGED <<mode, echo, unlocked, prepared, flash>>
    BY <2>5 DEF Fruitless
  <2>6. CASE mode \in {"reset", "running"} /\ UNCHANGED rx /\ UNCHANGED target
    BY <2>6 DEF Fruitless, target
  <2> QED BY <1>2, <2>3, <2>4, <2>5, <2>6 DEF Obey, Opened
<1> QED BY <1>1, <1>2 DEF Ask, Write, Send

(* A write leaves the program where it is.                                 *)
AskFrame == UNCHANGED <<part, pc, arguments, dev_id, desc, i, addr, dump, ret, bounds>>

(***************************************************************************)
(* Outside a command nothing is asked of the target.                       *)
(***************************************************************************)
LEMMA QuietAside ==
  ASSUME asked' = "no", NeverOutOfOrder', pc' # "idle" => rx' = <<>>,
         pc' \in {"idle", "exit", "probe", "ident"} \cup Handshake,
         pc' = "exit" => ret' # 0 \/ cmd' \notin {"flash", "blank"}
  PROVE  Quiet'
<1> USE DEF Handshake
<1>1. Drained' /\ Short' BY DEF Drained, Short
<1>2. InSession' BY DEF InSession, Working, Erasing, Flashing
<1>3. Ready' BY DEF Ready, Flashing
<1>4. Blanked' /\ Written' /\ Others' BY DEF Blanked, Written, Others
<1> QED BY <1>1, <1>2, <1>3, <1>4 DEF Quiet

(* A fruitless line of a command leaves things as they are.                *)
LEMMA QuietFruitless ==
  ASSUME Typed, Quiet, pc \in Working \ {"data"}, AskFrame, asked' \in {"sent", "failed"},
         asked' = "failed" => UNCHANGED rx, rx = <<>>, Fruitless
  PROVE  Quiet'
<1>1. rx' = <<>> \/ (asked' = "sent" /\ \E c \in Nat : c > 0 /\ c <= LargestRead /\ rx' = <<c>>)
  BY DEF Fruitless, Refusing, LargestRead
<1>2. ~Accepted'
  BY <1>1 DEF Accepted, CodeOf, NumberOf, MinOf, LargestRead
<1>3. NeverOutOfOrder'
  BY DEF Fruitless, Refusing, NeverOutOfOrder, Complaints
<1>4. pc' = pc /\ pc \notin {"idle", "exit", "dispatch", "probe", "ident", "data"} \cup Handshake /\ asked' # "no"
  BY DEF AskFrame, Working, Erasing, Flashing, Handshake
<1>5. Drained' BY <1>1, <1>3, <1>4 DEF Drained
<1>6. Short' BY <1>1, <1>4 DEF Short
<1>7. InSession' BY <1>4 DEF Quiet, InSession, Opened, Fruitless
<1>8. Ready' BY <1>2, <1>4 DEF Quiet, Ready, Fruitless, AskFrame
<1>9. Blanked' BY <1>2, <1>4 DEF Quiet, Blanked, BlankBefore, AllBlank, Fruitless, AskFrame, Pages
<1>10. Written' BY <1>2, <1>4 DEF Quiet, Written, Prefix, Checked, Fruitless, AskFrame, arguments, Pages
<1>11. Others' BY <1>4 DEF Quiet, Others, AskFrame, arguments
<1> QED BY <1>5, <1>6, <1>7, <1>8, <1>9, <1>10, <1>11 DEF Quiet

(***************************************************************************)
(* Every step keeps it: connecting and identifying.                        *)
(***************************************************************************)

(* The id of the part follows a code only when a session with its echo off *)
(* answers.                                                                *)
LEMMA IdAnswer ==
  ASSUME part \in Devices, rx = <<>>, Obey("J", 0), rx' # <<>>
  PROVE  /\ Head(rx') <= LargestRead
         /\ Len(rx') = 1 \/ CodeOf(Head(rx')) = 0
         /\ Len(rx') >= 2 /\ NumberOf(rx'[2]) = part.part_id => Opened'
<1>0. part.part_id \in Nat /\ part.part_id > LargestRead BY PartFields
<1>1. ASSUME NEW c \in Refusals \cup {INVALID_COMMAND, SYNCHRO_OK}, Answer(<<c>>)
      PROVE  /\ Head(rx') <= LargestRead
             /\ Len(rx') = 1 \/ CodeOf(Head(rx')) = 0
             /\ ~(Len(rx') >= 2 /\ NumberOf(rx'[2]) = part.part_id)
  <2>1. c \in Tokens /\ <<c>> \in Seq(Tokens) /\ c \in Int /\ c <= LargestRead
    <3>1. CASE c \in Refusals
      <4>1. c \in Nat /\ c <= LastCode BY <3>1, RepliesAssumption
      <4>2. c \in Tokens BY <4>1 DEF Tokens
      <4> QED BY <4>1, <4>2 DEF LastCode, LargestRead
    <3>2. CASE c \in {INVALID_COMMAND, SYNCHRO_OK}
      BY <3>2 DEF Tokens, INVALID_COMMAND, SYNCHRO_OK, LargestRead
    <3> QED BY <1>1, <3>1, <3>2
  <2>2. CASE ~echo
    <3>1. rx' = <<c>> BY <1>1, <2>1, <2>2, AnswerAlone
    <3> QED BY <2>1, <3>1
  <2>3. CASE echo
    <3>1. Len(rx') = 2 /\ rx'[1] = 0 /\ rx'[2] = c
      <4>1. /\ Len(rx') = Len(<<c>>) + 1 /\ rx'[1] = 0
            /\ \A n \in 2 .. Len(rx') : rx'[n] = <<c>>[n - 1]
        BY <1>1, <2>1, <2>3, AnswerAlone
      <4> QED BY <4>1
    <3>2. NumberOf(c) # part.part_id BY <1>0, <2>1 DEF NumberOf, LargestRead
    <3>3. Head(rx') = 0 BY <3>1
    <3> QED BY <3>1, <3>2, <3>3 DEF CodeOf, NumberOf, MinOf, LargestRead
  <2> QED BY <2>2, <2>3
<1>2. CASE mode = "synced" /\ pending = "line" /\ ReadPartId
  <2>1. Answer(<<0, part.part_id>>) /\ <<0, part.part_id>> \in Seq(Tokens) /\ UNCHANGED target
    BY <1>2, TextsInOrder DEF ReadPartId, CMD_SUCCESS
  <2>2. CASE ~echo
    <3>1. rx' = <<0, part.part_id>> BY <2>1, <2>2, AnswerAlone
    <3>2. Opened' BY <1>2, <2>1, <2>2 DEF Opened, target
    <3> QED BY <1>0, <3>1, <3>2 DEF CodeOf, NumberOf, MinOf, LargestRead
  <2>3. CASE echo
    <3>1. /\ Len(rx') = Len(<<0, part.part_id>>) + 1 /\ rx'[1] = 0
          /\ \A n \in 2 .. Len(rx') : rx'[n] = <<0, part.part_id>>[n - 1]
      BY <2>1, <2>3, AnswerAlone
    <3>2. Len(rx') = 3 /\ rx'[2] = 0 BY <3>1
    <3>3. Head(rx') = 0 BY <3>1
    <3> QED BY <1>0, <3>2, <3>3 DEF CodeOf, NumberOf, MinOf, LargestRead
  <2> QED BY <2>2, <2>3
<1>3. (\E c \in Refusals \cup {INVALID_COMMAND, SYNCHRO_OK} : Answer(<<c>>))
      \/ (mode = "synced" /\ pending = "line" /\ ReadPartId)
  BY DEF Obey, Execute, Refused
<1> QED BY <1>1, <1>2, <1>3

(* Whatever the handshake hears, it goes on with nothing left to read.     *)
LEMMA QuietConnect ==
  ASSUME ~SlowLine, Typed, Quiet, Connect
  PROVE  Quiet'
<1>0. part \in Devices BY DEF Typed, TypeOK, TargetTypeOK
<1>1. \A s : Remainders(s) = {<<>>} BY DEF Remainders
<1>2. rx' = <<>> => NeverOutOfOrder' BY DEF NeverOutOfOrder
<1>3. ASSUME NEW at \in Handshake, NEW ACTION heard, Write(at, heard),
             rx = <<>> /\ heard => NeverOutOfOrder'
      PROVE  Quiet'
  <2>1. pc' = at /\ pc = at /\ asked = "no" /\ asked' \in {"sent", "failed"}
    BY <1>3 DEF Write, Send
  <2>2. rx = <<>> BY <2>1 DEF Quiet, Drained, Handshake
  <2>3. NeverOutOfOrder' BY <1>2, <1>3, <2>2 DEF Write, Send, Lost
  <2>4. asked' = "failed" => rx' = <<>> BY <1>3, <2>2 DEF Write, Send, Lost
  <2>5. Drained' /\ Short' BY <2>1, <2>3, <2>4 DEF Drained, Short, Handshake
  <2>6. InSession' BY <2>1 DEF InSession, Handshake, Working, Erasing, Flashing
  <2>7. Ready' BY <2>1 DEF Ready, Handshake, Flashing
  <2>8. Blanked' /\ Written' /\ Others' BY <2>1 DEF Blanked, Written, Others, Handshake
  <2> QED BY <2>5, <2>6, <2>7, <2>8 DEF Quiet
<1>4. AskQuestion \/ AskSynchro \/ AskFreq \/ AskEchoOff => Quiet'
  BY <1>0, <1>3, HandshakeInOrder
     DEF AskQuestion, AskSynchro, AskFreq, AskEchoOff, Handshake
<1>5. ReadSynchronized \/ ReadSynchroOk \/ ReadFreqOk \/ ReadEchoOff =>
        rx' = <<>> /\ asked' = "no" /\ pc' \in {"probe", "ident"} \cup Handshake
  BY <1>1 DEF ReadSynchronized, ReadSynchroOk, ReadFreqOk, Acknowledges, ReadEchoOff,
     Reading, Unread, Goto, Handshake
<1>6. ReadSynchronized \/ ReadSynchroOk \/ ReadFreqOk \/ ReadEchoOff => Quiet'
  BY <1>2, <1>5, QuietAside DEF Handshake
<1> QED BY <1>4, <1>6 DEF Connect

(* The part is only found by an id that a quiet session sent.              *)
LEMMA QuietIdentify ==
  ASSUME ~SlowLine, Typed, Typed', Quiet, Identify
  PROVE  Quiet'
<1>0. part \in Devices /\ rx \in Seq(Genuine) BY DEF Typed, TypeOK, TargetTypeOK
<1>1. rx' = <<>> => NeverOutOfOrder' BY DEF NeverOutOfOrder
<1>2. ASSUME NEW at \in {"probe", "ident"}, Ask(at, "J", 0)
      PROVE  Quiet'
  <2>1. pc' = at /\ pc = at /\ asked = "no" /\ asked' \in {"sent", "failed"} /\ UNCHANGED part
    BY <1>2 DEF Ask, Write, Send
  <2>2. rx = <<>> BY <2>1 DEF Quiet, Drained
  <2>3. (asked' = "sent" /\ Obey("J", 0)) \/ rx' = <<>>
    BY <1>2, <2>2 DEF Ask, Write, Send, Lost
  <2>4. asked' = "failed" => rx' = <<>>
    BY <1>2, <2>2 DEF Ask, Write, Send, Lost
  <2>5. NeverOutOfOrder' BY <1>0, <1>1, <2>2, <2>3, ObeyInOrder
  <2>6. rx' # <<>> => /\ Head(rx') <= LargestRead
                      /\ Len(rx') = 1 \/ CodeOf(Head(rx')) = 0
                      /\ Len(rx') >= 2 /\ NumberOf(rx'[2]) = part.part_id => Opened'
    BY <1>0, <2>2, <2>3, IdAnswer
  <2>7. Drained' BY <2>1, <2>4, <2>5 DEF Drained
  <2>8. Short'
    <3>1. rx' # <<>> => Head(rx') <= LargestRead /\ (Len(rx') = 1 \/ CodeOf(Head(rx')) = 0)
      BY <2>6
    <3>2. pc' \in {"probe", "ident"} BY <2>1
    <3> QED BY <3>1, <3>2 DEF Short
  <2>9. InSession'
    <3>1. Len(rx') >= 2 => rx' # <<>> OBVIOUS
    <3>2. Len(rx') >= 2 /\ NumberOf(rx'[2]) = part'.part_id => Opened'
      BY <2>1, <2>6, <3>1
    <3>3. pc' \in {"probe", "ident"} BY <2>1
    <3> QED BY <3>2, <3>3 DEF InSession, Working, Erasing, Flashing
  <2>10. Ready' BY <2>1 DEF Ready, Flashing
  <2>11. Blanked' /\ Written' /\ Others' BY <2>1 DEF Blanked, Written, Others
  <2> QED BY <2>7, <2>8, <2>9, <2>10, <2>11 DEF Quiet
<1>3. CASE AskProbe \/ AskIdent BY <1>2, <1>3 DEF AskProbe, AskIdent
<1>4. ASSUME pc \in {"probe", "ident"}, asked # "no", NEW g \in Replies, NEW p \in PartIds(g)
      PROVE  /\ p.rest = <<>>
             /\ p.id = part.part_id => Opened \/ pc # "ident"
  <2>1. /\ g.code = 0 => Accepted
        /\ \A s : Remainders(s) = {<<>>}
        /\ g.code # 0 => g.rest = <<>>
        /\ g.rest # <<>> => asked = "sent" /\ rx # <<>> /\ g.rest = Tail(rx)
    BY <1>4, ReplyQuiet DEF Quiet, Handshake
  <2>2. p.rest = <<>> BY <2>1 DEF PartIds
  <2>3. part.part_id \in Nat /\ part.part_id > LargestRead BY <1>0, PartFields
  <2>4. CASE p.id = g.code
    <3>1. g.code \in -5 .. LargestRead BY <1>0, RepliesTyped
    <3>2. \A c \in -5 .. LargestRead : c \in Int /\ c <= LargestRead BY DEF LargestRead
    <3>3. g.code # part.part_id
      <4>1. g.code \in Int /\ g.code <= 999 BY <3>1, <3>2 DEF LargestRead
      <4>2. part.part_id \in Nat /\ part.part_id > 999 BY <2>3 DEF LargestRead
      <4> QED BY <4>1, <4>2
    <3> QED BY <2>2, <2>4, <3>3
  <2>5. CASE p.id = -2 BY <2>2, <2>3, <2>5
  <2>6. CASE g.rest # <<>> /\ p.id = NumberOf(Head(g.rest))
    <3>1. asked = "sent" /\ rx # <<>> /\ g.rest = Tail(rx) BY <2>1, <2>6
    <3>2. Len(rx) >= 2 /\ Head(g.rest) = rx[2] BY <1>0, <2>6, <3>1
    <3> QED BY <2>2, <2>6, <3>1, <3>2 DEF Quiet, InSession
  <2>7. p.id = g.code \/ p.id = -2 \/ (g.rest # <<>> /\ p.id = NumberOf(Head(g.rest)))
    BY DEF PartIds
  <2> QED BY <2>4, <2>5, <2>6, <2>7
<1>5. CASE ReadProbe
  <2>1. rx' = <<>> /\ asked' = "no" /\ pc' = "ident"
    BY <1>4, <1>5 DEF ReadProbe, Reading, Unread, Goto
  <2> QED BY <1>1, <2>1, QuietAside
<1>6. CASE ReadIdent
  <2>1. PICK g \in Replies : \E p \in PartIds(g) :
          /\ Unread(p.rest)
          /\ dev_id' = p.id
          /\ IF p.id < 0 THEN Return(-1) ELSE Goto("dispatch")
    BY <1>6 DEF ReadIdent
  <2>2. PICK p \in PartIds(g) :
          /\ Unread(p.rest)
          /\ dev_id' = p.id
          /\ IF p.id < 0 THEN Return(-1) ELSE Goto("dispatch")
    BY <2>1
  <2>3. rx' = <<>> /\ asked' = "no" /\ (p.id = part.part_id => Opened)
    BY <1>4, <1>6, <2>2 DEF ReadIdent, Reading, Unread
  <2>4. CASE Return(-1) BY <1>1, <2>3, <2>4, QuietAside DEF Return
  <2>5. CASE Goto("dispatch")
    <3>1. pc' = "dispatch" /\ UNCHANGED <<part, target>> BY <2>2, <2>5 DEF Goto, Unread
    <3>2. Drained' /\ Short' BY <1>1, <2>3, <3>1 DEF Drained, Short
    <3>3. InSession'
      BY <2>2, <2>3, <3>1 DEF InSession, Opened, target, Working, Erasing, Flashing
    <3>4. Ready' BY <3>1 DEF Ready, Flashing
    <3>5. Blanked' /\ Written' /\ Others' BY <3>1 DEF Blanked, Written, Others
    <3> QED BY <3>2, <3>3, <3>4, <3>5 DEF Quiet
  <2> QED BY <2>2, <2>4, <2>5
<1>7. CASE Dispatch
  <2>1. /\ pc = "dispatch" /\ UNCHANGED <<part, target, rx, asked, arguments, dev_id>>
        /\ asked = "no" /\ rx = <<>>
    BY <1>7 DEF Dispatch, Quiet, Drained
  <2>2. CASE Return(-2) BY <1>1, <2>1, <2>2, QuietAside DEF Return
  <2>3. ASSUME NEW p \in Parts, p.part_id = dev_id, desc' = p, i' = 0,
               IF Rejection(p) # 0 THEN Return(Rejection(p)) ELSE Goto(FirstPlace[cmd])
        PROVE  Quiet'
    <3>1. CASE Rejection(p) # 0
      BY <1>1, <2>1, <2>3, <3>1, QuietAside DEF Return
    <3>2. CASE Rejection(p) = 0
      <4>1. pc' = FirstPlace[cmd] /\ cmd' = cmd /\ cmd \in Commands \ {"other"}
        BY <2>1, <2>3, <3>2 DEF Goto, arguments, Rejection, Typed, TypeOK
      <4>2. pc' \in {"unlock", "dump", "id", "goaddr"}
            /\ (pc' = "dump" => cmd = "dump") /\ (pc' = "id" => cmd = "id") /\ (pc' = "goaddr" => cmd = "go")
        BY <4>1 DEF FirstPlace, Commands
      <4>3. p = part BY <2>1, <2>3, <4>2 DEF Typed, RightPart, Working, Erasing
      <4>4. Opened' BY <2>1, <2>3, <4>3 DEF Quiet, InSession, Opened, target
      <4>5. Drained' /\ Short' BY <1>1, <2>1, <4>2 DEF Drained, Short
      <4>6. InSession' BY <4>2, <4>4 DEF InSession
      <4>7. Ready' BY <2>1, <4>2 DEF Ready, Flashing, Accepted
      <4>8. Blanked' /\ Written' /\ Others' BY <2>1, <4>1, <4>2 DEF Blanked, Written, Others, Accepted
      <4> QED BY <4>5, <4>6, <4>7, <4>8 DEF Quiet
    <3> QED BY <3>1, <3>2
  <2> QED BY <1>7, <2>2, <2>3 DEF Dispatch
<1> QED BY <1>3, <1>5, <1>6, <1>7 DEF Identify

(***************************************************************************)
(* ... the commands.                                                       *)
(***************************************************************************)

(* A line of a command is fruitless, or does what it is for.               *)
LEMMA QuietAsk ==
  ASSUME Typed, Quiet, NEW at \in Working \ {"data"}, NEW op, NEW arg, Ask(at, op, arg),
         op \notin {"M", "X", "?"},
         mode = "synced" /\ op \in {"E", "C", "G"} => unlocked,
         mode = "synced" /\ op = "E" => arg \subseteq prepared,
         mode = "synced" /\ op = "C" => SectorOf(part, arg) \in prepared
  PROVE  /\ pc = at /\ pc' = at /\ asked = "no" /\ rx = <<>> /\ AskFrame /\ Opened
         /\ NeverOutOfOrder'
         /\ Quiet' \/ Fruitful(op, arg)
<1>1. pc = at /\ pc' = at /\ asked = "no" /\ asked' \in {"sent", "failed"} /\ AskFrame
  BY DEF Ask, Write, Send, AskFrame, bounds, arguments
<1>2. rx = <<>> BY <1>1 DEF Quiet, Drained, Working, Erasing, Flashing
<1>3. Opened /\ part \in Devices BY <1>1 DEF Quiet, InSession, Typed, TypeOK, TargetTypeOK
<1>4. NeverOutOfOrder'
  <2>1. Lost => rx' = <<>> BY <1>2 DEF Lost
  <2>2. rx' = <<>> => NeverOutOfOrder' BY DEF NeverOutOfOrder
  <2>3. Obey(op, arg) => NeverOutOfOrder' BY <1>2, <1>3, ObeyInOrder
  <2> QED BY <2>1, <2>2, <2>3 DEF Ask, Write, Send
<1>5. asked' = "failed" => UNCHANGED rx BY DEF Ask, Write, Send, Lost
<1>6. Fruitless \/ Fruitful(op, arg) BY <1>2, <1>3, AskOutcome
<1>7. Fruitless => Quiet' BY <1>1, <1>2, <1>5, QuietFruitless
<1> QED BY <1>1, <1>2, <1>3, <1>4, <1>6, <1>7

(* Between two lines of a command nothing is left to read.                 *)
LEMMA QuietBetween ==
  ASSUME Opened, pc' \in Working, asked' = "no", rx' = <<>>, UNCHANGED <<mode, echo>>,
         Ready', Blanked', Written', Others'
  PROVE  Quiet'
<1>1. pc' \notin {"idle", "exit", "dispatch", "probe", "ident"}
  BY DEF Working, Erasing, Flashing
<1>2. Drained' /\ Short' BY <1>1 DEF Drained, Short, NeverOutOfOrder
<1>3. InSession' BY <1>1 DEF InSession, Opened
<1> QED BY <1>2, <1>3 DEF Quiet

(* The sectors of the part are the pages' sectors.                         *)
LEMMA SectorRange ==
  ASSUME part \in Devices, NEW b \in Pages(part)
  PROVE  SectorOf(part, b) \in Int /\ 0 <= SectorOf(part, b) /\ SectorOf(part, b) < part.flash_nb_sectors
<1>1. SectorOf(part, b) \in Sectors(part) BY GeometryAssumption
<1>2. part.flash_nb_sectors \in Nat BY PartFields
<1> QED BY <1>1, <1>2 DEF Sectors

(* erase_flash leaves only blank sectors behind it.                        *)
LEMMA QuietErase ==
  ASSUME ~SlowLine, Typed, Quiet, EraseFlash
  PROVE  Quiet'
<1>0. part \in Devices /\ i \in Nat BY DEF Typed, TypeOK, TargetTypeOK
<1>1. ASSUME NEW at \in Erasing, NEW op \in {"U", "I", "P", "E"}, NEW arg, Ask(at, op, arg),
             mode = "synced" /\ op = "E" => unlocked /\ arg \subseteq prepared
      PROVE  /\ pc = at /\ pc' = at /\ AskFrame /\ Opened /\ NeverOutOfOrder'
             /\ Quiet' \/ (asked' = "sent" /\ Fruitful(op, arg))
  <2>1. at \in Working \ {"data"} BY DEF Working, Erasing
  <2> QED BY <1>1, <2>1, QuietAsk DEF Fruitful
<1>2. ASSUME NEW at \in Erasing, pc' = at, asked' = "sent", Opened, AskFrame, NeverOutOfOrder',
             UNCHANGED <<mode, echo>>, Ready', Blanked',
             \/ rx' = << 0 >>
             \/ at = "check" /\ \E w \in Words : rx' = <<SECTOR_NOT_BLANK, 0, w>>
      PROVE  Quiet'
  <2>1. Drained' BY <1>2 DEF Drained, Erasing
  <2>2. Short'
    BY <1>2 DEF Short, SECTOR_NOT_BLANK, CodeOf, NumberOf, MinOf, LargestRead
  <2>3. InSession' BY <1>2 DEF InSession, Opened, Erasing
  <2>4. Written' /\ Others' BY <1>2 DEF Written, Others, Erasing
  <2> QED BY <1>2, <2>1, <2>2, <2>3, <2>4 DEF Quiet
<1>3. CASE AskUnlock
  <2>1. ASSUME asked' = "sent", Fruitful("U", 0) PROVE Quiet'
    <3>1. pc' = "unlock" /\ Opened /\ AskFrame /\ NeverOutOfOrder'
      BY <1>1, <1>3 DEF AskUnlock, Erasing
    <3>2. rx' = <<0>> /\ unlocked' /\ UNCHANGED <<mode, echo>> BY <2>1 DEF Fruitful
    <3>3. Ready' BY <3>1, <3>2, <2>1 DEF Ready, Flashing
    <3>4. Blanked' BY <3>1 DEF Blanked
    <3> QED BY <1>2, <2>1, <3>1, <3>2, <3>3, <3>4 DEF Erasing
  <2> QED BY <1>1, <1>3, <2>1 DEF AskUnlock, Erasing
<1>4. CASE AskBlankCheck
  <2>1. ASSUME asked' = "sent", Fruitful("I", {i}) PROVE Quiet'
    <3>1. pc = "check" /\ pc' = "check" /\ Opened /\ AskFrame /\ NeverOutOfOrder'
      BY <1>1, <1>4 DEF AskBlankCheck, Erasing
    <3>2. UNCHANGED target /\ ((rx' = <<0>> /\ BlankSectors({i})) \/ \E w \in Words : rx' = <<SECTOR_NOT_BLANK, 0, w>>)
      BY <2>1 DEF Fruitful
    <3>3. Ready' BY <2>1, <3>1, <3>2 DEF Quiet, Ready, Flashing, target
    <3>4. Accepted' => BlankSectors({i})'
      BY <3>1, <3>2 DEF Accepted, SECTOR_NOT_BLANK, CodeOf, NumberOf, MinOf, LargestRead,
         BlankSectors, AskFrame, target
    <3>5. Blanked' BY <3>1, <3>2, <3>4 DEF Quiet, Blanked, BlankBefore, AskFrame, target
    <3> QED BY <1>2, <2>1, <3>1, <3>2, <3>3, <3>5 DEF Erasing, target
  <2> QED BY <1>1, <1>4, <2>1 DEF AskBlankCheck, Erasing
<1>5. CASE AskErasePrep
  <2>1. ASSUME asked' = "sent", Fruitful("P", {i}) PROVE Quiet'
    <3>1. pc = "eprep" /\ pc' = "eprep" /\ Opened /\ AskFrame /\ NeverOutOfOrder'
      BY <1>1, <1>5 DEF AskErasePrep, Erasing
    <3>2. rx' = <<0>> /\ prepared' = {i} /\ UNCHANGED <<mode, echo, pending, unlocked, flash>>
      BY <2>1 DEF Fruitful
    <3>3. Ready' BY <2>1, <3>1, <3>2 DEF Quiet, Ready, Flashing, AskFrame
    <3>4. Blanked' BY <3>1, <3>2 DEF Quiet, Blanked, BlankBefore, AskFrame
    <3> QED BY <1>2, <2>1, <3>1, <3>2, <3>3, <3>4 DEF Erasing
  <2> QED BY <1>1, <1>5, <2>1 DEF AskErasePrep, Erasing
<1>6. CASE AskErase
  <2>0. pc = "erase" /\ asked = "no" BY <1>6 DEF AskErase, Ask, Write, Send
  <2>1. mode = "synced" => unlocked /\ {i} \subseteq prepared
    BY <2>0 DEF Quiet, Ready
  <2>2. ASSUME asked' = "sent", Fruitful("E", {i}) PROVE Quiet'
    <3>1. pc' = "erase" /\ Opened /\ AskFrame /\ NeverOutOfOrder'
      BY <1>1, <1>6, <2>1 DEF AskErase, Erasing
    <3>2. rx' = <<0>> /\ Erase({i}) BY <2>2 DEF Fruitful
    <3>3. Ready' BY <2>2, <3>1, <3>2 DEF Erase, Ready, Flashing
    <3>4. \A b \in Pages(part) : flash'[b] = IF SectorOf(part, b) = i THEN Blank ELSE flash[b]
      BY <3>2 DEF Erase
    <3>5. Blanked'
      BY <2>0, <3>1, <3>4 DEF Quiet, Blanked, BlankBefore, BlankSectors, AskFrame
    <3> QED BY <1>2, <2>2, <3>1, <3>2, <3>3, <3>5 DEF Erasing, Erase
  <2> QED BY <1>1, <1>6, <2>1, <2>2 DEF AskErase, Erasing
<1>7. ASSUME pc \in Erasing, asked # "no", NEW g \in Replies
      PROVE  /\ g.code = 0 => Accepted
             /\ \A s : Remainders(s) = {<<>>}
             /\ pc # "check" \/ g.code <= 0 => g.rest = <<>>
             /\ g.code \in Int
  BY <1>7, ReplyQuiet DEF Quiet, Handshake, Erasing
<1>8. ASSUME NEW r \in Int \ {0}, EraseFailed(r), asked' = "no", rx' = <<>>
      PROVE  Quiet'
  <2>1. pc' = "exit" /\ ret' # 0 BY <1>8 DEF EraseFailed, Return
  <2> QED BY <1>8, <2>1, QuietAside DEF NeverOutOfOrder
<1>9. ASSUME pc \in Erasing, pc' \in Erasing, asked' = "no", rx' = <<>>, UNCHANGED <<part, target>>, EraseFrame,
             mode = "synced" /\ pc' # "unlock" => unlocked,
             mode = "synced" /\ pc' = "erase" => i' \in prepared,
             pc' # "unlock" => BlankBefore(i')
      PROVE  Quiet'
  <2>1. Opened BY <1>9 DEF Quiet, InSession, Working
  <2>2. pc' \in Working BY <1>9 DEF Working
  <2>3. ~Accepted' BY <1>9 DEF Accepted
  <2>4. Ready' BY <1>9, <2>3 DEF Ready, target, Erasing, Flashing
  <2>5. Blanked' BY <1>9, <2>3 DEF Blanked, BlankBefore, target, Erasing
  <2>6. Written' /\ Others' BY <1>9 DEF Written, Others, Erasing
  <2> QED BY <1>9, <2>1, <2>2, <2>4, <2>5, <2>6, QuietBetween DEF target
<1>10. ASSUME BlankBefore(i), BlankSectors({i}) PROVE BlankBefore(i + 1)
  BY <1>0, <1>10, SectorRange DEF BlankBefore, BlankSectors
<1>11. pc \in {"check", "eprep", "erase"} /\ mode = "synced" => unlocked
  BY DEF Quiet, Ready
<1>12. CASE ReadUnlock
  <2>0. pc = "unlock" /\ asked # "no" /\ asked' = "no" /\ EraseFrame BY <1>12 DEF ReadUnlock, Reading
  <2>1. PICK g \in Replies : Unread(g.rest) /\ IF g.code # 0 THEN EraseFailed(-1) ELSE Goto("check")
    BY <1>12 DEF ReadUnlock
  <2>2. g.rest = <<>> /\ (g.code = 0 => Accepted) BY <1>7, <2>0 DEF Erasing
  <2>3. i' = 0 BY <1>12, <2>0 DEF ReadUnlock, Typed, Counted
  <2>4. BlankBefore(0) BY <1>0, SectorRange DEF BlankBefore
  <2>5. mode = "synced" /\ g.code = 0 => unlocked BY <2>0, <2>2 DEF Quiet, Ready
  <2>6. CASE g.code # 0 BY <1>8, <2>0, <2>1, <2>2, <2>6 DEF Unread
  <2>7. CASE g.code = 0
    BY <1>9, <2>0, <2>1, <2>2, <2>3, <2>4, <2>5, <2>7 DEF Unread, Goto, Erasing
  <2> QED BY <2>6, <2>7
<1>13. CASE ReadBlankCheck
  <2>0. pc = "check" /\ asked # "no" /\ asked' = "no" /\ EraseFrame BY <1>13 DEF ReadBlankCheck, Reading
  <2>1. PICK g \in Replies :
       \/ g.code = 0 /\ Unread(g.rest) /\ i' = i + 1 /\ Goto("check")
       \/ g.code < 0 /\ Unread(g.rest) /\ UNCHANGED i /\ EraseFailed(g.code)
       \/ /\ g.code > 0
          /\ \E s \in Remainders(g.rest) : Unread(s)
          /\ UNCHANGED i /\ Goto("eprep")
    BY <1>13 DEF ReadBlankCheck
  <2>2. /\ g.code \in Int /\ (g.code <= 0 => g.rest = <<>>) /\ (g.code = 0 => Accepted)
        /\ \A s : Remainders(s) = {<<>>}
    BY <1>7, <2>0 DEF Erasing
  <2>3. BlankBefore(i) BY <2>0 DEF Quiet, Blanked
  <2>4. CASE g.code < 0 BY <1>8, <2>0, <2>1, <2>2, <2>4 DEF Unread
  <2>5. CASE g.code = 0
    <3>1. BlankBefore(i + 1) BY <1>10, <2>0, <2>2, <2>3, <2>5 DEF Quiet, Blanked
    <3> QED BY <1>9, <1>11, <2>0, <2>1, <2>2, <2>5, <3>1 DEF Unread, Goto, Erasing
  <2>6. CASE g.code > 0
    <3>1. rx' = <<>> /\ UNCHANGED <<part, target, i>> /\ pc' = "eprep" BY <2>1, <2>2, <2>6 DEF Unread, Goto
    <3> QED BY <1>9, <1>11, <2>0, <2>3, <3>1 DEF Erasing
  <2> QED BY <2>2, <2>4, <2>5, <2>6
<1>14. CASE ReadErasePrep
  <2>0. pc = "eprep" /\ asked # "no" /\ asked' = "no" /\ EraseFrame /\ UNCHANGED i
    BY <1>14 DEF ReadErasePrep, Reading
  <2>1. PICK g \in Replies : Unread(g.rest) /\ IF g.code # 0 THEN EraseFailed(g.code) ELSE Goto("erase")
    BY <1>14 DEF ReadErasePrep
  <2>2. g.rest = <<>> /\ (g.code = 0 => Accepted) /\ g.code \in Int BY <1>7, <2>0 DEF Erasing
  <2>3. BlankBefore(i) BY <2>0 DEF Quiet, Blanked
  <2>4. mode = "synced" /\ g.code = 0 => i \in prepared BY <2>0, <2>2 DEF Quiet, Ready
  <2>5. CASE g.code # 0 BY <1>8, <2>0, <2>1, <2>2, <2>5 DEF Unread
  <2>6. CASE g.code = 0
    BY <1>9, <1>11, <2>0, <2>1, <2>2, <2>3, <2>4, <2>6 DEF Unread, Goto, Erasing
  <2> QED BY <2>5, <2>6
<1>15. CASE ReadErase
  <2>0. pc = "erase" /\ asked # "no" /\ asked' = "no" /\ EraseFrame BY <1>15 DEF ReadErase, Reading
  <2>1. PICK g \in Replies : /\ Unread(g.rest)
                             /\ IF g.code # 0 THEN EraseFailed(g.code) /\ UNCHANGED i
                                ELSE i' = i + 1 /\ Goto("check")
    BY <1>15 DEF ReadErase
  <2>2. g.rest = <<>> /\ (g.code = 0 => Accepted) /\ g.code \in Int BY <1>7, <2>0 DEF Erasing
  <2>3. CASE g.code # 0 BY <1>8, <2>0, <2>1, <2>2, <2>3 DEF Unread
  <2>4. CASE g.code = 0
    <3>1. BlankBefore(i + 1) BY <1>10, <2>0, <2>2, <2>4 DEF Quiet, Blanked
    <3> QED BY <1>9, <1>11, <2>0, <2>1, <2>2, <2>4, <3>1 DEF Unread, Goto, Erasing
  <2> QED BY <2>3, <2>4
<1>16. CASE FlashNowBlank
  <2>0. /\ pc = "check" /\ asked = "no" /\ asked' = "no" /\ i = desc.flash_nb_sectors
        /\ UNCHANGED <<part, target, rx, i, cmd>>
    BY <1>16 DEF FlashNowBlank, EraseFrame, arguments
  <2>1. desc = part /\ cmd \in {"flash", "blank"} /\ rx = <<>> /\ Opened
    BY <2>0 DEF Typed, RightPart, Working, Erasing, Dispatched, Quiet, Drained, InSession
  <2>2. BlankBefore(part.flash_nb_sectors) BY <2>0, <2>1 DEF Quiet, Blanked
  <2>3. AllBlank BY <1>0, <2>2, SectorRange DEF BlankBefore, AllBlank
  <2>4. AllBlank' BY <2>0, <2>3 DEF AllBlank, target
  <2>5. CASE cmd = "flash"
    <3>1. pc' = "load" BY <1>16, <2>5 DEF FlashNowBlank, Goto
    <3>2. Ready' BY <1>11, <2>0, <3>1 DEF Ready, target, Flashing
    <3>3. Blanked' BY <2>4, <3>1 DEF Blanked
    <3>4. Written' /\ Others' BY <3>1 DEF Written, Others
    <3> QED BY <2>0, <2>1, <3>1, <3>2, <3>3, <3>4, QuietBetween DEF Working, target
  <2>6. CASE cmd # "flash"
    <3>1. pc' = "exit" /\ cmd' # "flash" BY <1>16, <2>0, <2>6 DEF FlashNowBlank, Return
    <3>2. Drained' /\ Short' /\ InSession'
      BY <2>0, <2>1, <3>1 DEF Drained, Short, InSession, NeverOutOfOrder, Working, Erasing, Flashing
    <3>3. Ready' BY <3>1 DEF Ready, Flashing
    <3>4. Blanked' BY <2>4, <3>1 DEF Blanked
    <3>5. Written' /\ Others' BY <3>1 DEF Written, Others
    <3> QED BY <3>2, <3>3, <3>4, <3>5 DEF Quiet
  <2> QED BY <2>5, <2>6
<1> QED BY <1>3, <1>4, <1>5, <1>6, <1>12, <1>13, <1>14, <1>15, <1>16 DEF EraseFlash

(* flash_target writes the blocks one after the other, each where nothing  *)
(* was written since the erase, and each from a buffer filled with it.     *)
LEMMA QuietFlash ==
  ASSUME ~SlowLine, Typed, Quiet, FlashTarget
  PROVE  Quiet'
<1>0. part \in Devices /\ i \in Nat BY DEF Typed, TypeOK, TargetTypeOK
<1>1. ASSUME pc \in Flashing \cup {"load"}
      PROVE  /\ desc = part /\ cmd = "flash" /\ Opened
             /\ mode = "synced" => unlocked
  BY <1>1 DEF Typed, RightPart, Working, Dispatched, Quiet, InSession, Ready
<1>2. ASSUME pc \in Flashing, asked # "no", NEW g \in Replies
      PROVE  /\ g.code = 0 => Accepted
             /\ g.rest = <<>>
             /\ g.code \in Int
  BY <1>2, ReplyQuiet DEF Quiet, Handshake, Flashing
<1>3. ASSUME Return(ret'), ret' # 0, asked' = "no", rx' = <<>>
      PROVE  Quiet'
  BY <1>3, QuietAside DEF NeverOutOfOrder, Return
<1>4. ASSUME pc \in Flashing \cup {"load"}, pc' \in Flashing, asked' = "no", rx' = <<>>,
             UNCHANGED <<part, mode, echo, unlocked, prepared, flash>>, EraseFrame,
             mode = "synced" /\ pc' # "prep" => SectorOf(part, i') \in prepared,
             mode = "synced" /\ pc' = "data" => pending' = "data",
             mode = "synced" /\ Checked /\ pc' = "copy" /\ pending' = "line" => ram' = Page',
             Checked => Prefix(i')
      PROVE  Quiet'
  <2>1. ~Accepted' /\ pc' \in Working /\ pc' # "load" BY <1>4 DEF Accepted, Working, Flashing
  <2>2. Ready' BY <1>1, <1>4, <2>1 DEF Ready, Checked, Flashing
  <2>3. Blanked' BY <1>4, <2>1 DEF Blanked, Flashing
  <2>4. Written' BY <1>4, <2>1 DEF Written, Prefix, Checked, EraseFrame, arguments, Flashing
  <2>5. Others' BY <1>4 DEF Others, Flashing
  <2> QED BY <1>1, <1>4, <2>1, <2>2, <2>3, <2>4, <2>5, QuietBetween
<1>5. ASSUME NEW at \in Flashing \ {"data"}, pc' = at, asked' = "sent", Opened, AskFrame,
             NeverOutOfOrder', rx' = << 0 >>,
             UNCHANGED <<mode, echo>>, Ready', Written'
      PROVE  Quiet'
  <2>0. Head(rx') = 0 /\ Len(rx') = 1 BY <1>5
  <2>1. Drained' /\ Short'
    <3>1. pc' \notin {"idle", "dispatch"} BY <1>5 DEF Flashing
    <3>2. pc' # "data" BY <1>5
    <3>3. Drained' BY <1>5, <3>1, <3>2 DEF Drained
    <3>4. Short' BY <2>0 DEF Short, LargestRead
    <3> QED BY <3>3, <3>4
  <2>2. InSession' BY <1>5 DEF InSession, Opened, Flashing
  <2>3. Blanked' /\ Others' BY <1>5 DEF Blanked, Others, Flashing
  <2> QED BY <1>5, <2>1, <2>2, <2>3 DEF Quiet
<1>6. CASE LoadImage
  <2>1. /\ pc = "load" /\ asked = "no" /\ asked' = "no" /\ rx' = <<>>
        /\ UNCHANGED <<part, target>> /\ EraseFrame
    BY <1>6 DEF LoadImage, Typed, Counted, Quiet, Drained
  <2>2. CASE Return(-4) \/ (ImageVerdict # 0 /\ Return(ImageVerdict))
    BY <1>3, <2>1, <2>2 DEF Return
  <2>3. CASE Goto("prep") /\ i' = 0
    <3>1. AllBlank BY <2>1 DEF Quiet, Blanked
    <3>2. Prefix(0)
      <4>1. \A b \in Pages(part) : ~(b < 0) BY DEF Pages
      <4> QED BY <3>1, <4>1 DEF AllBlank, Prefix
    <3> QED BY <1>4, <2>1, <2>3, <3>2 DEF Goto, Flashing, target
  <2> QED BY <1>6, <2>2, <2>3 DEF LoadImage
<1>7. CASE AskPrepare
  <2>0. desc = part BY <1>1, <1>7 DEF AskPrepare, Flashing
  <2>1. ASSUME Fruitful("P", {SectorOf(desc, i)}), pc = "prep", pc' = "prep", Opened, AskFrame, NeverOutOfOrder'
        PROVE  Quiet'
    <3>1. /\ rx' = <<0>> /\ prepared' = {SectorOf(part, i)} /\ asked' = "sent"
          /\ UNCHANGED <<mode, echo, pending, unlocked, flash>>
      BY <2>0, <2>1 DEF Fruitful
    <3>2. Ready' BY <2>1, <3>1 DEF Quiet, Ready, Flashing, AskFrame
    <3>3. Written' BY <2>1, <3>1 DEF Quiet, Written, Prefix, Checked, AskFrame, arguments
    <3> QED BY <1>5, <2>1, <3>1, <3>2, <3>3 DEF Flashing
  <2>2. Ask("prep", "P", {SectorOf(desc, i)}) /\ "prep" \in Working \ {"data"}
    BY <1>7 DEF AskPrepare, Working, Flashing
  <2>3. /\ pc = "prep" /\ pc' = "prep" /\ AskFrame /\ Opened /\ NeverOutOfOrder'
        /\ Quiet' \/ Fruitful("P", {SectorOf(desc, i)})
    BY <2>2, QuietAsk
  <2> QED BY <2>1, <2>3
<1>8. CASE AskRam
  <2>1. ASSUME Fruitful("W", 0), pc = "ram", pc' = "ram", Opened, AskFrame, NeverOutOfOrder'
        PROVE  Quiet'
    <3>1. /\ rx' = <<0>> /\ pending' = "data" /\ asked' = "sent"
          /\ UNCHANGED <<mode, echo, prepared, unlocked, flash>>
      BY <2>1 DEF Fruitful
    <3>2. Ready' BY <2>1, <3>1 DEF Quiet, Ready, Flashing, AskFrame
    <3>3. Written' BY <2>1, <3>1 DEF Quiet, Written, Prefix, Checked, AskFrame, arguments
    <3> QED BY <1>5, <2>1, <3>1, <3>2, <3>3 DEF Flashing
  <2> QED BY <1>8, <2>1, QuietAsk DEF AskRam, Working, Flashing
<1>9. CASE AskCopy
  <2>0. pc = "copy" /\ asked = "no" /\ i \in Pages(part) /\ flash \in [Pages(part) -> Contents]
    <3>1. pc = "copy" /\ asked = "no" BY <1>9 DEF AskCopy, Ask, Write, Send
    <3>2. i < Blocks(file, desc) BY <3>1 DEF Typed, Counted
    <3> QED BY <3>1, <3>2, CounterIsPage DEF Flashing, Typed, TypeOK, TargetTypeOK
  <2>1. mode = "synced" => unlocked /\ SectorOf(part, i) \in prepared
    BY <2>0 DEF Quiet, Ready, Flashing
  <2>2. ASSUME Fruitful("C", i), pc' = "copy", Opened, AskFrame, NeverOutOfOrder'
        PROVE  Quiet'
    <3>1. /\ rx' = <<0>> /\ Copy(i) /\ pending = "line" /\ mode = "synced" /\ asked' = "sent"
      BY <2>2 DEF Fruitful
    <3>2. Ready' BY <2>2, <3>1 DEF Ready, Flashing, Copy
    <3>3. ASSUME Checked PROVE Prefix(i + 1)'
      <4>1. Prefix(i) /\ ram = Page BY <2>0, <3>1, <3>3 DEF Quiet, Written, Ready
      <4>2. flash[i] = Blank BY <1>0, <2>0, <4>1 DEF Prefix
      <4>3. flash' = [flash EXCEPT ![i] = Page] BY <3>1, <4>1, <4>2 DEF Copy
      <4>4. \A b \in Pages(part) : flash'[b] = IF b = i THEN Page ELSE flash[b]
        BY <2>0, <4>3
      <4>5. \A b \in Pages(part) : b \in Int BY DEF Pages
      <4> QED BY <1>0, <2>2, <4>1, <4>4, <4>5 DEF Prefix, Page, AskFrame, arguments
    <3>4. Written' BY <2>2, <3>1, <3>3 DEF Written, Checked, AskFrame
    <3> QED BY <1>5, <2>2, <3>1, <3>2, <3>4 DEF Flashing, Copy
  <2> QED BY <1>9, <2>1, <2>2, QuietAsk DEF AskCopy, Working, Flashing
<1>10. CASE ReadPrepare
  <2>0. pc = "prep" /\ asked # "no" /\ asked' = "no" /\ EraseFrame /\ UNCHANGED i
    BY <1>10 DEF ReadPrepare, Reading
  <2>1. PICK g \in Replies : Unread(g.rest) /\ IF g.code # 0 THEN Return(g.code) ELSE Goto("ram")
    BY <1>10 DEF ReadPrepare
  <2>2. g.rest = <<>> /\ (g.code = 0 => Accepted) BY <1>2, <2>0 DEF Flashing
  <2>3. mode = "synced" /\ g.code = 0 => SectorOf(part, i) \in prepared BY <2>0, <2>2 DEF Quiet, Ready
  <2>4. Checked => Prefix(i) BY <2>0 DEF Quiet, Written
  <2>5. CASE g.code # 0 BY <1>3, <2>0, <2>1, <2>2, <2>5 DEF Unread, Return
  <2>6. CASE g.code = 0
    BY <1>4, <2>0, <2>1, <2>2, <2>3, <2>4, <2>6 DEF Unread, Goto, Flashing, target
  <2> QED BY <2>5, <2>6
<1>11. CASE ReadRam
  <2>0. pc = "ram" /\ asked # "no" /\ asked' = "no" /\ EraseFrame /\ UNCHANGED i
    BY <1>11 DEF ReadRam, Reading
  <2>1. PICK g \in Replies : Unread(g.rest) /\ IF g.code # 0 THEN Return(-8) ELSE Goto("data")
    BY <1>11 DEF ReadRam
  <2>2. g.rest = <<>> /\ (g.code = 0 => Accepted) BY <1>2, <2>0 DEF Flashing
  <2>3. mode = "synced" => SectorOf(part, i) \in prepared /\ (g.code = 0 => pending = "data")
    BY <2>0, <2>2 DEF Quiet, Ready
  <2>4. Checked => Prefix(i) BY <2>0 DEF Quiet, Written
  <2>5. CASE g.code # 0 BY <1>3, <2>0, <2>1, <2>2, <2>5 DEF Unread, Return
  <2>6. CASE g.code = 0
    BY <1>4, <2>0, <2>1, <2>2, <2>3, <2>4, <2>6 DEF Unread, Goto, Flashing, target
  <2> QED BY <2>5, <2>6
<1>12. CASE ReadCopy
  <2>0. pc = "copy" /\ asked # "no" /\ asked' = "no" /\ EraseFrame BY <1>12 DEF ReadCopy, Reading
  <2>1. PICK g \in Replies : /\ Unread(g.rest)
                             /\ IF g.code # 0 THEN Return(g.code) /\ UNCHANGED i
                                ELSE i' = i + 1 /\ Goto("prep")
    BY <1>12 DEF ReadCopy
  <2>2. g.rest = <<>> /\ (g.code = 0 => Accepted) BY <1>2, <2>0 DEF Flashing
  <2>3. CASE g.code # 0 BY <1>3, <2>0, <2>1, <2>2, <2>3 DEF Unread, Return
  <2>4. CASE g.code = 0
    <3>1. Checked => Prefix(i + 1) BY <2>0, <2>2, <2>4 DEF Quiet, Written
    <3> QED BY <1>4, <2>0, <2>1, <2>2, <2>4, <3>1 DEF Unread, Goto, Flashing, target
  <2> QED BY <2>3, <2>4
<1>13. ASSUME pc = "data"
       PROVE  /\ rx = <<>> /\ asked = "no" /\ desc = part
              /\ mode = "synced" => SectorOf(part, i) \in prepared /\ pending = "data"
              /\ Checked => Prefix(i)
  BY <1>1, <1>13 DEF Quiet, Drained, Ready, Written, Flashing
<1>14. CASE SendEncoded \/ SendRaw
  <2>0. pc = "data" /\ asked' = asked /\ UNCHANGED <<rx, part, i>> /\ EraseFrame /\ pc' = "copy"
    BY <1>14 DEF SendEncoded, SendRaw, Goto
  <2>1. Page' = Page BY <2>0 DEF Page, EraseFrame, arguments
  <2>2. InRam(Page) => ram' = Page BY DEF InRam
  <2>3. UNCHANGED <<mode, echo, unlocked, prepared, flash>>
    BY <1>14 DEF SendEncoded, SendRaw, InRam, Spilled, target
  <2>4. mode = "synced" /\ Checked => ram' = Page
    BY <1>13, <1>14, <2>0, <2>2 DEF SendEncoded, SendRaw, Checked
  <2> QED BY <1>4, <1>13, <2>0, <2>1, <2>3, <2>4 DEF Flashing
<1>15. CASE SendTwice BY <1>13, <1>15 DEF SendTwice
<1>16. CASE SendFailed
  <2>1. pc = "data" /\ asked' = "no" /\ Return(ret') /\ ret' # 0
    BY <1>13, <1>16 DEF SendFailed, Return
  <2>2. rx' = <<>> BY <1>16 DEF SendFailed, Remainders
  <2> QED BY <1>3, <2>1, <2>2
<1>17. CASE FlashDone
  <2>1. /\ pc = "prep" /\ asked = "no" /\ asked' = "no" /\ i = Blocks(file, desc) /\ pc' = "exit"
        /\ UNCHANGED <<part, target, rx, cmd, file, patch>>
    BY <1>17 DEF FlashDone, EraseFrame, arguments, Return
  <2>2. desc = part /\ cmd = "flash" /\ rx = <<>> BY <1>1, <2>1 DEF Flashing, Quiet, Drained
  <2>3. Checked => Prefix(Blocks(file, part)) BY <2>1, <2>2 DEF Quiet, Written
  <2>4. Written' BY <2>1, <2>3 DEF Written, Checked, Prefix, target
  <2>5. Drained' /\ Short' /\ InSession'
    BY <2>1, <2>2 DEF Drained, Short, InSession, NeverOutOfOrder, Working, Erasing, Flashing
  <2>6. Ready' BY <2>1 DEF Ready, Flashing
  <2>7. Blanked' /\ Others' BY <2>1, <2>2 DEF Blanked, Others
  <2> QED BY <2>4, <2>5, <2>6, <2>7 DEF Quiet
<1> QED
  BY <1>6, <1>7, <1>8, <1>9, <1>10, <1>11, <1>12, <1>14, <1>15, <1>16, <1>17 DEF FlashTarget

(* dump_to_file, get_ids and start_prog leave the flash alone.             *)
LEMMA QuietOthers ==
  ASSUME ~SlowLine, Typed, Quiet, DumpToFile \/ GetIds \/ StartProg
  PROVE  Quiet'
<1> DEFINE Apart == {"dump", "id", "goaddr", "gounlock", "gorun"}
<1>1. /\ Apart \subseteq Working \ {"data"}
      /\ \A at \in Apart : at \notin Erasing \cup Flashing \cup Handshake
                              \cup {"load", "idle", "exit", "dispatch", "probe", "ident"}
  BY DEF Working, Erasing, Flashing, Handshake
<1>2. ASSUME NEW at \in Apart, pc = at, pc' = at, asked' = "sent", AskFrame, NeverOutOfOrder', Opened',
             rx' = << 0 >> \/ (at = "id" /\ \E w : rx' = <<0, w>>),
             Ready'
      PROVE  Quiet'
  <2>1. rx' # <<>> /\ Head(rx') = 0 /\ (Len(rx') = 1 \/ at = "id") BY <1>2
  <2>2. CodeOf(0) = 0 /\ 0 <= LargestRead BY DEF CodeOf, NumberOf, MinOf, LargestRead
  <2>3. Drained' BY <1>1, <1>2 DEF Drained
  <2>4. Short' BY <1>1, <1>2, <2>1, <2>2 DEF Short
  <2>5. InSession' BY <1>1, <1>2 DEF InSession
  <2>6. Blanked' /\ Written' BY <1>1, <1>2 DEF Blanked, Written, Erasing, Flashing
  <2>7. Others' BY <1>2 DEF Quiet, Others, AskFrame, arguments
  <2> QED BY <1>2, <2>3, <2>4, <2>5, <2>6, <2>7 DEF Quiet
<1>3. ASSUME NEW at \in Apart, NEW op, NEW arg, Ask(at, op, arg), op \notin {"M", "X", "?", "E", "C"},
             mode = "synced" /\ op = "G" => unlocked
      PROVE  /\ pc = at /\ pc' = at /\ AskFrame /\ Opened /\ NeverOutOfOrder'
             /\ Quiet' \/ (asked' = "sent" /\ Fruitful(op, arg))
  BY <1>1, <1>3, QuietAsk DEF Fruitful
<1>4. ASSUME pc \in Apart, asked # "no", NEW g \in Replies
      PROVE  /\ g.code = 0 => Accepted
             /\ \A s : Remainders(s) = {<<>>}
             /\ pc # "id" \/ g.code # 0 => g.rest = <<>>
  <2>1. pc \notin Handshake \cup {"idle", "probe", "ident", "check"} BY <1>1, <1>4 DEF Erasing
  <2> QED BY <1>4, <2>1, ReplyQuiet DEF Quiet
<1>5. ASSUME pc \in Apart, pc' = "exit", asked' = "no", rx' = <<>>, UNCHANGED cmd
      PROVE  Quiet'
  <2>1. cmd \notin {"flash", "blank"} BY <1>5 DEF Quiet, Others
  <2> QED BY <1>5, <2>1, QuietAside DEF NeverOutOfOrder
<1>6. ASSUME pc \in Apart, pc' \in Apart, asked' = "no", rx' = <<>>, UNCHANGED <<mode, echo, cmd>>,
             pc = "id" <=> pc' = "id", pc # "dump", pc' # "dump",
             mode = "synced" /\ pc' = "gorun" => unlocked'
      PROVE  Quiet'
  <2>1. Opened BY <1>1, <1>6 DEF Quiet, InSession
  <2>2. ~Accepted' BY <1>6 DEF Accepted
  <2>3. Ready' BY <1>1, <1>6, <2>2 DEF Ready, Erasing, Flashing
  <2>4. Blanked' /\ Written' BY <1>1, <1>6, <2>2 DEF Blanked, Written, Erasing, Flashing
  <2>5. cmd = IF pc = "id" THEN "id" ELSE "go"
    BY <1>6 DEF Quiet, Others
  <2>6. Others' BY <1>6, <2>5 DEF Others
  <2> QED BY <1>1, <1>6, <2>1, <2>3, <2>4, <2>6, QuietBetween
<1>7. CASE DumpToFile
  <2>1. AskDump => Quiet'
    <3>1. ASSUME AskDump, asked' = "sent", Fruitful("R", 0) PROVE Quiet'
      <4>1. pc = "dump" /\ pc' = "dump" /\ AskFrame /\ Opened /\ NeverOutOfOrder' BY <1>3, <3>1 DEF AskDump
      <4>2. rx' = <<0>> /\ UNCHANGED target BY <3>1 DEF Fruitful
      <4>3. Ready' BY <4>1 DEF Ready, Flashing
      <4> QED BY <1>2, <3>1, <4>1, <4>2, <4>3 DEF target, Opened
    <3> QED BY <1>3, <3>1 DEF AskDump
  <2>2. ReadDump => Quiet'
    <3>1. ReadDump => pc = "dump" /\ asked # "no" /\ asked' = "no" /\ pc' = "exit" /\ UNCHANGED cmd
      BY DEF ReadDump, Reading, Return, arguments
    <3>2. ReadDump => rx' = <<>> BY DEF ReadDump, Remainders
    <3> QED BY <1>5, <3>1, <3>2
  <2>3. DumpNoMemory => Quiet'
    BY <1>5 DEF DumpNoMemory, Return, Quiet, Drained, arguments
  <2> QED BY <1>7, <2>1, <2>2, <2>3 DEF DumpToFile
<1>8. CASE GetIds
  <2>1. AskId => Quiet'
    <3>1. ASSUME AskId PROVE \E op \in {"J", "N", "K"} : Ask("id", op, 0)
      <4>1. i \in Nat /\ i < 3 BY <3>1 DEF AskId, Typed, TypeOK
      <4>2. i \in {0, 1, 2} BY <4>1
      <4>3. <<"J", "N", "K">>[i + 1] \in {"J", "N", "K"} BY <4>2
      <4> QED BY <3>1, <4>3 DEF AskId
    <3>2. ASSUME NEW op \in {"J", "N", "K"}, Ask("id", op, 0), asked' = "sent", Fruitful(op, 0) PROVE Quiet'
      <4>1. pc = "id" /\ pc' = "id" /\ AskFrame /\ Opened /\ NeverOutOfOrder' BY <1>3, <3>2
      <4>2. UNCHANGED target /\ \E w : rx' = <<0, w>> BY <3>2 DEF Fruitful
      <4>3. Ready' BY <4>1 DEF Ready, Flashing
      <4> QED BY <1>2, <3>2, <4>1, <4>2, <4>3 DEF target, Opened
    <3> QED BY <1>3, <3>1, <3>2
  <2>2. ReadId => Quiet'
    <3>1. ReadId => /\ pc = "id" /\ asked # "no" /\ asked' = "no" /\ pc' \in {"exit", "id"}
                    /\ UNCHANGED cmd /\ UNCHANGED target
      BY DEF ReadId, Reading, Return, Goto, arguments, Unread
    <3>2. ReadId => rx' = <<>>
      <4>1. SUFFICES ASSUME ReadId PROVE rx' = <<>> OBVIOUS
      <4>2. PICK g \in Replies : \E s \in IF g.code = 0 THEN Remainders(g.rest) ELSE {g.rest} : Unread(s)
        BY <4>1 DEF ReadId
      <4>3. g.code # 0 => g.rest = <<>> BY <1>4, <3>1, <4>1
      <4>4. \A s : Remainders(s) = {<<>>} BY DEF Remainders
      <4> QED BY <4>2, <4>3, <4>4 DEF Unread
    <3> QED BY <1>5, <1>6, <3>1, <3>2 DEF target
  <2> QED BY <1>8, <2>1, <2>2 DEF GetIds
<1>9. CASE StartProg
  <2>1. AskVector => Quiet'
    <3>1. ASSUME AskVector, asked' = "sent", Fruitful("R", 0) PROVE Quiet'
      <4>1. pc = "goaddr" /\ pc' = "goaddr" /\ AskFrame /\ Opened /\ NeverOutOfOrder' BY <1>3, <3>1 DEF AskVector
      <4>2. rx' = <<0>> /\ UNCHANGED target BY <3>1 DEF Fruitful
      <4>3. Ready' BY <4>1 DEF Ready, Flashing
      <4> QED BY <1>2, <3>1, <4>1, <4>2, <4>3 DEF target, Opened
    <3> QED BY <1>3, <3>1 DEF AskVector
  <2>2. AskGoUnlock => Quiet'
    <3>1. ASSUME AskGoUnlock, asked' = "sent", Fruitful("U", 0) PROVE Quiet'
      <4>1. pc = "gounlock" /\ pc' = "gounlock" /\ AskFrame /\ Opened /\ NeverOutOfOrder'
        BY <1>3, <3>1 DEF AskGoUnlock
      <4>2. rx' = <<0>> /\ unlocked' /\ UNCHANGED <<mode, echo>> BY <3>1 DEF Fruitful
      <4>3. Ready' BY <4>1, <4>2 DEF Ready, Flashing
      <4> QED BY <1>2, <3>1, <4>1, <4>2, <4>3 DEF Opened
    <3> QED BY <1>3, <3>1 DEF AskGoUnlock
  <2>3. AskGo => Quiet'
    <3>0. AskGo => pc = "gorun" BY DEF AskGo, Ask, Write, Send
    <3>1. AskGo /\ mode = "synced" => unlocked BY <3>0 DEF Quiet, Ready
    <3>2. ASSUME NEW arg, Ask("gorun", "G", arg), asked' = "sent", Fruitful("G", arg), AskGo PROVE Quiet'
      <4>1. pc = "gorun" /\ pc' = "gorun" /\ AskFrame /\ NeverOutOfOrder' BY <1>3, <3>1, <3>2
      <4>2. rx' = <<0>> /\ mode' = "running" BY <3>2 DEF Fruitful
      <4>3. Ready' /\ Opened' BY <4>2 DEF Ready, Opened
      <4> QED BY <1>2, <3>2, <4>1, <4>2, <4>3
    <3> QED BY <1>3, <3>1, <3>2 DEF AskGo
  <2>4. CASE ReadVector
    <3>1. /\ pc = "goaddr" /\ asked # "no" /\ asked' = "no" /\ UNCHANGED <<mode, echo, cmd>>
          /\ pc' \in {"exit", "gounlock"}
      BY <2>4 DEF ReadVector, Reading, GoFrame, arguments, Return, Goto
    <3>2. rx' = <<>> BY <2>4 DEF ReadVector, Remainders
    <3> QED BY <1>5, <1>6, <3>1, <3>2
  <2>5. CASE ReadGoUnlock
    <3>0. pc = "gounlock" /\ asked # "no" /\ asked' = "no" /\ UNCHANGED cmd
      BY <2>5 DEF ReadGoUnlock, Reading, GoFrame, arguments
    <3>1. PICK g \in Replies : Unread(g.rest) /\ IF g.code # 0 THEN Return(-1) ELSE Goto("gorun")
      BY <2>5 DEF ReadGoUnlock
    <3>2. g.rest = <<>> /\ (g.code = 0 => Accepted) BY <1>4, <3>0
    <3>3. mode = "synced" /\ g.code = 0 => unlocked BY <3>0, <3>2 DEF Quiet, Ready
    <3>4. CASE g.code # 0 BY <1>5, <3>0, <3>1, <3>2, <3>4 DEF Unread, Return
    <3>5. CASE g.code = 0 BY <1>6, <3>0, <3>1, <3>2, <3>3, <3>5 DEF Unread, Goto, target
    <3> QED BY <3>4, <3>5
  <2>6. ReadGo => Quiet'
    <3>1. SUFFICES ASSUME ReadGo PROVE Quiet' OBVIOUS
    <3>2. /\ pc = "gorun" /\ asked # "no" /\ asked' = "no" /\ UNCHANGED cmd /\ pc' = "exit"
          /\ \E g \in Replies : rx' = g.rest
      BY <3>1 DEF ReadGo, Reading, GoFrame, arguments, Return, Unread
    <3>3. rx' = <<>> BY <1>4, <3>2
    <3> QED BY <1>5, <3>2, <3>3
  <2>7. GoTooLow => Quiet'
    BY <1>5 DEF GoTooLow, Return, Quiet, Drained, GoFrame, arguments
  <2> QED BY <1>9, <2>1, <2>2, <2>3, <2>4, <2>5, <2>6, <2>7 DEF StartProg
<1> QED BY <1>7, <1>8, <1>9

(* A reset leaves a target nobody can misunderstand, a cut erase or copy   *)
(* one that never answers, a killed program one that nobody reads.         *)
LEMMA QuietUser ==
  ASSUME ~SlowLine, Typed, Quiet, User
  PROVE  Quiet'
<1>0. part \in Devices /\ i \in Nat /\ flash \in [Pages(part) -> Contents]
  BY DEF Typed, TypeOK, TargetTypeOK
<1>1. CASE Start
  <2>1. pc' = "question" /\ asked' = "no" /\ rx' = <<>> BY <1>1 DEF Start, Remainders
  <2> QED BY <2>1, QuietAside DEF NeverOutOfOrder, Handshake
<1>2. CASE Kill
  <2>1. pc' = "idle" /\ asked' = "no" /\ UNCHANGED rx BY <1>2 DEF Kill, Lost
  <2>2. NeverOutOfOrder' BY <2>1 DEF Quiet, Drained, NeverOutOfOrder
  <2> QED BY <2>1, <2>2, QuietAside
<1>3. CASE PressReset
  <2>1. mode' = "reset" /\ UNCHANGED <<part, flash, rx, pc, asked, cmd, file, patch, dev_id, i, ret>>
    BY <1>3 DEF PressReset, Restarted, host, arguments
  <2>2. Drained' BY <2>1 DEF Quiet, Drained, NeverOutOfOrder
  <2>3. Short' BY <2>1 DEF Quiet, Short
  <2>4. InSession' /\ Ready' BY <2>1 DEF InSession, Opened, Ready
  <2>5. Blanked' BY <2>1 DEF Quiet, Blanked, BlankBefore, BlankSectors, AllBlank, Accepted
  <2>6. Written' BY <2>1 DEF Quiet, Written, Prefix, Checked, Accepted
  <2>7. Others' BY <2>1 DEF Quiet, Others
  <2> QED BY <2>2, <2>3, <2>4, <2>5, <2>6, <2>7 DEF Quiet
<1>4. CASE PressResetErasing \/ PressResetCopying
  <2>1. /\ pc \in {"erase", "copy"} /\ pc' = pc /\ asked = "no" /\ asked' = "sent" /\ mode' = "reset"
        /\ UNCHANGED <<part, rx, i>>
    BY <1>4 DEF PressResetErasing, PressResetCopying, PressResetDuring, CutShort, Restarted
  <2>2. rx' = <<>> BY <2>1 DEF Quiet, Drained
  <2>3. Drained' /\ Short' BY <2>1, <2>2 DEF Drained, Short, NeverOutOfOrder
  <2>4. InSession' /\ Ready' BY <2>1 DEF InSession, Opened, Ready
  <2>5. Written' /\ Others' BY <2>1, <2>2 DEF Written, Others, Accepted
  <2>6. pc = "erase" => BlankBefore(i)'
    <3>1. SUFFICES ASSUME pc = "erase" PROVE BlankBefore(i)' OBVIOUS
    <3>2. \A b \in Pages(part) : SectorOf(part, b) \in Int BY <1>0, SectorRange
    <3>3. \A b \in Pages(part) : flash'[b] = IF SectorOf(part, b) \in {i} THEN Garbage ELSE flash[b]
      BY <1>4, <3>1 DEF PressResetErasing, PressResetCopying, PressResetDuring, CutShort
    <3>4. BlankBefore(i) BY <3>1 DEF Quiet, Blanked
    <3> QED BY <1>0, <2>1, <3>2, <3>3, <3>4 DEF BlankBefore
  <2>7. Blanked' BY <2>1, <2>2, <2>6 DEF Blanked, Accepted
  <2> QED BY <2>3, <2>4, <2>5, <2>7 DEF Quiet
<1> QED BY <1>1, <1>2, <1>3, <1>4 DEF User

(* The inductive invariant holds from the start, and always.               *)
LEMMA QuietStep ==
  ASSUME ~SlowLine, Typed, Typed', Quiet, [Next]_vars
  PROVE  Quiet'
<1>1. CASE Program
  BY <1>1, QuietConnect, QuietIdentify, QuietErase, QuietFlash, QuietOthers DEF Program
<1>2. CASE User BY <1>2, QuietUser
<1>3. CASE UNCHANGED vars
  <2> USE <1>3 DEF vars, target, host, arguments
  <2>1. Drained' BY DEF Quiet, Drained, NeverOutOfOrder
  <2>2. Short' BY DEF Quiet, Short
  <2>3. InSession' BY DEF Quiet, InSession, Opened
  <2>4. Ready' BY DEF Quiet, Ready, Accepted, Checked, Page
  <2>5. Blanked' BY DEF Quiet, Blanked, BlankBefore, BlankSectors, AllBlank, Accepted
  <2>6. Written' BY DEF Quiet, Written, Prefix, Checked, Accepted
  <2>7. Others' BY DEF Quiet, Others
  <2> QED BY <2>1, <2>2, <2>3, <2>4, <2>5, <2>6, <2>7 DEF Quiet
<1> QED BY <1>1, <1>2, <1>3 DEF Next

(* The invariant holds of every behaviour with no late answers.            *)
LEMMA QuietAlways ==
  ASSUME ~SlowLine
  PROVE  Spec => []Quiet
<1>1. Init => Quiet
  BY DEF Init, TargetInit, Quiet, Drained, Short, InSession, Ready, Blanked, Written, Others, NeverOutOfOrder,
     Working, Erasing, Flashing
<1>2. Typed /\ Typed' /\ Quiet /\ [Next]_vars => Quiet' BY QuietStep
<1> QED BY <1>1, <1>2, TypedAlways, PTL DEF Spec

(***************************************************************************)
(* What follows from it.                                                   *)
(***************************************************************************)

(* No command is ever sent to a target that echoes it, though the program  *)
(* never looks at the answer to "A 0".                                     *)
THEOREM EchoOffCorrect ==
  ASSUME ~SlowLine
  PROVE  Spec => []EchoOff
<1>1. Quiet => EchoOff BY DEF Quiet, InSession, Opened, EchoOff
<1> QED BY <1>1, QuietAlways, PTL

(* The target never has to answer that it is locked, or that a sector is   *)
(* not prepared.                                                           *)
THEOREM NeverOutOfOrderCorrect ==
  ASSUME ~SlowLine
  PROVE  Spec => []NeverOutOfOrder
<1>1. Quiet => NeverOutOfOrder BY DEF Quiet, Drained
<1> QED BY <1>1, QuietAlways, PTL

(* While an image is written, the flash holds exactly the part of it that  *)
(* the program has counted, on any board whose data is checked.            *)
THEOREM WritingPrefixCorrect ==
  ASSUME ~SlowLine
  PROVE  Spec => []WritingPrefix
<1>1. Typed /\ Quiet => WritingPrefix
  <2>1. Typed /\ pc \in {"ram", "data"} => i \in Pages(part)
    BY CounterIsPage DEF Typed, Counted, Flashing
  <2> QED BY <2>1 DEF Quiet, Written, Prefix, WritingPrefix
<1> QED BY <1>1, TypedAlways, QuietAlways, PTL

(* When lpcprog reports success the flash is what it was asked for, for    *)
(* every board, image and history of kills, resets and lost lines.         *)
THEOREM ReportIsTrueCorrect ==
  ASSUME ~SlowLine
  PROVE  Spec => []ReportIsTrue
<1>1. Quiet => ReportIsTrue BY DEF Quiet, Written, Prefix, Blanked, AllBlank, ReportIsTrue
<1> QED BY <1>1, QuietAlways, PTL

(***************************************************************************)
(* What a step does to the flash, on a line whose data is checked or       *)
(* arrives unaltered.                                                      *)
(***************************************************************************)
DataChecked == ~NoisyLine \/ \A p \in Devices : p.uuencode = 1

(* No line but an erase or a copy touches the flash.                       *)
LEMMA ObeyKeepsFlash ==
  ASSUME NEW op, NEW arg, op \notin {"E", "C"}, Obey(op, arg)
  PROVE  UNCHANGED flash
<1>1. Execute(op, arg) => UNCHANGED flash
  BY DEF Execute, KnownSectors, Refused, Unknown, ReadPartId, ReadUidOrVersion, Unlock, BlankCheck,
     Prepare, WrongSectors, NotMapped, Compare, WriteRam, ReadMemory, Go, target
<1> QED BY <1>1 DEF Obey, target

(* ... and no step but those two, done or cut short.                       *)
LEMMA StepKeepsFlash ==
  ASSUME Typed, [Next]_vars, ~AskErase, ~AskCopy, ~PressResetErasing, ~PressResetCopying
  PROVE  UNCHANGED <<part, flash>>
<1>1. ASSUME NEW at, NEW ACTION heard, Write(at, heard), heard => UNCHANGED flash
      PROVE  UNCHANGED <<part, flash>>
  BY <1>1 DEF Write, Send, Lost, target
<1>2. ASSUME NEW at, NEW op, NEW arg, Ask(at, op, arg), op \notin {"E", "C"}
      PROVE  UNCHANGED <<part, flash>>
  BY <1>1, <1>2, ObeyKeepsFlash DEF Ask
<1>3. CASE Connect
  <2>1. HearQuestion \/ HearSynchronized \/ HearFrequency \/ HearEchoOff => UNCHANGED flash
    BY ObeyKeepsFlash DEF HearQuestion, HearSynchronized, HearFrequency, HearEchoOff, Refused, target
  <2>2. AskQuestion \/ AskSynchro \/ AskFreq \/ AskEchoOff => UNCHANGED <<part, flash>>
    BY <1>1, <2>1 DEF AskQuestion, AskSynchro, AskFreq, AskEchoOff
  <2> QED
    BY <1>3, <2>2 DEF Connect, ReadSynchronized, ReadSynchroOk, ReadFreqOk, Acknowledges, ReadEchoOff,
       Unread, target
<1>4. CASE Identify
  BY <1>2, <1>4 DEF Identify, AskProbe, AskIdent, ReadProbe, ReadIdent, Dispatch, Unread, target
<1>5. CASE EraseFlash
  <2>1. AskUnlock \/ AskBlankCheck \/ AskErasePrep => UNCHANGED <<part, flash>>
    BY <1>2 DEF AskUnlock, AskBlankCheck, AskErasePrep
  <2> QED
    BY <1>5, <2>1 DEF EraseFlash, ReadUnlock, ReadBlankCheck, ReadErasePrep, ReadErase, FlashNowBlank, Unread, target
<1>6. CASE FlashTarget
  <2>1. AskPrepare \/ AskRam => UNCHANGED <<part, flash>>
    BY <1>2 DEF AskPrepare, AskRam
  <2>2. SendEncoded \/ SendTwice \/ SendRaw \/ SendFailed => UNCHANGED <<part, flash>>
    BY DEF SendEncoded, SendTwice, SendRaw, SendFailed, InRam, Spilled, target
  <2> QED
    BY <1>6, <2>1, <2>2 DEF FlashTarget, LoadImage, ReadPrepare, ReadRam, ReadCopy, FlashDone, Unread, target
<1>7. CASE DumpToFile \/ GetIds
  <2>1. AskId => UNCHANGED <<part, flash>>
    <3>1. ASSUME AskId PROVE <<"J", "N", "K">>[i + 1] \notin {"E", "C"}
      <4>1. i \in {0, 1, 2} BY <3>1 DEF AskId, Typed, TypeOK
      <4> QED BY <4>1
    <3> QED BY <1>2, <3>1 DEF AskId
  <2> QED
    BY <1>2, <1>7, <2>1 DEF DumpToFile, GetIds, AskDump, ReadDump, DumpNoMemory, ReadId, Unread, target
<1>8. CASE StartProg
  BY <1>2, <1>8 DEF StartProg, AskVector, ReadVector, AskGoUnlock, ReadGoUnlock, AskGo, ReadGo, GoTooLow,
     Unread, target
<1>9. CASE User
  BY <1>9 DEF User, Start, Kill, PressReset, Lost, target
<1>10. CASE UNCHANGED vars BY <1>10 DEF vars, target
<1> QED BY <1>3, <1>4, <1>5, <1>6, <1>7, <1>8, <1>9, <1>10 DEF Next, Program

(* An erase takes away one sector, of the part.                            *)
LEMMA EraseEffect ==
  ASSUME Typed, Quiet, AskErase
  PROVE  /\ pc = "erase" /\ AskFrame /\ i \in Sectors(part)
         /\ \/ UNCHANGED flash
            \/ flash' = [b \in Pages(part) |-> IF SectorOf(part, b) \in {i} THEN Blank ELSE flash[b]]
<1>1. pc = "erase" /\ asked = "no" BY DEF AskErase, Ask, Write, Send
<1>2. AskFrame BY DEF AskErase, Ask, Write, Send, AskFrame, arguments, bounds
<1>3. Opened /\ part \in Devices /\ i \in Nat /\ rx = <<>> /\ desc = part
  BY <1>1 DEF Quiet, InSession, Drained, Working, Erasing, Typed, TypeOK, TargetTypeOK, RightPart
<1>4. i \in Sectors(part)
  <2>1. i < part.flash_nb_sectors BY <1>1, <1>3 DEF Typed, Counted
  <2> QED BY <1>3, <2>1, PartFields DEF Sectors
<1>5. mode = "synced" => unlocked /\ {i} \subseteq prepared BY <1>1 DEF Quiet, Ready
<1>6. Fruitless \/ Fruitful("E", {i}) BY <1>3, <1>5, AskOutcome DEF AskErase
<1> QED BY <1>1, <1>2, <1>4, <1>6 DEF Fruitless, Fruitful, Erase

(* A copy gives the next blank page its part of the image.                 *)
LEMMA CopyEffect ==
  ASSUME Typed, Quiet, DataChecked, AskCopy
  PROVE  /\ pc = "copy" /\ AskFrame /\ i \in Pages(part) /\ i < Blocks(file, part)
         /\ \/ UNCHANGED flash
            \/ Prefix(i) /\ flash[i] = Blank /\ flash' = [flash EXCEPT ![i] = Page]
<1>1. pc = "copy" /\ asked = "no" BY DEF AskCopy, Ask, Write, Send
<1>2. AskFrame BY DEF AskCopy, Ask, Write, Send, AskFrame, arguments, bounds
<1>3. Opened /\ part \in Devices /\ i \in Nat /\ rx = <<>> /\ desc = part /\ Checked
  BY <1>1 DEF Quiet, InSession, Drained, Working, Flashing, Typed, TypeOK, TargetTypeOK, RightPart,
     DataChecked, Checked
<1>4. i \in Pages(part) /\ i < Blocks(file, part)
  <2>1. i < Blocks(file, desc) BY <1>1 DEF Typed, Counted
  <2> QED BY <1>1, <1>3, <2>1, CounterIsPage DEF Flashing
<1>5. mode = "synced" => unlocked /\ SectorOf(part, i) \in prepared BY <1>1 DEF Quiet, Ready, Flashing
<1>6. Fruitless \/ Fruitful("C", i) BY <1>3, <1>5, AskOutcome DEF AskCopy
<1>7. CASE Fruitful("C", i)
  <2>1. Copy(i) /\ mode = "synced" /\ pending = "line" BY <1>7 DEF Fruitful
  <2>2. Prefix(i) /\ ram = Page BY <1>1, <1>3, <2>1 DEF Quiet, Written, Ready
  <2>3. flash[i] = Blank BY <1>3, <1>4, <2>2 DEF Prefix
  <2> QED BY <1>1, <1>2, <1>4, <2>1, <2>2, <2>3 DEF Copy
<1> QED BY <1>1, <1>2, <1>4, <1>6, <1>7 DEF Fruitless

(* No page is ever written twice, or with anything but its own part of an  *)
(* image: only a reset in the middle of an erase or a copy spoils one.     *)
THEOREM NoOverprogramCorrect ==
  ASSUME ~SlowLine, DataChecked
  PROVE  Spec => NoOverprogram
<1>1. ASSUME Typed, Quiet, [Next]_vars, NEW b \in Pages(part), flash'[b] = Garbage, flash[b] # Garbage
      PROVE  resets' # resets
  <2>1. CASE PressResetErasing \/ PressResetCopying
    <3>1. resets \in Nat BY <1>1, LineAssumption DEF Typed, TypeOK
    <3> QED BY <2>1, <3>1 DEF PressResetErasing, PressResetCopying, PressResetDuring
  <2>2. CASE AskErase
    <3>1. Blank # Garbage BY DEF Blank, Garbage, Plain
    <3> QED BY <1>1, <2>2, <3>1, EraseEffect
  <2>3. CASE AskCopy
    <3>1. Page # Garbage BY DEF Page, ImagePage, Garbage, Plain
    <3>2. flash \in [Pages(part) -> Contents] BY <1>1 DEF Typed, TypeOK, TargetTypeOK
    <3> QED BY <1>1, <2>3, <3>1, <3>2, CopyEffect
  <2> QED BY <1>1, <2>1, <2>2, <2>3, StepKeepsFlash
<1>2. Typed /\ Quiet /\ [Next]_vars =>
        [\A b \in Pages(part) : flash'[b] = Garbage /\ flash[b] # Garbage => resets' # resets]_vars
  BY <1>1
<1> QED BY <1>2, TypedAlways, QuietAlways, PTL DEF Spec, NoOverprogram

(***************************************************************************)
(* lpcprog implements FlashImage.                                          *)
(***************************************************************************)

(* The instance speaks of the same parts, pages and contents.              *)
LEMMA SameNames ==
  /\ FI!Devices = Devices /\ FI!Blank = Blank /\ FI!Old = Old /\ FI!Garbage = Garbage /\ FI!NoFile = NoFile
  /\ \A p : FI!Pages(p) = Pages(p) /\ FI!Sectors(p) = Sectors(p)
  /\ \A p, b : FI!SectorOf(p, b) = SectorOf(p, b)
  /\ \A f, q, b : FI!ImagePage(f, q, b) = ImagePage(f, q, b)
  /\ \A f, p : FI!Blocks(f, p) = Blocks(f, p)
<1>1. \A p : FI!SectorSize(p) = SectorSize(p) /\ FI!WriteSize(p) = WriteSize(p)
  BY DEF FI!SectorSize, FI!WriteSize, FI!BlockSizes, SectorSize, WriteSize, BlockSizes
<1>2. \A p : FI!PageSize(p) = PageSize(p) BY <1>1 DEF FI!PageSize, PageSize
<1>3. \A f, p : FI!LoadedSize(f, p) = LoadedSize(f, p)
  BY DEF FI!LoadedSize, FI!MinOf, LoadedSize, MinOf
<1> QED
  BY <1>1, <1>2, <1>3 DEF FI!Devices, FI!Blank, FI!Old, FI!Garbage, FI!Plain, FI!NoFile, FI!Pages, FI!Sectors,
     FI!SectorOf, FI!ImagePage, FI!Blocks, Devices, Blank, Old, Garbage, Plain, NoFile, Pages, Sectors,
     SectorOf, ImagePage, Blocks

(* The job and the image a state stands for.                               *)
Reported == pc = "exit" /\ ret = 0 /\ cmd \in {"flash", "blank"}

(* What each place of the program is for the abstract flash image.         *)
LEMMA JobValue ==
  /\ pc \in Erasing \cup {"load"} => Job = "erasing"
  /\ pc \in Flashing => Job = "writing"
  /\ Reported => Job = "done"
  /\ pc \notin Erasing \cup {"load"} \cup Flashing /\ ~Reported => Job = "idle"
  /\ Job = "idle" \/ cmd # "flash" => Image = [file |-> NoFile, patch |-> TRUE]
  /\ Job # "idle" /\ cmd = "flash" => Image = [file |-> file, patch |-> patch]
  BY DEF Job, Image, Reported, Erasing, Flashing

(* The same of the state after a step.                                     *)
LEMMA JobValueNext ==
  /\ pc' \in Erasing \cup {"load"} => Job' = "erasing"
  /\ pc' \in Flashing => Job' = "writing"
  /\ Reported' => Job' = "done"
  /\ pc' \notin Erasing \cup {"load"} \cup Flashing /\ ~Reported' => Job' = "idle"
  /\ Job' = "idle" \/ cmd' # "flash" => Image' = [file |-> NoFile, patch |-> TRUE]
  /\ Job' # "idle" /\ cmd' = "flash" => Image' = [file |-> file', patch |-> patch']
  BY DEF Job, Image, Reported, Erasing, Flashing

(* A step of the abstract flash image, or a stutter.                       *)
Implements == [FI!Next]_(FI!vars)

(* A step that keeps the flash and the job is a stutter of the             *)
(* abstraction.                                                            *)
LEMMA SameJob ==
  ASSUME UNCHANGED <<part, flash, cmd, file, patch>>, Job' = Job
  PROVE  Implements
<1>1. Image' = Image BY DEF Image
<1> QED BY <1>1 DEF Implements, FI!vars

(* A step that ends the job without a report is its Stop, or a stutter.    *)
LEMMA StoppedJob ==
  ASSUME UNCHANGED <<part, flash>>, Job' = "idle"
  PROVE  Implements
<1>1. Image' = FI!Nothing BY JobValueNext, SameNames DEF FI!Nothing
<1>2. CASE Job = "idle"
  <2>1. Image' = Image BY <1>1, <1>2, JobValue, SameNames DEF FI!Nothing
  <2> QED BY <1>2, <2>1 DEF Implements, FI!vars
<1>3. CASE Job # "idle" BY <1>1, <1>3 DEF Implements, FI!Next, FI!Stop
<1> QED BY <1>2, <1>3

(* An erase or a copy, whole or cut short, is one of the sector or page.   *)
LEMMA ImplementsFlashing ==
  ASSUME Typed, Quiet, DataChecked, AskErase \/ AskCopy \/ PressResetErasing \/ PressResetCopying
  PROVE  Implements
<1>0. flash \in [Pages(part) -> Contents] /\ part \in Devices /\ i \in Nat
  BY DEF Typed, TypeOK, TargetTypeOK
<1>1. CASE AskErase
  <2>1. pc = "erase" /\ AskFrame /\ i \in Sectors(part) BY <1>1, EraseEffect
  <2>2. Job = "erasing" /\ Job' = Job /\ Image' = Image
    BY <2>1, JobValue DEF Erasing, AskFrame, arguments, Job, Image
  <2>3. CASE UNCHANGED flash BY <2>1, <2>2, <2>3, SameJob DEF AskFrame, arguments
  <2>4. CASE flash' = [b \in Pages(part) |-> IF SectorOf(part, b) \in {i} THEN Blank ELSE flash[b]]
    <3>1. flash' = [b \in FI!Pages(part) |-> IF FI!SectorOf(part, b) = i THEN FI!Blank ELSE flash[b]]
      BY <2>4, SameNames
    <3>2. FI!EraseSector(i) BY <2>1, <2>2, <3>1 DEF FI!EraseSector, AskFrame
    <3> QED BY <2>1, <3>2, SameNames DEF Implements, FI!Next
  <2> QED BY <1>1, <2>3, <2>4, EraseEffect
<1>2. CASE AskCopy
  <2>1. pc = "copy" /\ AskFrame /\ i \in Pages(part) /\ i < Blocks(file, part) BY <1>2, CopyEffect
  <2>2. Job = "writing" /\ Job' = Job /\ Image' = Image
    BY <2>1, JobValue DEF Flashing, AskFrame, arguments, Job, Image
  <2>3. CASE UNCHANGED flash BY <2>1, <2>2, <2>3, SameJob DEF AskFrame, arguments
  <2>4. CASE Prefix(i) /\ flash[i] = Blank /\ flash' = [flash EXCEPT ![i] = Page]
    <3>1. Image = [file |-> file, patch |-> patch] /\ file # NoFile
      BY <2>1, <2>2, JobValue DEF Typed, Dispatched, Flashing
    <3>2. FI!Size = Blocks(file, part) BY <3>1, SameNames DEF FI!Size
    <3>3. \A b : FI!Wanted(b) = ImagePage(file, patch, b) BY <3>1, SameNames DEF FI!Wanted
    <3>4. \A a \in FI!Pages(part) : a < i => flash[a] = FI!Wanted(a)
      BY <2>4, <3>3, SameNames DEF Prefix
    <3>5. flash[i] = FI!Blank /\ flash' = [flash EXCEPT ![i] = FI!Wanted(i)]
      BY <2>4, <3>3, SameNames DEF Page
    <3>6. FI!WritePage(i)
      BY <2>1, <2>2, <3>2, <3>4, <3>5 DEF FI!WritePage, AskFrame
    <3> QED BY <2>1, <3>6, SameNames DEF Implements, FI!Next
  <2> QED BY <1>2, <2>3, <2>4, CopyEffect
<1>3. CASE PressResetErasing
  <2>1. /\ pc = "erase" /\ UNCHANGED <<part, pc, cmd, file, patch, ret>>
        /\ flash' = [b \in Pages(part) |-> IF SectorOf(part, b) \in {i} THEN Garbage ELSE flash[b]]
    BY <1>3 DEF PressResetErasing, PressResetDuring, CutShort, arguments
  <2>2. Job = "erasing" /\ Job' = Job /\ Image' = Image
    BY <2>1, JobValue DEF Erasing, Job, Image
  <2>3. i \in Sectors(part)
    <3>1. desc = part /\ i < desc.flash_nb_sectors
      BY <2>1 DEF Typed, RightPart, Counted, Working, Erasing
    <3> QED BY <1>0, <3>1, PartFields DEF Sectors
  <2> DEFINE spoiled == {b \in FI!Pages(part) : FI!SectorOf(part, b) = i}
  <2>4. flash' = [b \in FI!Pages(part) |-> IF b \in spoiled THEN FI!Garbage ELSE flash[b]]
    BY <2>1, SameNames
  <2>5. FI!Spoil(spoiled) BY <2>1, <2>2, <2>4 DEF FI!Spoil
  <2> QED BY <2>3, <2>5, SameNames DEF Implements, FI!Next
<1>4. CASE PressResetCopying
  <2>1. /\ pc = "copy" /\ asked = "no" /\ UNCHANGED <<part, pc, cmd, file, patch, ret>>
        /\ flash' = [flash EXCEPT ![i] = Garbage]
    BY <1>4 DEF PressResetCopying, PressResetDuring, CutShort, arguments
  <2>2. Job = "writing" /\ Job' = Job /\ Image' = Image
    BY <2>1, JobValue DEF Flashing, Job, Image
  <2>3. i \in Pages(part) BY <2>1, CounterIsPage DEF Typed, Counted, Flashing
  <2>4. flash' = [b \in FI!Pages(part) |-> IF b \in {i} THEN FI!Garbage ELSE flash[b]]
    BY <1>0, <2>1, SameNames
  <2>5. FI!Spoil({i}) BY <2>1, <2>2, <2>4 DEF FI!Spoil
  <2> QED BY <2>3, <2>5, SameNames DEF Implements, FI!Next
<1> QED BY <1>1, <1>2, <1>3, <1>4

(* Where the job begins, goes on to write, and is reported.                *)
LEMMA ImplementsTurn ==
  ASSUME Typed, Typed', Quiet, DataChecked, Dispatch \/ FlashNowBlank \/ LoadImage \/ FlashDone
  PROVE  Implements
<1>0. UNCHANGED <<part, flash, cmd, file, patch>>
  BY DEF Dispatch, FlashNowBlank, LoadImage, FlashDone, EraseFrame, arguments, target
<1>1. CASE pc' = "exit" /\ ret' # 0
  <2>1. Job' = "idle" BY <1>1, JobValueNext DEF Reported, Erasing, Flashing
  <2> QED BY <1>0, <2>1, StoppedJob
<1>2. CASE Dispatch /\ ~(pc' = "exit" /\ ret' # 0)
  <2>1. pc = "dispatch" /\ pc' = FirstPlace[cmd] /\ cmd # "other"
    BY <1>2 DEF Dispatch, Return, Goto, Rejection
  <2>2. Job = "idle" BY <2>1, JobValue DEF Reported, Erasing, Flashing
  <2>3. pc' \in {"unlock", "dump", "id", "goaddr"}
    BY <2>1 DEF Typed, TypeOK, Commands, FirstPlace
  <2>4. CASE pc' # "unlock"
    <3>1. Job' = "idle" BY <2>3, <2>4, JobValueNext DEF Reported, Erasing, Flashing
    <3> QED BY <1>0, <3>1, StoppedJob
  <2>5. CASE pc' = "unlock"
    <3>1. Job' = "erasing" BY <2>5, JobValueNext DEF Erasing
    <3>2. Image' \in FI!Images
      <4>1. file' \in Files \cup {NoFile} /\ patch' \in BOOLEAN BY DEF Typed, TypeOK
      <4>2. Image' \in {[file |-> NoFile, patch |-> TRUE], [file |-> file', patch |-> patch']}
        BY <3>1, JobValueNext
      <4>3. FI!Images = [file: Files \cup {NoFile}, patch: BOOLEAN] BY SameNames DEF FI!Images
      <4>4. \A f \in Files \cup {NoFile}, q \in BOOLEAN :
              [file |-> f, patch |-> q] \in [file: Files \cup {NoFile}, patch: BOOLEAN]
        OBVIOUS
      <4>5. TRUE \in BOOLEAN /\ NoFile \in Files \cup {NoFile} OBVIOUS
      <4> HIDE DEF Image
      <4> QED BY <4>1, <4>2, <4>3, <4>4, <4>5
    <3>3. FI!Begin BY <1>0, <2>2, <3>1, <3>2 DEF FI!Begin
    <3> QED BY <3>3 DEF Implements, FI!Next
  <2> QED BY <2>4, <2>5
<1>3. CASE LoadImage /\ ~(pc' = "exit" /\ ret' # 0)
  <2>1. pc = "load" /\ pc' = "prep" BY <1>3 DEF LoadImage, Return, Goto
  <2>2. cmd = "flash" /\ file # NoFile /\ AllBlank BY <2>1 DEF Typed, Dispatched, Quiet, Blanked
  <2>3. Job = "erasing" /\ Job' = "writing" BY <2>1, JobValue, JobValueNext DEF Flashing
  <2>4. Image = [file |-> file, patch |-> patch] /\ Image' = Image
    BY <1>0, <2>2, <2>3, JobValue, JobValueNext
  <2>5. Image.file # FI!NoFile /\ FI!AllBlank BY <2>2, <2>4, SameNames DEF FI!AllBlank, AllBlank
  <2>6. FI!StartWriting BY <1>0, <2>3, <2>4, <2>5 DEF FI!StartWriting
  <2> QED BY <2>6 DEF Implements, FI!Next
<1>4. CASE FlashNowBlank /\ cmd = "flash"
  <2>1. pc = "check" /\ pc' = "load" BY <1>4 DEF FlashNowBlank, Goto
  <2>2. Job = "erasing" /\ Job' = "erasing" BY <2>1, JobValue, JobValueNext DEF Erasing
  <2> QED BY <1>0, <2>2, SameJob
<1>5. CASE FlashNowBlank /\ cmd # "flash"
  <2>1. pc = "check" /\ pc' = "exit" /\ ret' = 0 /\ i = desc.flash_nb_sectors
    BY <1>5 DEF FlashNowBlank, Return
  <2>2. cmd = "blank" /\ desc = part /\ part \in Devices
    BY <1>5, <2>1 DEF Typed, Dispatched, Erasing, RightPart, Working, TypeOK, TargetTypeOK
  <2>3. Job = "erasing" /\ Job' = "done"
    BY <1>0, <2>1, <2>2, JobValue, JobValueNext DEF Erasing, Reported
  <2>4. Image = [file |-> NoFile, patch |-> TRUE] /\ Image' = Image
    BY <1>0, <1>5, JobValue, JobValueNext
  <2>5. AllBlank
    <3>1. BlankBefore(part.flash_nb_sectors) BY <2>1, <2>2 DEF Quiet, Blanked
    <3> QED BY <2>2, <3>1, SectorRange DEF BlankBefore, AllBlank
  <2>6. FI!Complete
    <3>1. \A b \in Pages(part) : ~(b < 0) BY DEF Pages
    <3>2. FI!Size = 0 BY <2>4, SameNames DEF FI!Size
    <3> QED BY <2>5, <3>1, <3>2, SameNames DEF FI!Complete, AllBlank
  <2>7. FI!Report BY <1>0, <2>3, <2>4, <2>6, SameNames DEF FI!Report
  <2> QED BY <2>7 DEF Implements, FI!Next
<1>6. CASE FlashDone
  <2>1. pc = "prep" /\ pc' = "exit" /\ ret' = 0 /\ i = Blocks(file, desc)
    BY <1>6 DEF FlashDone, Return
  <2>2. cmd = "flash" /\ file # NoFile /\ desc = part /\ Checked
    BY <2>1 DEF Typed, Dispatched, Flashing, RightPart, Working, TypeOK, TargetTypeOK, DataChecked, Checked
  <2>3. Job = "writing" /\ Job' = "done"
    BY <1>0, <2>1, <2>2, JobValue, JobValueNext DEF Flashing, Reported
  <2>4. Image = [file |-> file, patch |-> patch] /\ Image' = Image
    BY <1>0, <2>2, <2>3, JobValue, JobValueNext
  <2>5. Prefix(Blocks(file, part)) BY <2>1, <2>2 DEF Quiet, Written
  <2>6. FI!Complete
    <3>1. FI!Size = Blocks(file, part) BY <2>2, <2>4, SameNames DEF FI!Size
    <3>2. \A b : FI!Wanted(b) = ImagePage(file, patch, b) BY <2>4, SameNames DEF FI!Wanted
    <3> QED BY <2>5, <3>1, <3>2, SameNames DEF FI!Complete, Prefix
  <2>7. FI!Report BY <1>0, <2>3, <2>4, <2>6 DEF FI!Report
  <2> QED BY <2>7 DEF Implements, FI!Next
<1>7. FlashDone \/ LoadImage \/ Dispatch \/ FlashNowBlank OBVIOUS
<1> QED BY <1>1, <1>2, <1>3, <1>4, <1>5, <1>6, <1>7

(* Every other step leaves the flash alone, and goes on with the job or    *)
(* ends it.                                                                *)
LEMMA ImplementsRest ==
  ASSUME Typed, Quiet, [Next]_vars, UNCHANGED <<part, flash>>,
         ~Dispatch, ~FlashNowBlank, ~LoadImage, ~FlashDone
  PROVE  Implements
<1> DEFINE Same    == Job' = Job /\ UNCHANGED <<cmd, file, patch>>
           Stopped == Job' = "idle"
<1>1. Same \/ Stopped => Implements BY SameJob, StoppedJob
<1>2. ASSUME UNCHANGED <<pc, arguments, ret>> PROVE Same
  BY <1>2 DEF Job, arguments
<1>3. ASSUME NEW at, NEW ACTION heard, Write(at, heard) PROVE Same
  BY <1>2, <1>3 DEF Write, Send
<1>4. ASSUME NEW at, NEW op, NEW arg, Ask(at, op, arg) PROVE Same
  BY <1>3, <1>4 DEF Ask
<1>5. ASSUME pc' = "exit", ret' # 0 \/ cmd' \notin {"flash", "blank"} PROVE Stopped
  BY <1>5, JobValueNext DEF Reported, Erasing, Flashing
<1>6. ASSUME pc' \notin Erasing \cup {"load", "exit"} \cup Flashing PROVE Stopped
  BY <1>6, JobValueNext DEF Reported
<1>7. ASSUME pc \in Erasing, pc' \in Erasing, UNCHANGED arguments PROVE Same
  BY <1>7, JobValue, JobValueNext DEF arguments
<1>8. ASSUME pc \in Flashing, pc' \in Flashing, UNCHANGED arguments PROVE Same
  BY <1>8, JobValue, JobValueNext DEF arguments
<1>9. CASE Connect
  <2>1. CASE AskQuestion \/ AskSynchro \/ AskFreq \/ AskEchoOff
    BY <1>1, <1>3, <2>1 DEF AskQuestion, AskSynchro, AskFreq, AskEchoOff
  <2>2. CASE ReadSynchronized \/ ReadSynchroOk \/ ReadFreqOk \/ ReadEchoOff
    <3>1. pc' \in Handshake \cup {"probe", "ident"}
      BY <2>2 DEF ReadSynchronized, ReadSynchroOk, ReadFreqOk, ReadEchoOff, Acknowledges, Goto, Handshake
    <3> QED BY <1>1, <1>6, <3>1 DEF Handshake, Erasing, Flashing
  <2> QED BY <1>9, <2>1, <2>2 DEF Connect
<1>10. CASE Identify
  <2>1. CASE AskProbe \/ AskIdent BY <1>1, <1>4, <2>1 DEF AskProbe, AskIdent
  <2>2. CASE ReadProbe \/ ReadIdent
    <3>1. CASE ReadProbe
      <4>1. pc' = "ident" BY <3>1 DEF ReadProbe, Goto
      <4> QED BY <1>1, <1>6, <4>1 DEF Erasing, Flashing
    <3>2. CASE ReadIdent
      <4>1. PICK g \in Replies : \E p \in PartIds(g) : IF p.id < 0 THEN Return(-1) ELSE Goto("dispatch")
        BY <3>2 DEF ReadIdent
      <4>2. pc' = "dispatch" \/ (pc' = "exit" /\ ret' # 0) BY <4>1 DEF Return, Goto
      <4> QED BY <1>1, <1>5, <1>6, <4>2 DEF Erasing, Flashing
    <3> QED BY <2>2, <3>1, <3>2
  <2> QED BY <1>10, <2>1, <2>2 DEF Identify
<1>11. CASE EraseFlash
  <2>1. CASE AskUnlock \/ AskBlankCheck \/ AskErasePrep \/ AskErase
    BY <1>1, <1>4, <2>1 DEF AskUnlock, AskBlankCheck, AskErasePrep, AskErase
  <2>2. CASE ReadUnlock \/ ReadBlankCheck \/ ReadErasePrep \/ ReadErase
    <3>1. pc \in Erasing /\ UNCHANGED arguments
      BY <2>2 DEF ReadUnlock, ReadBlankCheck, ReadErasePrep, ReadErase, Reading, EraseFrame, Erasing
    <3>2. pc' \in Erasing \/ (pc' = "exit" /\ ret' # 0)
      <4>1. CASE ReadUnlock BY <4>1 DEF ReadUnlock, EraseFailed, Return, Goto, Erasing
      <4>2. CASE ReadBlankCheck
        <5>1. PICK g \in Replies : \/ Goto("check")
                                   \/ g.code < 0 /\ EraseFailed(g.code)
                                   \/ Goto("eprep")
          BY <4>2 DEF ReadBlankCheck
        <5>2. g.code \in Int BY ReplyTyped
        <5> QED BY <5>1, <5>2 DEF EraseFailed, Return, Goto, Erasing
      <4>3. CASE ReadErasePrep BY <4>3 DEF ReadErasePrep, EraseFailed, Return, Goto, Erasing
      <4>4. CASE ReadErase BY <4>4 DEF ReadErase, EraseFailed, Return, Goto, Erasing
      <4> QED BY <2>2, <4>1, <4>2, <4>3, <4>4
    <3> QED BY <1>1, <1>5, <1>7, <3>1, <3>2
  <2> QED BY <1>11, <2>1, <2>2 DEF EraseFlash
<1>12. CASE FlashTarget
  <2>1. CASE AskPrepare \/ AskRam \/ AskCopy
    BY <1>1, <1>4, <2>1 DEF AskPrepare, AskRam, AskCopy
  <2>2. CASE ReadPrepare \/ ReadRam \/ ReadCopy \/ SendEncoded \/ SendTwice \/ SendRaw \/ SendFailed
    <3>1. pc \in Flashing /\ UNCHANGED arguments
      BY <2>2 DEF ReadPrepare, ReadRam, ReadCopy, SendEncoded, SendTwice, SendRaw, SendFailed, Reading,
         EraseFrame, Flashing
    <3>2. pc' \in Flashing \/ (pc' = "exit" /\ ret' # 0)
      <4>1. CASE ReadPrepare BY <4>1 DEF ReadPrepare, Goto, Return, Flashing
      <4>2. CASE ReadRam BY <4>2 DEF ReadRam, Goto, Return, Flashing
      <4>3. CASE ReadCopy BY <4>3 DEF ReadCopy, Goto, Return, Flashing
      <4>4. CASE SendEncoded \/ SendTwice \/ SendRaw
        BY <4>4 DEF SendEncoded, SendTwice, SendRaw, Goto, Flashing
      <4>5. CASE SendFailed
        <5>1. PICK r \in {-6, -5, -2, -7} : Return(r) BY <4>5 DEF SendFailed
        <5> QED BY <5>1 DEF Return
      <4> QED BY <2>2, <4>1, <4>2, <4>3, <4>4, <4>5
    <3> QED BY <1>1, <1>5, <1>8, <3>1, <3>2
  <2> QED BY <1>12, <2>1, <2>2 DEF FlashTarget
<1>13. CASE DumpToFile \/ GetIds \/ StartProg
  <2>1. CASE AskDump \/ AskId \/ AskVector \/ AskGoUnlock \/ AskGo
    BY <1>1, <1>4, <2>1 DEF AskDump, AskId, AskVector, AskGoUnlock, AskGo
  <2>2. CASE ReadDump \/ DumpNoMemory \/ ReadId \/ ReadVector \/ ReadGoUnlock \/ ReadGo \/ GoTooLow
    <3>1. pc \in {"dump", "id", "goaddr", "gounlock", "gorun"} /\ UNCHANGED cmd
      BY <2>2 DEF ReadDump, DumpNoMemory, ReadId, ReadVector, ReadGoUnlock, ReadGo, GoTooLow, GoFrame,
         Reading, arguments
    <3>2. cmd' \notin {"flash", "blank"} BY <3>1 DEF Quiet, Others
    <3>3. pc' \in {"exit", "id", "gounlock", "gorun"}
      BY <2>2 DEF ReadDump, DumpNoMemory, ReadId, ReadVector, ReadGoUnlock, ReadGo, GoTooLow, Goto, Return
    <3> QED BY <1>1, <1>5, <1>6, <3>2, <3>3 DEF Erasing, Flashing
  <2> QED BY <1>13, <2>1, <2>2 DEF DumpToFile, GetIds, StartProg
<1>14. CASE User
  <2>1. CASE Start BY <1>1, <1>6, <2>1 DEF Start, Erasing, Flashing
  <2>2. CASE Kill BY <1>1, <1>6, <2>2 DEF Kill, Erasing, Flashing
  <2>3. CASE PressReset \/ PressResetErasing \/ PressResetCopying
    BY <1>1, <1>2, <2>3 DEF PressReset, PressResetErasing, PressResetCopying, PressResetDuring, host
  <2> QED BY <1>14, <2>1, <2>2, <2>3 DEF User
<1>15. CASE UNCHANGED vars BY <1>1, <1>2, <1>15 DEF vars, host
<1> QED BY <1>9, <1>10, <1>11, <1>12, <1>13, <1>14, <1>15 DEF Next, Program

(* Every step of lpcprog is a step of FlashImage, or none.                 *)
LEMMA ImplementsStep ==
  ASSUME Typed, Typed', Quiet, DataChecked, [Next]_vars
  PROVE  Implements
<1>1. CASE Dispatch \/ FlashNowBlank \/ LoadImage \/ FlashDone BY <1>1, ImplementsTurn
<1>2. CASE AskErase \/ AskCopy \/ PressResetErasing \/ PressResetCopying BY <1>2, ImplementsFlashing
<1> QED BY <1>1, <1>2, StepKeepsFlash, ImplementsRest

(* lpcprog starts where FlashImage starts.                                 *)
LEMMA ImplementsInit ==
  ASSUME Init
  PROVE  FI!Init
<1>1. part \in FI!Devices /\ flash \in [FI!Pages(part) -> {FI!Blank, FI!Old}]
  <2>1. flash \in [Pages(part) -> {Blank, Old}] BY DEF Init, TargetInit
  <2> QED BY <2>1, SameNames DEF Init, TargetInit
<1>2. Job = "idle" BY JobValue DEF Init, Reported, Erasing, Flashing
<1>3. Image = FI!Nothing BY <1>2, JobValue, SameNames DEF FI!Nothing
<1> QED BY <1>1, <1>2, <1>3 DEF FI!Init

(* "flash" and "blank" treat the flash the way FlashImage promises,        *)
(* whatever the line loses, whenever the program is killed or the target   *)
(* reset: pages are programmed once, in order, after all were erased, and  *)
(* success is reported of the whole image.                                 *)
THEOREM ImplementsFlashImageCorrect ==
  ASSUME ~SlowLine, DataChecked
  PROVE  Spec => ImplementsFlashImage
<1>1. Typed /\ Typed' /\ Quiet /\ [Next]_vars => [FI!Next]_(FI!vars)
  BY ImplementsStep DEF Implements
<1> QED BY <1>1, ImplementsInit, TypedAlways, QuietAlways, PTL DEF Spec, ImplementsFlashImage, FI!Spec
=============================================================================
