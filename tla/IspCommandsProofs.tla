-------------------------- MODULE IspCommandsProofs --------------------------
(***************************************************************************)
(* What the proofs about the tools share: the arithmetic of write blocks,  *)
(* what is read of the answers of the target, and that the target keeps    *)
(* its type, for every set of parts, files, refusals and words.            *)
(***************************************************************************)
EXTENDS IspCommands, SequenceTheorems, TLAPS

(***************************************************************************)
(* Arithmetic of write blocks.                                             *)
(***************************************************************************)

(* calc_write_size returns 0 or a block size that fits in a sector.        *)
LEMMA WriteSizeValue ==
  ASSUME NEW p \in Devices
  PROVE  /\ WriteSize(p) \in BlockSizes \cup {0}
         /\ WriteSize(p) # 0 => WriteSize(p) <= SectorSize(p)
         /\ WriteSize(p) # 0 => WriteSize(p) <= p.ram_buff_size
<1> DEFINE fits == {s \in BlockSizes : s <= SectorSize(p) /\ s <= p.ram_buff_size}
<1>1. CASE fits = {}
  BY <1>1 DEF WriteSize
<1>2. CASE fits # {}
  <2>1. \E s \in fits : \A t \in fits : t <= s
    <3>1. CASE 4096 \in fits BY <3>1 DEF BlockSizes
    <3>2. CASE 4096 \notin fits /\ 1024 \in fits BY <3>2 DEF BlockSizes
    <3>3. CASE 4096 \notin fits /\ 1024 \notin fits /\ 512 \in fits BY <3>3 DEF BlockSizes
    <3>4. CASE 4096 \notin fits /\ 1024 \notin fits /\ 512 \notin fits /\ 256 \in fits
      BY <3>4 DEF BlockSizes
    <3>5. CASE fits \subseteq {64} BY <1>2, <3>5
    <3> QED BY <3>1, <3>2, <3>3, <3>4, <3>5 DEF BlockSizes
  <2>2. WriteSize(p) \in fits
    BY <1>2, <2>1 DEF WriteSize
  <2> QED BY <2>2
<1> QED BY <1>1, <1>2

(* A part has at least one sector, and its pages are numbered from 0.      *)
LEMMA PartFields ==
  ASSUME NEW p \in Devices
  PROVE  /\ p \in PartDesc
         /\ p.part_id \in Nat /\ p.part_id > LargestRead
         /\ p.flash_size \in Nat /\ p.flash_nb_sectors \in Nat
         /\ p.ram_buff_offset \in Nat /\ p.ram_size \in Nat
         /\ SectorSize(p) \in Nat /\ SectorSize(p) > 0
<1>1. p \in PartDesc BY PartsAssumption DEF Devices
<1>2. p.flash_size \in Nat /\ p.flash_nb_sectors \in Nat \ {0}
  BY <1>1 DEF PartDesc
<1>3. SectorSize(p) \in Nat BY <1>2 DEF SectorSize
<1> QED BY <1>1, <1>2, <1>3, PartsAssumption, GeometryAssumption DEF PartDesc

(* The block counter of flash_target stays on pages the flash has, whatever *)
(* the size of the file: that is what the test for -7 is for.              *)
LEMMA BlockIsPage ==
  ASSUME NEW p \in Devices, NEW f \in Files \cup {NoFile},
         WriteSize(p) # 0, LoadedSize(f, p) > 0,
         Blocks(f, p) * WriteSize(p) <= p.flash_size
  PROVE  /\ Blocks(f, p) \in Nat
         /\ \A b \in Nat : b < Blocks(f, p) => b \in Pages(p)
<1>1. p.flash_size \in Nat BY PartFields
<1>2. LoadedSize(f, p) \in Nat
  <2>1. f.size \in Nat
    <3>1. CASE f \in Files
      <4>1. f \in FileDesc BY <3>1, FilesAssumption
      <4> QED BY <4>1 DEF FileDesc
    <3>2. CASE f = NoFile BY <3>2 DEF NoFile
    <3> QED BY <3>1, <3>2
  <2> QED BY <1>1, <2>1 DEF LoadedSize, MinOf
<1> DEFINE size == LoadedSize(f, p)
<1>3. ASSUME NEW ws \in {64, 256, 512, 1024, 4096}, ws = WriteSize(p)
      PROVE  /\ Blocks(f, p) \in Nat
             /\ \A b \in Nat : b < Blocks(f, p) => b \in 0 .. (p.flash_size \div ws) - 1
  <2>0. Blocks(f, p) = (size \div ws) + (IF size % ws > 0 THEN 1 ELSE 0)
    BY <1>3 DEF Blocks
  <2> HIDE DEF size
  <2>1. CASE ws = 64 BY <1>1, <1>2, <1>3, <2>0, <2>1 DEF size
  <2>2. CASE ws = 256 BY <1>1, <1>2, <1>3, <2>0, <2>2 DEF size
  <2>3. CASE ws = 512 BY <1>1, <1>2, <1>3, <2>0, <2>3 DEF size
  <2>4. CASE ws = 1024 BY <1>1, <1>2, <1>3, <2>0, <2>4 DEF size
  <2>5. CASE ws = 4096 BY <1>1, <1>2, <1>3, <2>0, <2>5 DEF size
  <2> QED BY <1>3, <2>1, <2>2, <2>3, <2>4, <2>5
<1> QED BY <1>3, WriteSizeValue DEF BlockSizes, Pages, PageSize

(***************************************************************************)
(* What is read from the line.                                             *)
(***************************************************************************)

(* A number read as a code is too small to be the id of a part.            *)
LEMMA CodeRange ==
  ASSUME NEW t \in Genuine, part \in Devices
  PROVE  /\ CodeOf(t) \in 0 .. LargestRead
         /\ NumberOf(t) \in Nat
         /\ NumberOf(t) \in 0 .. LargestRead \cup {part.part_id} \cup Words
  BY PartFields DEF CodeOf, NumberOf, MinOf, Genuine, Tokens, LargestRead,
     SYNCHRO, SYNCHRO_OK, RESEND

(* What is left on the line is text the target sent.                       *)
LEMMA RemaindersTyped ==
  ASSUME NEW S, NEW s \in Seq(S), NEW r \in Remainders(s)
  PROVE  r \in Seq(S)
<1>1. CASE SlowLine
  <2>1. PICK n \in 1 .. Len(s) + 1 : r = SubSeq(s, n, Len(s))
    BY <1>1 DEF Remainders
  <2> QED BY <2>1
<1>2. CASE ~SlowLine
  BY <1>2 DEF Remainders
<1> QED BY <1>1, <1>2

(* ... and so does the read after a text of the handshake.                 *)
LEMMA AcknowledgesTyped ==
  ASSUME NEW S, rx \in Seq(S), NEW a \in Acknowledges
  PROVE  a.rest \in Seq(S)
<1>1. <<>> \in Seq(S) OBVIOUS
<1>2. CASE a.found # "none"
  <2>1. Len(rx) >= 2 /\ a.rest \in Remainders(SubSeq(rx, 3, Len(rx))) BY <1>2 DEF Acknowledges
  <2>2. SubSeq(rx, 3, Len(rx)) \in Seq(S) BY <2>1
  <2> QED BY <2>1, <2>2, RemaindersTyped
<1>3. CASE a.found = "none"
  <2>1. a.rest \in Remainders(rx) \cup {<<>>} BY <1>3 DEF Acknowledges
  <2> QED BY <1>1, <2>1, RemaindersTyped
<1> QED BY <1>2, <1>3

(* The code a command returns is an answer, -4 or -5.                      *)
LEMMA RepliesTyped ==
  ASSUME part \in Devices, rx \in Seq(Genuine), NEW g \in Replies
  PROVE  /\ g.code \in -5 .. LargestRead
         /\ g.rest \in Seq(Genuine)
<1>1. CASE g \in {[code |-> -5, rest |-> rx], [code |-> -4, rest |-> <<>>], [code |-> -4, rest |-> rx]}
  <2>1. g.code \in {-5, -4} /\ g.rest \in {rx, <<>>} BY <1>1
  <2>2. <<>> \in Seq(Genuine) OBVIOUS
  <2>3. g.rest \in Seq(Genuine) BY <2>1, <2>2
  <2>4. g.code \in -5 .. LargestRead BY <2>1 DEF LargestRead
  <2> QED BY <2>3, <2>4
<1>2. CASE rx # <<>> /\ \E d \in Digits(Head(rx)) : g = [code |-> CodeOf(Head(rx)), rest |-> d \o Tail(rx)]
  <2>1. PICK d \in Digits(Head(rx)) : g = [code |-> CodeOf(Head(rx)), rest |-> d \o Tail(rx)]
    BY <1>2
  <2>2. Head(rx) \in Genuine /\ Tail(rx) \in Seq(Genuine)
    BY <1>2
  <2>3. d \in Seq(Genuine)
    <3>1. CASE d = <<>> BY <3>1
    <3>2. CASE \E w \in Words : d = <<w>>
      BY <3>2, RepliesAssumption DEF Genuine, Tokens
    <3> QED BY <2>1, <3>1, <3>2 DEF Digits
  <2>4. CodeOf(Head(rx)) \in 0 .. LargestRead
    BY <2>2, CodeRange
  <2> QED BY <2>1, <2>2, <2>3, <2>4 DEF LargestRead
<1>3. \/ g \in {[code |-> -5, rest |-> rx], [code |-> -4, rest |-> <<>>], [code |-> -4, rest |-> rx]}
      \/ rx # <<>> /\ \E d \in Digits(Head(rx)) : g = [code |-> CodeOf(Head(rx)), rest |-> d \o Tail(rx)]
  BY DEF Replies
<1> QED BY <1>1, <1>2, <1>3

(* The number taken for the id is the id of the part, a word or too small. *)
LEMMA PartIdsTyped ==
  ASSUME part \in Devices, rx \in Seq(Genuine), NEW g \in Replies, NEW p \in PartIds(g)
  PROVE  /\ p.id \in {-5, -4, -2} \cup 0 .. LargestRead \cup {part.part_id} \cup Words
         /\ p.id \in Int
         /\ p.rest \in Seq(Genuine)
<1>0. g.code \in {-5, -4} \cup 0 .. LargestRead /\ g.rest \in Seq(Genuine)
  <2>1. g.code \in {-5, -4} \cup 0 .. LargestRead
    <3>1. CASE g.code \in {-5, -4} BY <3>1
    <3>2. CASE rx # <<>> /\ g.code = CodeOf(Head(rx))
      <4>1. Head(rx) \in Genuine BY <3>2
      <4> QED BY <3>2, <4>1, CodeRange
    <3> QED BY <3>1, <3>2 DEF Replies
  <2> QED BY <2>1, RepliesTyped
<1>1. CASE g.code # 0
  <2>1. p.id = g.code /\ p.rest = g.rest BY <1>1 DEF PartIds
  <2> QED BY <1>0, <2>1 DEF LargestRead
<1>2. CASE g.code = 0
  <2>1. CASE p.id = -2 /\ p.rest \in Remainders(g.rest) \cup {<<>>}
    <3>1. \A r \in Remainders(g.rest) : r \in Seq(Genuine) BY <1>0, RemaindersTyped
    <3>2. <<>> \in Seq(Genuine) OBVIOUS
    <3>3. p.rest \in Seq(Genuine) BY <2>1, <3>1, <3>2
    <3>4. p.id = -2 BY <2>1
    <3> QED BY <3>3, <3>4
  <2>2. CASE /\ g.rest # <<>> /\ p.id = NumberOf(Head(g.rest))
             /\ p.rest \in Remainders(Tail(g.rest))
    <3>1. Head(g.rest) \in Genuine /\ Tail(g.rest) \in Seq(Genuine)
      BY <1>0, <2>2
    <3>2. p.id \in 0 .. LargestRead \cup {part.part_id} \cup Words /\ p.id \in Nat
      BY <2>2, <3>1, CodeRange
    <3>3. \A r \in Remainders(Tail(g.rest)) : r \in Seq(Genuine) BY <3>1, RemaindersTyped
    <3> QED BY <2>2, <3>2, <3>3
  <2>3. \/ p \in {[id |-> -2, rest |-> r] : r \in Remainders(g.rest) \cup {<<>>}}
        \/ /\ g.rest # <<>>
           /\ p \in {[id |-> NumberOf(Head(g.rest)), rest |-> r] : r \in Remainders(Tail(g.rest))}
    BY <1>2 DEF PartIds
  <2>4. CASE p \in {[id |-> -2, rest |-> r] : r \in Remainders(g.rest) \cup {<<>>}}
    <3>1. p.id = -2 /\ p.rest \in Remainders(g.rest) \cup {<<>>} BY <2>4
    <3> QED BY <2>1, <3>1
  <2>5. CASE /\ g.rest # <<>>
             /\ p \in {[id |-> NumberOf(Head(g.rest)), rest |-> r] : r \in Remainders(Tail(g.rest))}
    <3>1. p.id = NumberOf(Head(g.rest)) /\ p.rest \in Remainders(Tail(g.rest)) BY <2>5
    <3> QED BY <2>2, <2>5, <3>1
  <2> QED BY <2>3, <2>4, <2>5
<1> QED BY <1>1, <1>2

(* On a line with nothing on its way an answer comes alone, after the echo. *)
LEMMA AnswerAlone ==
  ASSUME rx = <<>>, NEW text \in Seq(Tokens), Answer(text)
  PROVE  /\ ~echo => rx' = text
         /\ echo => /\ Len(rx') = Len(text) + 1 /\ rx'[1] = 0
                    /\ \A n \in 2 .. Len(rx') : rx'[n] = text[n - 1]
<1>1. <<>> \o text = text BY ConcatEmptySeq
<1>2. <<>> \o <<>> = <<>> /\ <<>> \o <<0>> = <<0>> /\ <<0>> \in Seq(Tokens)
  <2>1. <<>> \in Seq(Tokens) /\ <<0>> \in Seq(Tokens) BY DEF Tokens
  <2> QED BY <2>1, ConcatEmptySeq
<1>3. CASE ~echo BY <1>1, <1>2, <1>3 DEF Answer
<1>4. CASE echo
  <2>1. rx' = <<0>> \o text BY <1>2, <1>4 DEF Answer
  <2> QED BY <1>2, <1>4, <2>1
<1> QED BY <1>3, <1>4

(***************************************************************************)
(* The target keeps its type.                                              *)
(***************************************************************************)

(* A refusal, a number or a text is something this target sends.           *)
LEMMA AnswerTyped ==
  ASSUME part \in Devices, rx \in Seq(Genuine), NEW text \in Seq(Genuine), Answer(text)
  PROVE  rx' \in Seq(Genuine)
<1>1. <<0>> \in Seq(Genuine) /\ <<>> \in Seq(Genuine)
  BY DEF Genuine, Tokens, LargestRead
<1> QED BY <1>1 DEF Answer

(* So do all the texts its commands answer with, the handshake included.   *)
LEMMA TextsTyped ==
  ASSUME part \in Devices
  PROVE  /\ \A code \in 0 .. LargestRead : <<code>> \in Seq(Genuine)
         /\ \A code \in Refusals : <<code>> \in Seq(Genuine)
         /\ <<CMD_SUCCESS, part.part_id>> \in Seq(Genuine)
         /\ \A w \in Words : <<CMD_SUCCESS, w>> \in Seq(Genuine)
         /\ \A w \in Words : <<SECTOR_NOT_BLANK, 0, w>> \in Seq(Genuine)
         /\ \A w \in Words : <<COMPARE_ERROR, w>> \in Seq(Genuine)
         /\ <<SYNCHRO>> \in Seq(Genuine) /\ <<SYNCHRO_OK>> \in Seq(Genuine)
         /\ <<RESEND>> \in Seq(Genuine)
<1>1. \A c \in 0 .. LargestRead : c \in Genuine
  BY DEF Genuine, Tokens, LargestRead
<1>2. \A w \in Words : w \in Genuine
  BY RepliesAssumption DEF Genuine, Tokens
<1>3. part.part_id \in Genuine
  BY PartFields DEF Genuine, Tokens
<1>4. SYNCHRO \in Genuine /\ SYNCHRO_OK \in Genuine /\ RESEND \in Genuine
  BY DEF Genuine, Tokens, SYNCHRO, SYNCHRO_OK, RESEND, LargestRead
<1>5. 0 \in 0 .. LargestRead /\ SECTOR_NOT_BLANK \in 0 .. LargestRead
     /\ COMPARE_ERROR \in 0 .. LargestRead
  BY DEF LargestRead, SECTOR_NOT_BLANK, COMPARE_ERROR
<1>6. \A c \in Refusals : c \in 0 .. LargestRead
  BY RepliesAssumption DEF LargestRead, LastCode
<1> QED BY <1>1, <1>2, <1>3, <1>4, <1>5, <1>6 DEF CMD_SUCCESS

(* Every command line the target obeys keeps the type of its state, when   *)
(* the sectors named in it exist.                                          *)
LEMMA ObeyTyped ==
  ASSUME TargetTypeOK, UNCHANGED part, NEW op, NEW arg,
         op = "C" => arg \in Pages(part),
         Obey(op, arg)
  PROVE  TargetTypeOK'
<1> USE TextsTyped, AnswerTyped DEF TargetTypeOK
<1>1. rx' \in Seq(Genuine)
  <2>1. \A text \in Seq(Genuine) : Answer(text) => rx' \in Seq(Genuine)
    BY AnswerTyped
  <2>2. CASE UNCHANGED rx BY <2>2
  <2>3. CASE \E code \in 0 .. LargestRead : Answer(<<code>>) BY <2>1, <2>3
  <2>4. CASE \E code \in Refusals : Answer(<<code>>) BY <2>1, <2>4
  <2>5. CASE Answer(<<CMD_SUCCESS, part.part_id>>) BY <2>1, <2>5
  <2>6. CASE \E w \in Words : Answer(<<CMD_SUCCESS, w>>) BY <2>1, <2>6
  <2>7. CASE \E w \in Words : Answer(<<SECTOR_NOT_BLANK, 0, w>>) BY <2>1, <2>7
  <2>8. CASE Answer(<<SYNCHRO_OK>>) BY <2>1, <2>8
  <2>11. CASE \E w \in Words : Answer(<<COMPARE_ERROR, w>>) BY <2>1, <2>11
  <2>9. {CMD_SUCCESS, INVALID_COMMAND, INVALID_SECTOR, CMD_LOCKED, ADDR_ERROR, ADDR_NOT_MAPPED,
         SECTOR_NOT_PREPARED_FOR_WRITE_OPERATION} \subseteq 0 .. LargestRead
    BY DEF CMD_SUCCESS, INVALID_COMMAND, INVALID_SECTOR, CMD_LOCKED, ADDR_ERROR, ADDR_NOT_MAPPED,
           SECTOR_NOT_PREPARED_FOR_WRITE_OPERATION, LargestRead
  <2>10. Execute(op, arg) =>
           \/ \E code \in 0 .. LargestRead : Answer(<<code>>)
           \/ \E code \in Refusals : Answer(<<code>>)
           \/ Answer(<<CMD_SUCCESS, part.part_id>>)
           \/ \E w \in Words : Answer(<<CMD_SUCCESS, w>>)
           \/ \E w \in Words : Answer(<<SECTOR_NOT_BLANK, 0, w>>)
           \/ \E w \in Words : Answer(<<COMPARE_ERROR, w>>)
    BY <2>9 DEF Execute, KnownSectors, Refused, Unknown, ReadPartId, ReadUidOrVersion, Unlock, BlankCheck,
       Prepare, Erase, NotReady, WrongSectors, NotMapped, Compare, Copy, WriteRam, ReadMemory, Go
  <2> QED BY <2>2, <2>3, <2>4, <2>5, <2>6, <2>7, <2>8, <2>9, <2>10, <2>11 DEF Obey
<1>2. flash' \in [Pages(part) -> Contents]
  <2>1. Blank \in Contents /\ Garbage \in Contents
    BY DEF Blank, Garbage, Plain, Contents, Kinds
  <2>2. Execute(op, arg) => flash' \in [Pages(part) -> Contents]
    BY <2>1 DEF Execute, KnownSectors, Refused, Unknown, ReadPartId, ReadUidOrVersion, Unlock, BlankCheck,
       Prepare, Erase, NotReady, WrongSectors, NotMapped, Compare, Copy, WriteRam, ReadMemory, Go, target
  <2> QED BY <2>2 DEF Obey, target
<1>3. prepared' \subseteq Sectors(part)
  <2>1. Execute(op, arg) => prepared' \subseteq Sectors(part)
    BY DEF Execute, KnownSectors, Refused, Unknown, ReadPartId, ReadUidOrVersion, Unlock, BlankCheck,
       Prepare, Erase, NotReady, WrongSectors, NotMapped, Compare, Copy, WriteRam, ReadMemory, Go, target
  <2> QED BY <2>1 DEF Obey, target
<1>4. /\ mode' \in Modes /\ echo' \in BOOLEAN /\ unlocked' \in BOOLEAN
      /\ pending' \in {"line", "stray", "data"} /\ ram' \in Contents
  <2>1. Garbage \in Contents
    BY DEF Garbage, Plain, Contents, Kinds
  <2>2. Execute(op, arg) =>
          /\ mode' \in Modes /\ echo' = echo /\ unlocked' \in BOOLEAN
          /\ pending' \in {"line", "stray", "data"} /\ ram' = ram
    BY DEF Execute, KnownSectors, Refused, Unknown, ReadPartId, ReadUidOrVersion, Unlock, BlankCheck,
       Prepare, Erase, NotReady, WrongSectors, NotMapped, Compare, Copy, WriteRam, ReadMemory, Go, target, Modes
  <2> QED BY <2>1, <2>2 DEF Obey, target, Modes
<1> QED BY <1>1, <1>2, <1>3, <1>4 DEF Pages, Sectors, Genuine

(* Reading from the line, or not touching it, keeps the type of the target. *)
LEMMA SameTarget ==
  ASSUME TargetTypeOK, UNCHANGED <<part, target>>, rx' \in Seq(Genuine)
  PROVE  TargetTypeOK'
  BY DEF TargetTypeOK, target, Pages, Sectors, Genuine

(* Neither do the texts of the handshake.                                  *)
LEMMA HandshakeTyped ==
  ASSUME TargetTypeOK, UNCHANGED part
  PROVE  /\ HearQuestion => TargetTypeOK'
         /\ HearSynchronized => TargetTypeOK'
         /\ HearFrequency => TargetTypeOK'
         /\ HearEchoOff => TargetTypeOK'
<1>0. rx \in Seq(Genuine) /\ part \in Devices BY DEF TargetTypeOK
<1>1. HearQuestion => TargetTypeOK'
  <2>1. <<SYNCHRO>> \in Seq(Genuine) /\ <<0>> \in Seq(Genuine)
    BY <1>0, TextsTyped DEF LargestRead
  <2>2. rx \o <<SYNCHRO>> \in Seq(Genuine) /\ rx \o <<0>> \in Seq(Genuine) /\ rx \o <<>> \in Seq(Genuine)
    BY <1>0, <2>1
  <2>3. SYNCHRO \in Genuine BY <1>0 DEF Genuine, Tokens, LargestRead, SYNCHRO
  <2>4. Append(rx, SYNCHRO) \in Seq(Genuine) BY <1>0, <2>3
  <2> QED BY <1>0, <2>2, <2>4 DEF HearQuestion, TargetTypeOK, Modes, target, Pages, Sectors, Genuine
<1>2. Obey("?", 0) => TargetTypeOK'
  BY <1>0, ObeyTyped
<1>3. ASSUME NEW text \in {<<SYNCHRO_OK>>, <<CMD_SUCCESS>>}, Answer(text)
      PROVE  rx' \in Seq(Genuine)
  <2>1. CMD_SUCCESS \in 0 .. LargestRead BY DEF CMD_SUCCESS, LargestRead
  <2>2. text \in Seq(Genuine) BY <1>0, <1>3, <2>1, TextsTyped
  <2> QED BY <1>0, <1>3, <2>2, AnswerTyped
<1>4. HearSynchronized => TargetTypeOK'
  BY <1>0, <1>2, <1>3 DEF HearSynchronized, TargetTypeOK, Modes, target, Pages, Sectors, Genuine
<1>5. HearEchoOff => TargetTypeOK'
  <2>1. Refused => rx' \in Seq(Genuine)
    <3>1. \A code \in Refusals : <<code>> \in Seq(Genuine) BY <1>0, TextsTyped
    <3> QED BY <1>0, <3>1, AnswerTyped DEF Refused
  <2>2. Refused => TargetTypeOK'
    BY <1>0, <2>1, SameTarget DEF Refused
  <2>3. CASE mode = "synced" /\ pending = "line" /\ ~Refused
    BY <1>0, <1>3, <2>3 DEF HearEchoOff, TargetTypeOK, Modes, target, Pages, Sectors, Genuine
  <2> QED BY <1>2, <2>2, <2>3 DEF HearEchoOff
<1> QED BY <1>1, <1>2, <1>4, <1>5 DEF HearFrequency

(* A line that is lost changes nothing but what the target waits for.      *)
LEMMA LostTyped ==
  ASSUME TargetTypeOK, UNCHANGED part, Lost
  PROVE  TargetTypeOK'
  BY DEF Lost, target, TargetTypeOK, Pages, Sectors, Genuine

(* Plain contents are no page of an image.                                 *)
LEMMA PlainKinds ==
  /\ Garbage.kind # "image" /\ Blank.kind # "image" /\ Old.kind # "image"
  BY DEF Garbage, Blank, Old, Plain
=============================================================================
