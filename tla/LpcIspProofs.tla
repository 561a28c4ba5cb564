---------------------------- MODULE LpcIspProofs -----------------------------
(***************************************************************************)
(* Theorems about LpcIsp, for every set of parts, files, command lines,    *)
(* refusals and words, any number of runs of the program and of resets.    *)
(***************************************************************************)
EXTENDS LpcIsp, IspCommandsProofs

(* The letter of each command.                                             *)
LEMMA LetterValue ==
  /\ Letter("unlock") = "U" /\ Letter("part-id") = "J" /\ Letter("uid") = "N" /\ Letter("version") = "K"
  /\ Letter("write") = "W" /\ Letter("read") = "R" /\ Letter("copy") = "C" /\ Letter("compare") = "M"
  /\ Letter("prepare") = "P" /\ Letter("erase") = "E" /\ Letter("blank") = "I"
  BY DEF Letter

(***************************************************************************)
(* Type correctness, on any line.                                          *)
(***************************************************************************)

Messages ==
  {"nothing", "error", "opened", "started", "words", "blank", "used", "equal",
   "differ", "read", "short", "sent", "unlocked", "prepared", "erased", "copied"}

(* Each command is worked on in places of its own, and between two runs    *)
(* no question is open.                                                    *)
Course ==
  /\ pc \in Handshake => inv.cmd = "sync"
  /\ pc \in {"check", "command", "data"} => inv.cmd # "sync"
  /\ pc = "data" => inv.cmd = "write"
  /\ pc \in {"check", "data", "exit", "idle"} => asked = "no"
  /\ pc \in {"command", "data"} /\ inv.cmd = "write" => ~NoData(inv.file)

(* The conjuncts of TypeOK, but for the files with nothing in them.        *)
Shaped ==
  /\ TargetTypeOK
  /\ pc \in Running \cup {"idle", "exit"} /\ asked \in {"no", "sent", "failed"}
  /\ inv \in Invocations /\ ret \in Int /\ said \in Messages
  /\ out \in {"none", "whole", "part", "garbage"}
  /\ DOMAIN before = Pages(part) /\ calm \in BOOLEAN

(* The inductive invariant.                                                *)
Typed == Shaped /\ Course

(* The fields of the command line.                                         *)
LEMMA LineFields ==
  ASSUME Typed
  PROVE  /\ inv \in Invocations /\ inv.cmd \in isp_cmds_list \cup {"sync"} /\ inv.wrong \in Int
         /\ inv.file \in Files \cup {NoFile} /\ inv.page \in Nat /\ Staged \in Contents
         /\ inv.mapped => inv.page \in Pages(part)
<1>1. inv \in CommandLine /\ inv \in Invocations /\ part \in Devices
  BY InvocationsAssumption DEF Typed, Shaped, TargetTypeOK
<1>2. inv.cmd \in isp_cmds_list \cup {"sync"} /\ inv.wrong \in Int /\ inv.file \in Files \cup {NoFile}
      /\ inv.page \in Nat
  BY <1>1 DEF CommandLine
<1>3. Staged \in Contents BY <1>2 DEF Staged, ImagePage, Contents, Kinds
<1> QED BY <1>1, <1>2, <1>3, InvocationsAssumption

(* What a run writes for its command.                                      *)
Sent(op, arg) ==
  \/ inv.cmd \in Addressed /\ op = "X" /\ arg = 0
  \/ inv.cmd \in Addressed /\ op = Letter(inv.cmd) /\ arg = inv.page /\ inv.page \in Pages(part)
  \/ inv.cmd \in Sectorial /\ op = Letter(inv.cmd) /\ arg = Named
  \/ inv.cmd = "go" /\ op = "G"
  \/ inv.cmd \in Plain4 /\ op = Letter(inv.cmd) /\ arg = 0

(* A line is written, whole or not, and the target obeys it or misses it.  *)
LEMMA CommandSent ==
  ASSUME Typed, AskCommand
  PROVE  /\ pc = "command" /\ asked = "no" /\ UNCHANGED <<part, pc, inv, told, out, history>>
         /\ asked' \in {"sent", "failed"}
         /\ Lost \/ (asked' = "sent" /\ \E op, arg : Sent(op, arg) /\ Obey(op, arg))
<1>1. pc = "command" /\ inv.cmd \in isp_cmds_list
  <2>1. pc = "command" BY DEF AskCommand, Write, Send
  <2> QED BY <2>1, LineFields DEF Typed, Course
<1>2. /\ asked = "no" /\ UNCHANGED <<part, pc, inv, told, out, history>>
      /\ asked' \in {"sent", "failed"}
  BY DEF AskCommand, Write, Send
<1>3. inv.cmd \in Addressed /\ Fits => inv.page \in Pages(part)
  BY LineFields DEF Fits
<1>4. HearCommand => \E op, arg : Sent(op, arg) /\ Obey(op, arg)
  <2>1. ASSUME inv.cmd \in Addressed, Fits, Obey(Letter(inv.cmd), inv.page)
        PROVE  \E op, arg : Sent(op, arg) /\ Obey(op, arg)
    <3>1. Sent(Letter(inv.cmd), inv.page) BY <1>3, <2>1 DEF Sent
    <3> QED BY <2>1, <3>1
  <2>2. ASSUME inv.cmd \in Addressed, Obey("X", 0)
        PROVE  \E op, arg : Sent(op, arg) /\ Obey(op, arg)
    <3>1. Sent("X", 0) BY <2>2 DEF Sent
    <3> QED BY <2>2, <3>1
  <2>3. ASSUME inv.cmd \in Sectorial, Obey(Letter(inv.cmd), Named)
        PROVE  \E op, arg : Sent(op, arg) /\ Obey(op, arg)
    <3>1. Sent(Letter(inv.cmd), Named) BY <2>3 DEF Sent
    <3> QED BY <2>3, <3>1
  <2>4. ASSUME inv.cmd = "go", NEW a \in {0, 1}, Obey("G", a)
        PROVE  \E op, arg : Sent(op, arg) /\ Obey(op, arg)
    <3>1. Sent("G", a) BY <2>4 DEF Sent
    <3> QED BY <2>4, <3>1
  <2>5. ASSUME inv.cmd \in Plain4, Obey(Letter(inv.cmd), 0)
        PROVE  \E op, arg : Sent(op, arg) /\ Obey(op, arg)
    <3>1. Sent(Letter(inv.cmd), 0) BY <2>5 DEF Sent
    <3> QED BY <2>5, <3>1
  <2>6. (IF inv.mapped THEN 1 ELSE 0) \in {0, 1} OBVIOUS
  <2> QED BY <2>1, <2>2, <2>3, <2>4, <2>5, <2>6 DEF HearCommand
<1>5. Lost \/ (asked' = "sent" /\ HearCommand)
  BY DEF AskCommand, Write, Send
<1> QED BY <1>1, <1>2, <1>4, <1>5

(* The command that may write a page is sent with a page of the part.      *)
LEMMA SentTyped ==
  ASSUME Typed, AskCommand
  PROVE  TargetTypeOK'
<1>1. TargetTypeOK /\ UNCHANGED part BY CommandSent DEF Typed, Shaped
<1>2. ASSUME NEW op, NEW arg, Sent(op, arg), Obey(op, arg) PROVE TargetTypeOK'
  <2>1. op = "C" => arg \in Pages(part)
    BY <1>2, LetterValue DEF Sent, Sectorial, Plain4
  <2> QED BY <1>1, <1>2, <2>1, ObeyTyped
<1> QED BY <1>1, <1>2, CommandSent, LostTyped

(* A read of the program changes its own state and takes text off the line. *)
LEMMA HostTyped ==
  ASSUME Typed, UNCHANGED <<part, inv, history>>, TargetTypeOK',
         asked' \in {"no", "sent", "failed"}, out' \in {"none", "whole", "part", "garbage"},
         ret' \in Int, said' \in Messages, pc' \in Running \cup {"idle", "exit"}
  PROVE  Shaped'
  BY DEF Typed, Shaped, Messages, history, Pages

(* What is read of an answer has its type, and so has what is left of it.  *)
LEMMA ReadTyped ==
  ASSUME Typed, NEW g \in Replies
  PROVE  /\ g.code \in Int /\ g.rest \in Seq(Genuine)
         /\ \A s \in Remainders(g.rest) : s \in Seq(Genuine)
         /\ \A p \in PartIds(g) : p.id \in Int /\ p.rest \in Seq(Genuine)
<1>1. part \in Devices /\ rx \in Seq(Genuine) BY DEF Typed, Shaped, TargetTypeOK
<1>2. g.code \in -5 .. LargestRead /\ g.rest \in Seq(Genuine) BY <1>1, RepliesTyped
<1>3. \A c \in -5 .. LargestRead : c \in Int BY DEF LargestRead
<1> QED BY <1>1, <1>2, <1>3, RemaindersTyped, PartIdsTyped

(* isp_connect.                                                            *)
LEMMA TypedConnect ==
  ASSUME Typed, Connect
  PROVE  Typed'
<1>0. TargetTypeOK /\ rx \in Seq(Genuine) /\ ret \in Int /\ said \in Messages
      /\ out \in {"none", "whole", "part", "garbage"}
  BY DEF Typed, Shaped, TargetTypeOK, Messages
<1>1. CASE AskQuestion \/ AskSynchro \/ AskFreq \/ AskEchoOff
  <2>1. /\ pc \in Handshake /\ UNCHANGED <<part, pc, inv, told, out, history>>
        /\ asked' \in {"sent", "failed"}
        /\ Lost \/ HearQuestion \/ HearSynchronized \/ HearFrequency \/ HearEchoOff
    BY <1>1 DEF AskQuestion, AskSynchro, AskFreq, AskEchoOff, Write, Send, Handshake
  <2>2. TargetTypeOK' BY <1>0, <2>1, HandshakeTyped, LostTyped
  <2>3. Shaped' BY <1>0, <2>1, <2>2, HostTyped DEF told, Running
  <2>4. Course' BY <2>1 DEF Typed, Course, Handshake
  <2> QED BY <2>3, <2>4 DEF Typed
<1>2. CASE ReadSynchronized \/ ReadSynchroOk \/ ReadFreqOk \/ ReadEchoOff
  <2>1. /\ pc \in Handshake /\ asked' = "no" /\ UNCHANGED <<part, target, inv, out, history>>
        /\ \/ pc' \in {"synchro", "freq", "echo"} /\ UNCHANGED told
           \/ pc' = "exit" /\ ret' \in Int /\ said' \in {"error", "opened"}
    BY <1>2 DEF ReadSynchronized, ReadSynchroOk, ReadFreqOk, ReadEchoOff, Reading, Goto,
       Return, Step, Unread, Handshake
  <2>2. rx' \in Seq(Genuine)
    <3>1. <<>> \in Seq(Genuine) OBVIOUS
    <3>2. ASSUME NEW s \in Seq(Genuine), NEW r \in Remainders(s) PROVE r \in Seq(Genuine)
      BY <3>2, RemaindersTyped
    <3>3. rx # <<>> => Tail(rx) \in Seq(Genuine) BY <1>0
    <3>4. \A a \in Acknowledges : a.rest \in Seq(Genuine)
      <4>1. ASSUME NEW a \in Acknowledges PROVE a.rest \in Seq(Genuine)
        BY <1>0, AcknowledgesTyped
      <4> QED BY <4>1
    <3> QED
      BY <1>0, <1>2, <3>1, <3>2, <3>3, <3>4
      DEF ReadSynchronized, ReadSynchroOk, ReadFreqOk, ReadEchoOff, Unread, Greeted
  <2>3. TargetTypeOK' BY <1>0, <2>1, <2>2, SameTarget
  <2>4. Shaped' BY <1>0, <2>1, <2>3, HostTyped DEF told, Running, Handshake, Messages
  <2>5. Course' BY <2>1 DEF Typed, Course, Handshake
  <2> QED BY <2>4, <2>5 DEF Typed
<1> QED BY <1>1, <1>2 DEF Connect

(* What a read of an answer comes to, but for read-memory: a message, or   *)
(* the data of write-to-ram, and text that is left.                        *)
LEMMA AnswerRead ==
  ASSUME Typed, ReadCode \/ ReadPart \/ ReadUidVersion \/ ReadBlank \/ ReadCompare \/ ReadWriteRam
  PROVE  /\ pc = "command" /\ asked # "no" /\ asked' = "no"
         /\ UNCHANGED <<part, target, inv, out, history>> /\ rx' \in Seq(Genuine)
         /\ \/ pc' = "exit" /\ ret' \in Int /\ said' \in Messages
            \/ inv.cmd = "write" /\ pc' = "data" /\ UNCHANGED told
<1>0. inv.cmd \in isp_cmds_list
  <2>1. pc = "command"
    BY DEF ReadCode, ReadPart, ReadUidVersion, ReadBlank, ReadCompare, ReadWriteRam, Reading
  <2> QED BY <2>1, LineFields DEF Typed, Course
<1>1. CASE ReadCode
  <2>1. PICK g \in Replies :
          /\ Unread(g.rest)
          /\ IF g.code = 0 THEN Return(0, Done[inv.cmd])
             ELSE Return(IF inv.cmd = "go" /\ g.code < 0 THEN g.code + 1
                         ELSE IF inv.cmd \in {"unlock", "go"} THEN -1 ELSE g.code, "error")
    BY <1>1 DEF ReadCode
  <2>2. Done[inv.cmd] \in Messages BY <1>1 DEF ReadCode, Done, Messages
  <2>3. "error" \in Messages BY DEF Messages
  <2> QED BY <1>1, <2>1, <2>2, <2>3, ReadTyped DEF ReadCode, Reading, Unread, Return, Step
<1>2. CASE ReadPart
  <2>1. PICK g \in Replies : \E p \in PartIds(g) :
          Unread(p.rest) /\ Return(p.id, IF g.code = 0 /\ p.id >= 0 THEN "words" ELSE "error")
    BY <1>2 DEF ReadPart
  <2>2. {"words", "error"} \subseteq Messages BY DEF Messages
  <2> QED BY <1>2, <2>1, <2>2, ReadTyped DEF ReadPart, Reading, Unread, Return, Step
<1>3. ASSUME NEW g \in Replies, NEW silent \in {-2, -3}, NEW words \in Messages, MoreRead(g, silent, 0, words)
      PROVE  UNCHANGED <<part, target>> /\ rx' \in Seq(Genuine) /\ pc' = "exit" /\ ret' \in Int /\ said' \in Messages
  BY <1>3, ReadTyped DEF MoreRead, Unread, Return, Messages
<1>4. CASE ReadUidVersion
  <2>1. PICK g \in Replies :
          \/ g.code # 0 /\ Unread(g.rest) /\ Return(g.code, "error")
          \/ g.code = 0 /\ MoreRead(g, -2, 0, "words")
    BY <1>4 DEF ReadUidVersion
  <2>2. {"words", "error"} \subseteq Messages BY DEF Messages
  <2>3. MoreRead(g, -2, 0, "words") =>
          UNCHANGED <<part, target>> /\ rx' \in Seq(Genuine) /\ pc' = "exit" /\ ret' \in Int /\ said' \in Messages
    BY <1>3, <2>2
  <2> QED BY <1>4, <2>1, <2>2, <2>3, ReadTyped DEF ReadUidVersion, Reading, Unread, Return, Step
<1>5. CASE ReadBlank
  <2>1. PICK g \in Replies :
          \/ g.code < 0 /\ Unread(g.rest) /\ Return(g.code, "error")
          \/ g.code = CMD_SUCCESS /\ Unread(g.rest) /\ Return(0, "blank")
          \/ g.code = SECTOR_NOT_BLANK /\ MoreRead(g, -3, 0, "used")
          \/ Unread(g.rest) /\ Return(IF g.code = INVALID_SECTOR THEN -2 ELSE -1, "error")
          \/ Unread(g.rest) /\ Return(0, "nothing")
    BY <1>5 DEF ReadBlank
  <2>2. {"blank", "error", "used", "nothing"} \subseteq Messages BY DEF Messages
  <2>3. MoreRead(g, -3, 0, "used") =>
          UNCHANGED <<part, target>> /\ rx' \in Seq(Genuine) /\ pc' = "exit" /\ ret' \in Int /\ said' \in Messages
    BY <1>3, <2>2
  <2> QED BY <1>5, <2>1, <2>2, <2>3, ReadTyped DEF ReadBlank, Reading, Unread, Return, Step
<1>6. CASE ReadCompare
  <2>1. PICK g \in Replies :
          \/ Unread(g.rest) /\ Return(0, "equal")
          \/ MoreRead(g, -3, 0, "differ")
          \/ Unread(g.rest) /\ Return(-1, "error")
    BY <1>6 DEF ReadCompare
  <2>2. {"equal", "error", "differ"} \subseteq Messages BY DEF Messages
  <2>3. MoreRead(g, -3, 0, "differ") =>
          UNCHANGED <<part, target>> /\ rx' \in Seq(Genuine) /\ pc' = "exit" /\ ret' \in Int /\ said' \in Messages
    BY <1>3, <2>2
  <2> QED BY <1>6, <2>1, <2>2, <2>3, ReadTyped DEF ReadCompare, Reading, Unread, Return, Step
<1>7. CASE ReadWriteRam
  <2>1. PICK g \in Replies :
          /\ Unread(g.rest)
          /\ IF g.code # 0 THEN Return(-8, "error") ELSE Goto("data")
    BY <1>7 DEF ReadWriteRam
  <2>2. "error" \in Messages BY DEF Messages
  <2> QED BY <1>7, <2>1, <2>2, ReadTyped DEF ReadWriteRam, Reading, Unread, Return, Step, Goto
<1> QED BY <1>1, <1>2, <1>4, <1>5, <1>6, <1>7

(* One command of the boot loader.                                         *)
LEMMA TypedCommand ==
  ASSUME Typed, Command
  PROVE  Typed'
<1>0. TargetTypeOK /\ rx \in Seq(Genuine) /\ ret \in Int /\ said \in Messages
      /\ out \in {"none", "whole", "part", "garbage"} /\ asked \in {"no", "sent", "failed"}
  BY DEF Typed, Shaped, TargetTypeOK, Messages
<1>1. CASE CheckArguments
  <2>1. /\ UNCHANGED <<part, target, rx, asked, inv, out, history>>
        /\ pc = "check" /\ \/ pc' = "exit" /\ ret' = Complaint /\ said' = "error"
                           \/ pc' = "command" /\ UNCHANGED told
    BY <1>1 DEF CheckArguments, Return, Goto, Step
  <2>2. Complaint \in Int
    <3>1. inv.wrong \in Int BY LineFields
    <3> QED BY <3>1 DEF Complaint
  <2>3. TargetTypeOK' BY <1>0, <2>1, SameTarget
  <2>4. Shaped' BY <1>0, <2>1, <2>2, <2>3, HostTyped DEF told, Running, Messages
  <2>5. pc' = "command" /\ inv.cmd = "write" => ~NoData(inv.file)
    <3>1. pc' = "command" => Complaint = 0 BY <1>1 DEF CheckArguments, Return
    <3>2. inv.wrong # 0 => Complaint # 0 BY DEF Complaint
    <3>3. inv.wrong = 0 /\ inv.cmd = "write" /\ NoData(inv.file) => Complaint # 0
      BY DEF Complaint, Sectorial
    <3> QED BY <3>1, <3>2, <3>3
  <2>6. Course' BY <2>1, <2>5 DEF Typed, Course, Handshake
  <2> QED BY <2>4, <2>6 DEF Typed
<1>2. CASE AskCommand
  <2>1. /\ pc = "command" /\ asked = "no" /\ UNCHANGED <<part, pc, inv, told, out, history>>
        /\ asked' \in {"sent", "failed"} /\ TargetTypeOK'
    BY <1>2, CommandSent, SentTyped
  <2>2. Shaped' BY <1>0, <2>1, HostTyped DEF told, Running
  <2>3. Course' BY <2>1 DEF Typed, Course, Handshake
  <2> QED BY <2>2, <2>3 DEF Typed
<1>3. CASE ReadCode \/ ReadPart \/ ReadUidVersion \/ ReadBlank \/ ReadCompare \/ ReadWriteRam
  <2>1. /\ pc = "command" /\ asked # "no" /\ asked' = "no"
        /\ UNCHANGED <<part, target, inv, out, history>> /\ rx' \in Seq(Genuine)
        /\ \/ pc' = "exit" /\ ret' \in Int /\ said' \in Messages
           \/ inv.cmd = "write" /\ pc' = "data" /\ UNCHANGED told
    BY <1>3, AnswerRead
  <2>2. TargetTypeOK' BY <1>0, <2>1, SameTarget
  <2>3. Shaped' BY <1>0, <2>1, <2>2, HostTyped DEF told, Running
  <2>4. Course' BY <2>1 DEF Typed, Course, Handshake
  <2> QED BY <2>3, <2>4 DEF Typed
<1>4. CASE ReadOut
  <2>1. PICK g \in Replies :
          /\ \E s \in Remainders(g.rest) : rx' = s
          /\ pc' = "exit" /\ said' \in {"read", "short", "error"} /\ pending' \in {pending, "stray"}
          /\ out' \in {"none", "whole", "part", "garbage"}
          /\ ret' \in {PageSize(part), 0, 1, -6, -2, g.code, -1}
    <3>0. PICK g \in Replies : \E m \in Received(g.code) :
            /\ \E s \in Remainders(g.rest) : rx' = s
            /\ pending' \in LeftWaiting(g.code, inv.encode)
            /\ \/ out' = "none" /\ Return(-1, "error")
               \/ out' \in {"part", "garbage"} /\ Return(-2, "error")
               \/ m.len >= 0 /\ out' = m.data /\ Return(m.len, Reported[m.data])
      BY <1>4 DEF ReadOut
    <3>1. PICK m \in Received(g.code) :
            /\ \E s \in Remainders(g.rest) : rx' = s
            /\ pending' \in LeftWaiting(g.code, inv.encode)
            /\ \/ out' = "none" /\ Return(-1, "error")
               \/ out' \in {"part", "garbage"} /\ Return(-2, "error")
               \/ m.len >= 0 /\ out' = m.data /\ Return(m.len, Reported[m.data])
      BY <3>0
    <3>2. m.len \in {PageSize(part), 0, 1, -6, g.code} /\ m.data \in {"whole", "part", "garbage"}
      BY DEF Received
    <3>3. Reported[m.data] \in {"read", "short", "error"} BY <3>2 DEF Reported
    <3>4. pending' \in {pending, "stray"} BY <3>1 DEF LeftWaiting
    <3> QED BY <3>1, <3>2, <3>3, <3>4 DEF Return
  <2>2. PageSize(part) \in Int
    <3>1. part \in Devices BY <1>0 DEF TargetTypeOK
    <3> QED BY <3>1, WriteSizeValue, PartFields DEF PageSize, BlockSizes
  <2>3. rx' \in Seq(Genuine) /\ ret' \in Int BY <2>1, <2>2, ReadTyped
  <2>4. asked' = "no" /\ UNCHANGED <<part, mode, echo, unlocked, prepared, ram, flash, inv, history>>
    BY <1>4 DEF ReadOut, Reading
  <2>5. TargetTypeOK'
    BY <1>0, <2>1, <2>3, <2>4 DEF TargetTypeOK, Pages, Sectors, Genuine
  <2>6. Shaped' BY <1>0, <2>1, <2>3, <2>4, <2>5, HostTyped DEF Messages
  <2>7. Course' BY <2>1, <2>4 DEF Typed, Course, Handshake
  <2> QED BY <2>6, <2>7 DEF Typed
<1>5. CASE SendData \/ SendFailed
  <2>1. /\ pc = "data" /\ pc' = "exit" /\ UNCHANGED <<part, asked, inv, out, history>>
        /\ ret' \in Int /\ said' \in {"sent", "error"}
        /\ InRam(Staged) \/ InRam(Garbage) \/ Spilled(Staged)
        /\ UNCHANGED rx \/ \E s \in Remainders(rx \o <<RESEND>>) : rx' = s
    BY <1>5 DEF SendData, SendFailed, Return, Step
  <2>2. rx' \in Seq(Genuine)
    <3>1. part \in Devices BY <1>0 DEF TargetTypeOK
    <3>2. rx \o <<RESEND>> \in Seq(Genuine) BY <1>0, <3>1, TextsTyped
    <3> QED BY <1>0, <2>1, <3>2, RemaindersTyped
  <2>3. Garbage \in Contents /\ Staged \in Contents
    BY LineFields DEF Garbage, Plain, Contents, Kinds
  <2>4. TargetTypeOK'
    BY <1>0, <2>1, <2>2, <2>3 DEF TargetTypeOK, InRam, Spilled, target, Pages, Sectors, Genuine, Modes
  <2>5. Shaped' BY <1>0, <2>1, <2>4, HostTyped DEF Messages
  <2>6. Course' BY <2>1 DEF Typed, Course, Handshake
  <2> QED BY <2>5, <2>6 DEF Typed
<1> QED BY <1>1, <1>2, <1>3, <1>4, <1>5 DEF Command

(* The user and the reset button.                                          *)
LEMMA TypedUser ==
  ASSUME Typed, Start \/ Kill \/ PressReset \/ PressResetErasing \/ PressResetCopying
  PROVE  Typed'
<1>0. TargetTypeOK /\ rx \in Seq(Genuine) /\ ret \in Int /\ said \in Messages
      /\ out \in {"none", "whole", "part", "garbage"} /\ inv \in Invocations /\ part \in Devices
      /\ DOMAIN flash = Pages(part) /\ DOMAIN before = Pages(part) /\ calm \in BOOLEAN
      /\ pc \in Running \cup {"idle", "exit"} /\ asked \in {"no", "sent", "failed"}
  BY DEF Typed, Shaped, TargetTypeOK, Messages
<1>1. CASE Start
  <2>1. rx' \in Seq(Genuine) BY <1>0, <1>1, RemaindersTyped DEF Start
  <2>2. TargetTypeOK' BY <1>0, <1>1, <2>1, SameTarget DEF Start
  <2>3. Shaped' BY <1>0, <1>1, <2>2 DEF Start, Shaped, Messages, Running, Handshake, Pages
  <2>4. Course' BY <1>1 DEF Start, Course, Handshake
  <2> QED BY <2>3, <2>4 DEF Typed
<1>2. CASE Kill
  <2>1. TargetTypeOK' BY <1>0, <1>2, LostTyped DEF Kill
  <2>2. Shaped' BY <1>0, <1>2, <2>1, HostTyped DEF Kill, told
  <2>3. Course' BY <1>2 DEF Kill, Course, Handshake
  <2> QED BY <2>2, <2>3 DEF Typed
<1>3. ASSUME Restarted, flash' \in [Pages(part) -> Contents], UNCHANGED <<part, rx>>
      PROVE  TargetTypeOK'
  BY <1>0, <1>3 DEF Restarted, TargetTypeOK, Modes, Contents, Garbage, Plain, Kinds, Pages, Sectors, Genuine
<1>4. CASE PressReset
  <2>1. TargetTypeOK' BY <1>0, <1>3, <1>4 DEF PressReset, TargetTypeOK
  <2>2. Shaped' BY <1>0, <1>4, <2>1 DEF PressReset, host, told, Shaped, Messages, Pages
  <2>3. Course' BY <1>4 DEF Typed, PressReset, host, Course, Handshake
  <2> QED BY <2>2, <2>3 DEF Typed
<1>5. CASE PressResetErasing \/ PressResetCopying
  <2>1. PICK op, arg : CutShort(op, arg)
    BY <1>5 DEF PressResetErasing, PressResetCopying, PressResetDuring
  <2>2. /\ pc = "command" /\ asked' = "sent" /\ calm' = FALSE
        /\ UNCHANGED <<part, pc, inv, told, out, before>>
    BY <1>5 DEF PressResetErasing, PressResetCopying, PressResetDuring
  <2>3. Garbage \in Contents BY DEF Garbage, Plain, Contents, Kinds
  <2>4. Restarted /\ UNCHANGED <<part, rx>> /\ flash' \in [Pages(part) -> Contents]
    BY <1>0, <2>1, <2>2, <2>3 DEF CutShort, TargetTypeOK
  <2>5. TargetTypeOK' BY <1>3, <2>4
  <2>6. Shaped' BY <1>0, <2>2, <2>5 DEF told, Shaped, Messages, Pages, Running
  <2>7. Course' BY <2>2 DEF Typed, Course, Handshake
  <2> QED BY <2>6, <2>7 DEF Typed
<1> QED BY <1>1, <1>2, <1>4, <1>5

(* The invariant is kept by every step, and holds at first.                *)
LEMMA TypedStep ==
  ASSUME Typed, [Next]_vars
  PROVE  Typed'
<1>1. CASE Program BY <1>1, TypedConnect, TypedCommand DEF Program
<1>2. CASE Start \/ Kill \/ PressReset \/ PressResetErasing \/ PressResetCopying BY <1>2, TypedUser
<1>3. CASE UNCHANGED vars
  BY <1>3 DEF vars, host, told, history, target, Typed, Shaped, Course, TargetTypeOK, Pages, Sectors, Genuine
<1> QED BY <1>1, <1>2, <1>3 DEF Next

(* Init establishes the invariant.                                         *)
LEMMA TypedInit ==
  ASSUME Init
  PROVE  Typed
<1>1. TargetTypeOK
  <2>1. Blank \in Contents /\ Old \in Contents /\ Garbage \in Contents
    BY DEF Blank, Old, Garbage, Plain, Contents, Kinds
  <2>2. flash \in [Pages(part) -> Contents] BY <2>1 DEF Init, TargetInit
  <2>3. <<>> \in Seq(Genuine) OBVIOUS
  <2> QED BY <2>1, <2>2, <2>3 DEF Init, TargetInit, TargetTypeOK, Modes
<1>2. Shaped BY <1>1 DEF Init, TargetInit, Shaped, Messages, TargetTypeOK
<1>3. Course BY DEF Init, Course, Handshake
<1> QED BY <1>2, <1>3 DEF Typed

(* The invariant holds always.                                             *)
LEMMA TypedAlways == Spec => []Typed
<1>1. Init => Typed BY TypedInit
<1>2. Typed /\ [Next]_vars => Typed' BY TypedStep
<1> QED BY <1>1, <1>2, PTL DEF Spec

(* What the RAM buffer and the flash hold after a step was there before,   *)
(* is nothing of a file, or is the page write-to-ram stages.               *)
LEMMA CellsMoved ==
  ASSUME Typed, [Next]_vars
  PROVE  /\ UNCHANGED part
         /\ ram' \in {ram, Garbage} \/ (pc = "data" /\ ram' = Staged)
         /\ \A b \in Pages(part) : flash'[b] \in {flash[b], Blank, Garbage, ram}
<1> DEFINE
      fading == ram' \in {ram, Garbage}
      moved == \A b \in Pages(part) : flash'[b] \in {flash[b], Blank, Garbage, ram}
      kept == UNCHANGED <<part, ram, flash>>
<1>0. flash \in [Pages(part) -> Contents] BY DEF Typed, Shaped, TargetTypeOK
<1>1. ASSUME NEW op, NEW arg, Obey(op, arg) PROVE fading /\ moved
  <2>1. Execute(op, arg) => fading /\ moved
    <3>1. \A s : Erase(s) => fading /\ moved BY DEF Erase
    <3>2. ASSUME NEW b, Copy(b) PROVE fading /\ moved BY <1>0, <3>2 DEF Copy
    <3> QED
      BY <3>1, <3>2 DEF Execute, KnownSectors, Refused, Unknown, ReadPartId, ReadUidOrVersion, Unlock,
         BlankCheck, Prepare, NotReady, WrongSectors, NotMapped, Compare, WriteRam, ReadMemory, Go, target
  <2> QED BY <1>1, <2>1 DEF Obey, target
<1>2. Lost => fading /\ moved BY DEF Lost, target
<1>3. CASE Connect
  <2>1. HearQuestion => fading /\ moved BY DEF HearQuestion, target
  <2>2. HearSynchronized => fading /\ moved BY <1>1 DEF HearSynchronized
  <2>3. HearFrequency => fading /\ moved BY <1>1 DEF HearFrequency
  <2>4. HearEchoOff => fading /\ moved BY <1>1 DEF HearEchoOff, Refused, target
  <2>5. CASE AskQuestion \/ AskSynchro \/ AskFreq \/ AskEchoOff
    <3>1. UNCHANGED part /\ (HearQuestion \/ HearSynchronized \/ HearFrequency \/ HearEchoOff \/ Lost)
      BY <2>5 DEF AskQuestion, AskSynchro, AskFreq, AskEchoOff, Write, Send
    <3> QED BY <1>2, <2>1, <2>2, <2>3, <2>4, <3>1
  <2>6. CASE ReadSynchronized \/ ReadSynchroOk \/ ReadFreqOk \/ ReadEchoOff
    <3>1. kept
      BY <2>6 DEF ReadSynchronized, ReadSynchroOk, ReadFreqOk, ReadEchoOff, Unread, target
    <3> QED BY <3>1
  <2> QED BY <1>3, <2>5, <2>6 DEF Connect
<1>4. CASE Command
  <2>1. CASE CheckArguments
    <3>1. kept BY <2>1 DEF CheckArguments, target
    <3> QED BY <3>1
  <2>2. CASE AskCommand
    <3>1. UNCHANGED part /\ (Lost \/ \E op, arg : Obey(op, arg)) BY <2>2, CommandSent
    <3> QED BY <1>1, <1>2, <3>1
  <2>3. CASE ReadCode \/ ReadPart \/ ReadUidVersion \/ ReadBlank \/ ReadCompare \/ ReadWriteRam
    <3>1. kept BY <2>3, AnswerRead DEF target
    <3> QED BY <3>1
  <2>4. CASE ReadOut
    <3>1. kept BY <2>4 DEF ReadOut
    <3> QED BY <3>1
  <2>5. CASE SendData \/ SendFailed
    <3>1. /\ pc = "data" /\ UNCHANGED part
          /\ InRam(Staged) \/ InRam(Garbage) \/ Spilled(Staged)
      BY <2>5 DEF SendData, SendFailed
    <3>2. UNCHANGED flash /\ ram' \in {ram, Garbage, Staged} BY <3>1 DEF InRam, Spilled, target
    <3> QED BY <3>1, <3>2
  <2> QED BY <1>4, <2>1, <2>2, <2>3, <2>4, <2>5 DEF Command
<1>5. CASE Start
  <2>1. kept BY <1>5 DEF Start, target
  <2> QED BY <2>1
<1>6. CASE Kill BY <1>2, <1>6 DEF Kill
<1>7. CASE PressReset BY <1>7 DEF PressReset, Restarted
<1>8. CASE PressResetErasing \/ PressResetCopying
  <2>1. PICK op, arg : UNCHANGED part /\ CutShort(op, arg)
    BY <1>8 DEF PressResetErasing, PressResetCopying, PressResetDuring
  <2> QED BY <1>0, <2>1 DEF CutShort, Restarted
<1>9. CASE UNCHANGED vars
  <2>1. kept BY <1>9 DEF vars, target
  <2> QED BY <2>1
<1> QED BY <1>3, <1>4, <1>5, <1>6, <1>7, <1>8, <1>9 DEF Next, Program

(* No page of a file with nothing in it gets anywhere on the board: such a *)
(* file is refused before its page is staged.                              *)
LEMMA FilledStep ==
  ASSUME Typed, Filled, [Next]_vars
  PROVE  Filled'
<1>1. Blank.kind # "image" /\ Garbage.kind # "image" BY DEF Blank, Garbage, Plain
<1>2. pc = "data" => Staged.file = inv.file /\ ~NoData(inv.file)
  BY DEF Staged, ImagePage, Typed, Course
<1>3. ram'.kind = "image" => ~NoData(ram'.file) BY <1>1, <1>2, CellsMoved DEF Filled
<1>4. ASSUME NEW b \in Pages(part), flash'[b].kind = "image" PROVE ~NoData(flash'[b].file)
  BY <1>1, <1>4, CellsMoved DEF Filled
<1>5. Pages(part)' = Pages(part) BY CellsMoved DEF Pages
<1>6. ASSUME NEW c \in {ram'} \cup {flash'[b] : b \in Pages(part)}, c.kind = "image"
      PROVE  ~NoData(c.file)
  BY <1>3, <1>4, <1>6
<1> QED BY <1>5, <1>6 DEF Filled

(* Every variable of lpcisp and of its target keeps its type, through any  *)
(* number of runs of the program, on any line, and no page of an empty     *)
(* file is ever staged.                                                    *)
THEOREM TypeCorrect == Spec => []TypeOK
<1>1. Init => Filled
  <2>1. Blank.kind # "image" /\ Garbage.kind # "image" /\ Old.kind # "image"
    BY DEF Blank, Garbage, Old, Plain
  <2>2. ASSUME Init, NEW b \in Pages(part) PROVE flash[b] \in {Old, Blank}
    BY <2>2 DEF Init, TargetInit
  <2>3. Init => ram = Garbage BY DEF Init, TargetInit
  <2> QED BY <2>1, <2>2, <2>3 DEF Filled
<1>2. Typed /\ Filled /\ [Next]_vars => Filled' BY FilledStep
<1>3. Typed /\ Filled => TypeOK BY DEF Typed, Shaped, TypeOK, Messages
<1> QED BY <1>1, <1>2, <1>3, TypedAlways, PTL DEF Spec

(***************************************************************************)
(* On a line whose answers are not late: what a run tells its user is so.  *)
(*                                                                         *)
(* The invariant follows the one answer that may be under way: nothing is  *)
(* on the line when a question is put (Drained), the echo is on before a   *)
(* session is open (EchoLast), the flash is the one the run found until    *)
(* the target answers that it did what was asked (Untouched), and the      *)
(* answer, once there, is a code and says what is so (Answered).           *)
(***************************************************************************)

(* Nothing is left of an earlier answer when a line is written.            *)
Drained == pc \in Running \ {"data"} /\ asked # "sent" => rx = <<>>

(* The echo goes on with every reset, and is turned off in a session only. *)
EchoLast == mode \in {"reset", "half", "ask"} => echo

(* The flash is the one the run found, unless the target has erased or     *)
(* copied as it was asked, and then its answer is 0.                       *)
Untouched ==
  /\ pc \in {"check", "data"} => flash = before
  /\ pc = "command" /\ asked # "sent" => flash = before
  /\ pc = "command" /\ asked = "sent" /\ flash # before =>
       /\ inv.cmd \in {"erase", "copy"}
       /\ rx # <<>> => CodeOf(Head(rx)) = 0

(* What the answer on the line says is so: with code 0, and with one that  *)
(* more text follows.                                                      *)
Granted ==
  CodeOf(Head(rx)) = 0 =>
    /\ inv.cmd = "unlock" => unlocked
    /\ inv.cmd = "prepare" => Named \subseteq prepared
    /\ inv.cmd \in {"erase", "blank"} => BlankSectors(Named)
    /\ inv.cmd = "copy" /\ before[inv.page] = Blank => flash[inv.page] = ram
    /\ inv.cmd = "compare" => flash[inv.page] = ram

Explained ==
  Len(rx) >= 2 =>
    /\ CodeOf(Head(rx)) = SECTOR_NOT_BLANK /\ inv.cmd = "blank" => ~BlankSectors(Named)
    /\ CodeOf(Head(rx)) = COMPARE_ERROR /\ inv.cmd = "compare" =>
         flash[inv.page] # ram \/ ram = Garbage

Answered ==
  pc = "command" /\ asked = "sent" /\ rx # <<>> =>
    /\ Head(rx) <= LargestRead
    /\ inv.cmd # "write" => pending = "line"
    /\ calm /\ ~echo => Granted /\ Explained

(* An acknowledged "Synchronized" was heard: the target asks for the       *)
(* frequency, or has it.                                                   *)
Opened ==
  calm =>
    /\ pc = "synchro" /\ asked = "sent" /\ rx # <<>> => mode \in {"ask", "synced"}
    /\ pc \in {"freq", "echo"} => mode \in {"ask", "synced"}

(* The inductive invariant.                                                *)
Quiet ==
  /\ Drained /\ EchoLast /\ Untouched /\ Answered /\ Opened
  /\ ReportIsTrue /\ RefusalIsTrue /\ AnsweredMeansReady

(* Of an answer on a line with nothing on its way the first text is the    *)
(* echo or the code, and without the echo it is the answer that comes.     *)
LEMMA CodeFirst ==
  ASSUME rx = <<>>, NEW text \in Seq(Tokens), text # <<>>, text[1] <= LargestRead, Answer(text)
  PROVE  /\ rx' # <<>> /\ Head(rx') <= LargestRead
         /\ echo => Head(rx') = 0
         /\ ~echo => rx' = text
<1>1. 0 <= LargestRead BY DEF LargestRead
<1>2. CASE ~echo
  <2>1. rx' = text BY <1>2, AnswerAlone
  <2> QED BY <1>2, <2>1
<1>3. CASE echo
  <2>1. <<>> \o <<0>> = <<0>> /\ <<0>> \in Seq(Tokens)
    <3>1. <<0>> \in Seq(Tokens) BY DEF Tokens
    <3> QED BY <3>1, ConcatEmptySeq
  <2>2. rx' = <<0>> \o text BY <1>3, <2>1 DEF Answer
  <2>3. rx' # <<>> /\ Head(rx') = 0 BY <2>1, <2>2
  <2> QED BY <1>1, <1>3, <2>3
<1> QED BY <1>2, <1>3

(* What is so when the target has answered a line.                         *)
Meant(op, arg) ==
  /\ CodeOf(Head(rx')) = 0 =>
       /\ op # "X"
       /\ op = "U" => unlocked'
       /\ op = "P" => prepared' = arg
       /\ op \in {"E", "I"} => \A b \in Pages(part) : SectorOf(part, b) \in arg => flash'[b] = Blank
       /\ op = "C" /\ flash[arg] = Blank => flash'[arg] = ram'
       /\ op = "M" => flash'[arg] = ram'
  /\ Len(rx') >= 2 =>
       /\ op # "X"
       /\ CodeOf(Head(rx')) = SECTOR_NOT_BLANK /\ op = "I" =>
            ~ \A b \in Pages(part) : SectorOf(part, b) \in arg => flash'[b] = Blank
       /\ CodeOf(Head(rx')) = COMPARE_ERROR /\ op = "M" => flash'[arg] # ram' \/ ram' = Garbage

(* How a target that nothing has been sent yet takes a command line.       *)
Taken(op, arg) ==
  /\ UNCHANGED echo
  /\ mode' \in {"reset", "half", "ask"} => echo'
  /\ rx' # <<>> => Head(rx') <= LargestRead /\ (op # "W" => pending' = "line")
  /\ flash' # flash => op \in {"E", "C"} /\ rx' # <<>> /\ CodeOf(Head(rx')) = 0
  /\ op # "G" => (rx' # <<>> \/ mode \in {"ask", "synced"} => mode' = "synced")
  /\ ~echo /\ rx' # <<>> => Meant(op, arg)

(* It says of every line what Taken lists.                                 *)
LEMMA LineTaken ==
  ASSUME part \in Devices, flash \in [Pages(part) -> Contents], rx = <<>>, EchoLast,
         UNCHANGED part, NEW op, NEW arg, op = "C" => arg \in Pages(part), Obey(op, arg)
  PROVE  Taken(op, arg)
<1>0. CodeOf(0) = 0 /\ CodeOf(SECTOR_NOT_BLANK) = 8 /\ CodeOf(COMPARE_ERROR) = 10
      /\ 0 \in Tokens /\ 0 <= LargestRead
  BY DEF CodeOf, NumberOf, MinOf, LargestRead, SECTOR_NOT_BLANK, COMPARE_ERROR, Tokens
<1>1. ASSUME NEW c \in Refusals \cup {INVALID_COMMAND, INVALID_SECTOR, ADDR_ERROR, ADDR_NOT_MAPPED, CMD_LOCKED,
                                      SECTOR_NOT_PREPARED_FOR_WRITE_OPERATION},
             Answer(<<c>>), UNCHANGED <<mode, echo, flash>>, mode = "synced", pending' = "line"
      PROVE  Taken(op, arg)
  <2>1. c \in Nat /\ c # 0 /\ c <= LargestRead
    BY <1>1, RepliesAssumption DEF LastCode, LargestRead, INVALID_COMMAND, INVALID_SECTOR, ADDR_ERROR,
       ADDR_NOT_MAPPED, CMD_LOCKED, SECTOR_NOT_PREPARED_FOR_WRITE_OPERATION
  <2>2. CodeOf(c) # 0 /\ <<c>> \in Seq(Tokens) BY <2>1 DEF CodeOf, NumberOf, MinOf, LargestRead, Tokens
  <2>3. rx' # <<>> /\ Head(rx') <= LargestRead /\ (~echo => rx' = <<c>>)
    BY <1>1, <2>1, <2>2, CodeFirst
  <2>4. ~echo => ~(Len(rx') >= 2) /\ CodeOf(Head(rx')) # 0
    <3>1. ~(Len(<<c>>) >= 2) /\ Head(<<c>>) = c OBVIOUS
    <3> QED BY <2>2, <2>3, <3>1
  <2>5. ~echo => Meant(op, arg) BY <2>4 DEF Meant
  <2> QED BY <1>1, <2>3, <2>5 DEF Taken
<1>2. ASSUME UNCHANGED rx, UNCHANGED <<echo, flash>>,
             mode # "ask", mode' = mode \/ (mode = "half" /\ mode' = "reset")
      PROVE  Taken(op, arg)
  BY <1>2 DEF Taken, EchoLast
<1>3. ASSUME mode = "ask", Answer(<<SYNCHRO_OK>>), mode' = "synced", pending' = "line",
             UNCHANGED <<echo, flash>>
      PROVE  Taken(op, arg)
  <2>1. echo BY <1>3 DEF EchoLast
  <2>2. <<SYNCHRO_OK>> \in Seq(Tokens) /\ SYNCHRO_OK <= LargestRead
    BY DEF Tokens, SYNCHRO_OK, LargestRead
  <2>3. rx' # <<>> /\ Head(rx') <= LargestRead BY <1>3, <2>2, CodeFirst
  <2> QED BY <1>3, <2>1, <2>3 DEF Taken
<1>4. ASSUME mode = "synced", pending = "line", Execute(op, arg)
      PROVE  Taken(op, arg)
  <2>1. ASSUME NEW text \in Seq(Tokens), text # <<>>, text[1] = 0, Answer(text)
        PROVE  /\ rx' # <<>> /\ Head(rx') <= LargestRead /\ CodeOf(Head(rx')) = 0
               /\ ~echo => rx' = text
    <3>1. text[1] <= LargestRead BY <1>0, <2>1
    <3>2. rx' # <<>> /\ Head(rx') <= LargestRead /\ (echo => Head(rx') = 0) /\ (~echo => rx' = text)
      BY <2>1, <3>1, CodeFirst
    <3>3. Head(text) = 0 BY <2>1
    <3>4. Head(rx') = 0 BY <3>2, <3>3
    <3> QED BY <1>0, <3>2, <3>4
  <2>2. <<0>> \in Seq(Tokens) /\ <<0>> # <<>> /\ <<0>>[1] = 0 BY <1>0
  <2>3. ASSUME NEW w \in Nat
        PROVE  <<0, w>> \in Seq(Tokens) /\ <<0, w>> # <<>> /\ <<0, w>>[1] = 0
    <3>1. w \in Tokens BY DEF Tokens
    <3> QED BY <1>0, <3>1
  <2>4. ASSUME NEW code \in {SECTOR_NOT_BLANK, COMPARE_ERROR}, NEW text \in Seq(Tokens), text # <<>>,
               text[1] = code, Answer(text)
        PROVE  /\ rx' # <<>> /\ Head(rx') <= LargestRead
               /\ ~echo => rx' = text /\ Head(rx') = code
    <3>1. text[1] <= LargestRead BY <2>4 DEF SECTOR_NOT_BLANK, COMPARE_ERROR, LargestRead
    <3>2. Head(text) = code BY <2>4
    <3> QED BY <2>4, <3>1, <3>2, CodeFirst
  <2>5. ASSUME NEW w \in Words
        PROVE  /\ <<SECTOR_NOT_BLANK, 0, w>> \in Seq(Tokens) /\ <<SECTOR_NOT_BLANK, 0, w>> # <<>>
               /\ <<SECTOR_NOT_BLANK, 0, w>>[1] = SECTOR_NOT_BLANK
               /\ <<COMPARE_ERROR, w>> \in Seq(Tokens) /\ <<COMPARE_ERROR, w>> # <<>>
               /\ <<COMPARE_ERROR, w>>[1] = COMPARE_ERROR
    <3>1. w \in Tokens /\ SECTOR_NOT_BLANK \in Tokens /\ COMPARE_ERROR \in Tokens
      BY RepliesAssumption DEF Tokens, SECTOR_NOT_BLANK, COMPARE_ERROR
    <3> QED BY <1>0, <3>1
  <2>6. ASSUME NEW text \in Seq(Tokens), text # <<>>, text[1] = 0, Answer(text), UNCHANGED target,
               op \in {"J", "N", "K", "R"}
        PROVE  Taken(op, arg)
    <3>1. rx' # <<>> /\ Head(rx') <= LargestRead /\ CodeOf(Head(rx')) = 0 BY <2>6, <2>1
    <3>2. Meant(op, arg) BY <2>6, <3>1, <1>0 DEF Meant, SECTOR_NOT_BLANK, COMPARE_ERROR
    <3> QED BY <1>4, <2>6, <3>1, <3>2 DEF Taken, target
  <2> DEFINE erased == \A b \in Pages(part) : SectorOf(part, b) \in arg => flash'[b] = Blank
  <2>7. CASE Refused BY <1>1, <1>4, <2>7 DEF Refused, target
  <2>8. CASE op = "J" /\ ReadPartId
    <3>1. part.part_id \in Nat BY PartFields
    <3> QED BY <2>3, <2>6, <2>8, <3>1 DEF ReadPartId, CMD_SUCCESS
  <2>9. CASE op \in {"N", "K"} /\ ReadUidOrVersion
    BY <2>3, <2>6, <2>9, RepliesAssumption DEF ReadUidOrVersion, CMD_SUCCESS
  <2>10. CASE op = "R" /\ ReadMemory BY <2>2, <2>6, <2>10 DEF ReadMemory, CMD_SUCCESS
  <2>11. CASE op = "U" /\ Unlock
    <3>1. rx' # <<>> /\ Head(rx') <= LargestRead /\ CodeOf(Head(rx')) = 0 /\ unlocked'
      BY <2>1, <2>2, <2>11 DEF Unlock, CMD_SUCCESS
    <3>2. Meant(op, arg) BY <2>11, <3>1 DEF Meant
    <3> QED BY <1>4, <2>11, <3>1, <3>2 DEF Taken, Unlock
  <2>12. CASE op \in {"I", "P", "E"} /\ WrongSectors
    BY <1>1, <1>4, <2>12 DEF WrongSectors, target
  <2>13. CASE op = "P" /\ Prepare(arg)
    <3>1. rx' # <<>> /\ Head(rx') <= LargestRead /\ CodeOf(Head(rx')) = 0 /\ prepared' = arg
      BY <2>1, <2>2, <2>13 DEF Prepare, CMD_SUCCESS
    <3>2. Meant(op, arg) BY <2>13, <3>1 DEF Meant
    <3> QED BY <1>4, <2>13, <3>1, <3>2 DEF Taken, Prepare
  <2>14. CASE op = "E" /\ Erase(arg)
    <3>1. rx' # <<>> /\ Head(rx') <= LargestRead /\ CodeOf(Head(rx')) = 0
      BY <2>1, <2>2, <2>14 DEF Erase, CMD_SUCCESS
    <3>2. erased BY <2>14 DEF Erase
    <3>3. Meant(op, arg) BY <2>14, <3>1, <3>2 DEF Meant
    <3> QED BY <1>4, <2>14, <3>1, <3>3 DEF Taken, Erase
  <2>15. CASE op = "I" /\ BlankCheck(arg)
    <3>0. UNCHANGED target BY <2>15 DEF BlankCheck
    <3>1. CASE BlankSectors(arg)
      <4>1. rx' # <<>> /\ Head(rx') <= LargestRead /\ CodeOf(Head(rx')) = 0 /\ (~echo => rx' = <<0>>)
        BY <2>1, <2>2, <2>15, <3>1 DEF BlankCheck, CMD_SUCCESS
      <4>2. erased BY <3>0, <3>1 DEF BlankSectors, target
      <4>3. ~echo => Meant(op, arg)
        <5>1. ~(Len(<<0>>) >= 2) OBVIOUS
        <5> QED BY <2>15, <4>1, <4>2, <5>1 DEF Meant
      <4> QED BY <1>4, <2>15, <3>0, <4>1, <4>3 DEF Taken, target
    <3>2. CASE ~BlankSectors(arg)
      <4>1. PICK w \in Words : Answer(<<SECTOR_NOT_BLANK, 0, w>>) BY <2>15, <3>2 DEF BlankCheck
      <4>2. rx' # <<>> /\ Head(rx') <= LargestRead /\ (~echo => Head(rx') = SECTOR_NOT_BLANK)
        BY <2>4, <2>5, <4>1
      <4>3. ~erased BY <3>0, <3>2 DEF BlankSectors, target
      <4>4. ~echo => Meant(op, arg) BY <1>0, <2>15, <4>2, <4>3 DEF Meant
      <4> QED BY <1>4, <2>15, <3>0, <4>2, <4>4 DEF Taken, target
    <3> QED BY <3>1, <3>2
  <2>16. CASE op = "C" /\ Copy(arg)
    <3>1. rx' # <<>> /\ Head(rx') <= LargestRead /\ CodeOf(Head(rx')) = 0
      BY <2>1, <2>2, <2>16 DEF Copy, CMD_SUCCESS
    <3>2. flash[arg] = Blank => flash'[arg] = ram' BY <2>16 DEF Copy
    <3>3. Meant(op, arg) BY <2>16, <3>1, <3>2 DEF Meant
    <3> QED BY <1>4, <2>16, <3>1, <3>3 DEF Taken, Copy
  <2>17. ASSUME NEW S, NotReady(S), op \in {"E", "C"} PROVE Taken(op, arg)
    BY <1>1, <1>4, <2>17 DEF NotReady, target
  <2>18. CASE op = "M" /\ Compare(arg)
    <3>0. UNCHANGED target BY <2>18 DEF Compare
    <3>1. CASE ram = flash[arg] /\ Answer(<<CMD_SUCCESS>>)
      <4>1. rx' # <<>> /\ Head(rx') <= LargestRead /\ CodeOf(Head(rx')) = 0 /\ (~echo => rx' = <<0>>)
        BY <2>1, <2>2, <3>1 DEF CMD_SUCCESS
      <4>2. ~echo => Meant(op, arg)
        <5>1. ~(Len(<<0>>) >= 2) OBVIOUS
        <5>2. flash'[arg] = ram' BY <3>0, <3>1 DEF target
        <5> QED BY <2>18, <4>1, <5>1, <5>2 DEF Meant
      <4> QED BY <1>4, <2>18, <3>0, <4>1, <4>2 DEF Taken, target
    <3>2. CASE (ram # flash[arg] \/ ram = Garbage) /\ \E w \in Words : Answer(<<COMPARE_ERROR, w>>)
      <4>1. PICK w \in Words : Answer(<<COMPARE_ERROR, w>>) BY <2>18, <3>2 DEF Compare
      <4>2. rx' # <<>> /\ Head(rx') <= LargestRead /\ (~echo => Head(rx') = COMPARE_ERROR)
        BY <2>4, <2>5, <4>1
      <4>3. ~echo => Meant(op, arg) BY <1>0, <2>18, <3>0, <3>2, <4>2 DEF Meant, target
      <4> QED BY <1>4, <2>18, <3>0, <4>2, <4>3 DEF Taken, target
    <3> QED BY <2>18, <3>1, <3>2 DEF Compare
  <2>19. CASE op = "X" /\ NotMapped BY <1>1, <1>4, <2>19 DEF NotMapped, target
  <2>20. CASE op = "W" /\ WriteRam
    <3>1. CASE Answer(<<CMD_SUCCESS>>) /\ UNCHANGED <<mode, echo, flash>>
      <4>1. rx' # <<>> /\ Head(rx') <= LargestRead /\ CodeOf(Head(rx')) = 0
        BY <2>1, <2>2, <3>1 DEF CMD_SUCCESS
      <4>2. Meant(op, arg) BY <2>20, <4>1 DEF Meant
      <4> QED BY <1>4, <2>20, <3>1, <4>1, <4>2 DEF Taken
    <3>2. CASE Answer(<<ADDR_NOT_MAPPED>>) /\ UNCHANGED target BY <1>1, <1>4, <3>2 DEF target
    <3> QED BY <2>20, <3>1, <3>2 DEF WriteRam
  <2>21. CASE op = "G" /\ Go(arg = 1)
    <3>1. CASE Answer(<<CMD_SUCCESS>>) /\ mode' = "running" /\ UNCHANGED <<echo, pending, flash>>
      <4>1. rx' # <<>> /\ Head(rx') <= LargestRead /\ CodeOf(Head(rx')) = 0
        BY <2>1, <2>2, <3>1 DEF CMD_SUCCESS
      <4>2. Meant(op, arg) BY <2>21, <4>1 DEF Meant
      <4> QED BY <1>4, <2>21, <3>1, <4>1, <4>2 DEF Taken
    <3>2. CASE Answer(<<IF unlocked THEN ADDR_ERROR ELSE CMD_LOCKED>>) /\ UNCHANGED target
      BY <1>1, <1>4, <3>2 DEF target
    <3> QED BY <2>21, <3>1, <3>2 DEF Go
  <2>22. CASE op = "?" /\ Unknown BY <1>1, <1>4, <2>22 DEF Unknown, target
  <2> QED
    BY <1>4, <2>7, <2>8, <2>9, <2>10, <2>11, <2>12, <2>13, <2>14, <2>15, <2>16, <2>17, <2>18, <2>19,
       <2>20, <2>21, <2>22 DEF Execute
<1>5. CASE mode = "synced" /\ pending = "stray" /\ Answer(<<INVALID_COMMAND>>) /\ pending' = "line"
           /\ UNCHANGED <<mode, echo, unlocked, prepared, ram, flash>>
  BY <1>1, <1>5
<1> QED BY <1>2, <1>3, <1>4, <1>5 DEF Obey, target

(* On such a line a read leaves nothing.                                   *)
LEMMA NothingLeft ==
  ASSUME ~SlowLine
  PROVE  \A s, r : r \in Remainders(s) <=> r = <<>>
  BY DEF Remainders

(* While it connects, a run has told its user nothing and sent no command. *)
LEMMA QuietConnecting ==
  ASSUME pc' \in Handshake, Drained', EchoLast', Opened'
  PROVE  Quiet'
  BY DEF Handshake, Quiet, Untouched, Answered, ReportIsTrue, RefusalIsTrue, AnsweredMeansReady, Fresh

(* A run that is over asks nothing.                                        *)
LEMMA QuietOver ==
  ASSUME Quiet, pc' \in {"exit", "idle"}, UNCHANGED <<mode, echo>>,
         ReportIsTrue', RefusalIsTrue', AnsweredMeansReady'
  PROVE  Quiet'
  BY DEF Quiet, Drained, EchoLast, Untouched, Answered, Opened, Running, Handshake

(* An error tells nothing of the target.                                   *)
LEMMA QuietError ==
  ASSUME Quiet, pc' = "exit", said' \in {"error", "nothing"}, UNCHANGED <<mode, echo>>, RefusalIsTrue'
  PROVE  Quiet'
<1>1. ReportIsTrue' /\ AnsweredMeansReady' BY DEF ReportIsTrue, AnsweredMeansReady
<1> QED BY <1>1, QuietOver

(* isp_connect.                                                            *)
LEMMA QuietConnect ==
  ASSUME ~SlowLine, Typed, Quiet, Connect
  PROVE  Quiet'
<1>0. part \in Devices /\ flash \in [Pages(part) -> Contents] BY DEF Typed, Shaped, TargetTypeOK
<1>1. CASE AskQuestion \/ AskSynchro \/ AskFreq \/ AskEchoOff
  <2>1. /\ pc \in Handshake /\ asked = "no" /\ UNCHANGED <<part, pc, history>>
        /\ asked' \in {"sent", "failed"} /\ (asked' = "failed" => Lost)
    BY <1>1 DEF AskQuestion, AskSynchro, AskFreq, AskEchoOff, Write, Send, Handshake
  <2>2. rx = <<>> /\ EchoLast BY <2>1 DEF Quiet, Drained, Running, Handshake
  <2>3. Obey("?", 0) => Taken("?", 0) BY <1>0, <2>1, <2>2, LineTaken
  <2>4. Lost => UNCHANGED <<mode, echo, rx>> BY DEF Lost, target
  <2>5. Drained' BY <2>1, <2>2, <2>4 DEF Drained
  <2>6. EchoLast'
    BY <1>1, <2>2, <2>3, <2>4 DEF AskQuestion, AskSynchro, AskFreq, AskEchoOff, Write, Send, HearQuestion,
       HearSynchronized, HearFrequency, HearEchoOff, Refused, target, Taken, EchoLast
  <2>7. pc = "synchro" => HearSynchronized \/ Lost
    BY <1>1 DEF AskQuestion, AskSynchro, AskFreq, AskEchoOff, Write, Send
  <2>8. pc = "freq" => HearFrequency \/ Lost
    BY <1>1 DEF AskQuestion, AskSynchro, AskFreq, AskEchoOff, Write, Send
  <2>9. pc = "echo" => HearEchoOff \/ Lost
    BY <1>1 DEF AskQuestion, AskSynchro, AskFreq, AskEchoOff, Write, Send
  <2>10. pc = "synchro" /\ rx' # <<>> => mode' \in {"ask", "synced"}
    BY <2>2, <2>3, <2>4, <2>7 DEF HearSynchronized, Taken
  <2>11. pc \in {"freq", "echo"} /\ mode \in {"ask", "synced"} => mode' \in {"ask", "synced"}
    BY <2>3, <2>4, <2>8, <2>9 DEF HearFrequency, HearEchoOff, Refused, target, Taken
  <2>12. Opened' BY <2>1, <2>10, <2>11 DEF Quiet, Opened, history
  <2> QED BY <2>1, <2>5, <2>6, <2>12, QuietConnecting
<1>2. CASE ReadSynchronized \/ ReadSynchroOk \/ ReadFreqOk \/ ReadEchoOff
  <2>1. /\ pc \in Handshake /\ asked # "no" /\ asked' = "no" /\ UNCHANGED <<part, target, inv, history>>
        /\ rx' = <<>>
    <3>1. \A a \in Acknowledges : a.rest = <<>> BY NothingLeft DEF Acknowledges
    <3> QED
      BY <1>2, <3>1, NothingLeft DEF ReadSynchronized, ReadSynchroOk, ReadFreqOk, ReadEchoOff,
         Reading, Step, Unread, Handshake
  <2>2. inv.cmd = "sync" BY <2>1 DEF Typed, Course
  <2>3. Drained' /\ EchoLast' BY <2>1 DEF Quiet, Drained, EchoLast, target
  <2>4. asked = "failed" => ~Acknowledged
    BY <2>1 DEF Quiet, Drained, Running, Handshake, Acknowledged
  <2>5. asked \in {"sent", "failed"} BY <2>1 DEF Typed, Shaped
  <2>6. CASE pc' \in Handshake
    <3>0. \A a \in Acknowledges : a.found = "ok" => Acknowledged BY DEF Acknowledges
    <3>1. /\ pc' = "freq" => pc = "synchro" /\ Acknowledged
          /\ pc' = "echo" => pc = "freq"
          /\ pc' \in {"synchro", "freq", "echo"}
      BY <1>2, <2>6, <3>0 DEF ReadSynchronized, ReadSynchroOk, ReadFreqOk, ReadEchoOff, Reading,
         Goto, Return, Handshake
    <3>3. Acknowledged => rx # <<>> BY DEF Acknowledged
    <3>2. Opened' BY <2>1, <2>4, <2>5, <3>1, <3>3 DEF Quiet, Opened, history, target
    <3> QED BY <2>3, <2>6, <3>2, QuietConnecting
  <2>7. CASE pc' = "exit"
    <3>1. RefusalIsTrue' BY <2>1, <2>2 DEF RefusalIsTrue, Sectorial, Addressed
    <3>2. CASE said' = "error" BY <2>1, <2>7, <3>1, <3>2, QuietError DEF target
    <3>3. CASE pc = "echo" /\ said' = "opened"
      <4>1. ReportIsTrue' BY <2>1, <3>3 DEF Quiet, Opened, ReportIsTrue, Fresh, history, target
      <4>2. AnsweredMeansReady' BY <3>3 DEF AnsweredMeansReady
      <4> QED BY <2>1, <2>7, <3>1, <4>1, <4>2, QuietOver DEF target
    <3> QED
      BY <1>2, <2>7, <3>2, <3>3 DEF ReadSynchronized, ReadSynchroOk, ReadFreqOk, ReadEchoOff,
         Reading, Goto, Return, Handshake
  <2> QED
    BY <1>2, <2>6, <2>7 DEF ReadSynchronized, ReadSynchroOk, ReadFreqOk, ReadEchoOff, Goto,
       Return, Handshake
<1> QED BY <1>1, <1>2 DEF Connect

(* The arguments, before anything is sent.                                 *)
LEMMA QuietCheck ==
  ASSUME Typed, Quiet, CheckArguments
  PROVE  Quiet'
<1>1. /\ pc = "check" /\ UNCHANGED <<part, target, rx, asked, inv, history>> /\ asked = "no" /\ rx = <<>>
      /\ flash = before
  BY DEF CheckArguments, Step, Typed, Course, Quiet, Drained, Untouched, Running
<1>2. CASE pc' = "exit" /\ said' = "error"
  <2>1. RefusalIsTrue' BY <1>1 DEF RefusalIsTrue, history, target
  <2> QED BY <1>1, <1>2, <2>1, QuietError DEF target
<1>3. CASE pc' = "command"
  <2>1. Drained' /\ EchoLast' /\ Untouched' /\ Answered' /\ Opened'
    BY <1>1, <1>3 DEF Quiet, Drained, EchoLast, Untouched, Answered, Opened, history, target
  <2>2. ReportIsTrue' /\ RefusalIsTrue' /\ AnsweredMeansReady'
    BY <1>3 DEF ReportIsTrue, RefusalIsTrue, AnsweredMeansReady, Fresh
  <2> QED BY <2>1, <2>2 DEF Quiet
<1> QED BY <1>2, <1>3 DEF CheckArguments, Return, Goto

(* The line of the command.                                                *)
LEMMA QuietAsk ==
  ASSUME Typed, Quiet, AskCommand
  PROVE  Quiet'
<1>0. part \in Devices /\ flash \in [Pages(part) -> Contents] BY DEF Typed, Shaped, TargetTypeOK
<1>1. /\ pc = "command" /\ asked = "no" /\ UNCHANGED <<part, pc, inv, told, out, history>>
      /\ asked' \in {"sent", "failed"} /\ (asked' = "failed" => Lost)
      /\ Lost \/ (asked' = "sent" /\ \E op, arg : Sent(op, arg) /\ Obey(op, arg))
  BY CommandSent DEF AskCommand, Write, Send
<1>2. rx = <<>> /\ EchoLast /\ flash = before
  BY <1>1 DEF Quiet, Drained, Untouched, Running
<1>3. ReportIsTrue' /\ RefusalIsTrue' /\ AnsweredMeansReady' /\ Opened'
  BY <1>1 DEF ReportIsTrue, RefusalIsTrue, AnsweredMeansReady, Fresh, Opened
<1>4. CASE Lost
  <2>1. UNCHANGED <<mode, echo, flash, rx>> BY <1>4 DEF Lost, target
  <2>2. Drained' /\ EchoLast' /\ Untouched' /\ Answered'
    BY <1>1, <1>2, <2>1 DEF Quiet, Drained, EchoLast, Untouched, Answered, history
  <2> QED BY <1>3, <2>2 DEF Quiet
<1>5. ASSUME NEW op, NEW arg, Sent(op, arg), Obey(op, arg), asked' = "sent" PROVE Quiet'
  <2>1. op = "C" => arg \in Pages(part) BY <1>5, LetterValue DEF Sent, Sectorial, Plain4
  <2>2. Taken(op, arg) BY <1>0, <1>1, <1>2, <1>5, <2>1, LineTaken
  <2>3. op = "W" => inv.cmd = "write"
    BY <1>5, LetterValue DEF Sent, Sectorial, Plain4, Addressed
  <2>4. op \in {"E", "C"} => inv.cmd \in {"erase", "copy"}
    BY <1>5, LetterValue DEF Sent, Sectorial, Plain4, Addressed
  <2>5. /\ inv.cmd = "unlock" => op = "U"
        /\ inv.cmd = "prepare" => op = "P" /\ arg = Named
        /\ inv.cmd = "erase" => op = "E" /\ arg = Named
        /\ inv.cmd = "blank" => op = "I" /\ arg = Named
        /\ inv.cmd = "copy" => op = "X" \/ (op = "C" /\ arg = inv.page)
        /\ inv.cmd = "compare" => op = "X" \/ (op = "M" /\ arg = inv.page)
    BY <1>5, LetterValue DEF Sent, Sectorial, Plain4, Addressed
  <2>6. Drained' /\ EchoLast' BY <1>5, <2>2 DEF Drained, EchoLast, Taken
  <2>8. UNCHANGED <<pc, inv, before, part>> /\ Named' = Named /\ inv'.cmd = inv.cmd
    BY <1>1 DEF history, Named
  <2>7. Untouched'
    <3>1. pc' = "command" BY <1>1, <2>8
    <3>2. ASSUME flash' # before' PROVE inv'.cmd \in {"erase", "copy"} /\ (rx' # <<>> => CodeOf(Head(rx')) = 0)
      BY <1>2, <2>2, <2>4, <2>8, <3>2 DEF Taken
    <3> QED BY <1>5, <3>1, <3>2 DEF Untouched
  <2>9. ASSUME ~echo, rx' # <<>> PROVE Granted' /\ Explained'
    <3>1. Meant(op, arg) BY <2>2, <2>9 DEF Taken
    <3>2. BlankSectors(Named)' <=>
            \A b \in Pages(part) : SectorOf(part, b) \in Named => flash'[b] = Blank
      BY <2>8 DEF BlankSectors
    <3>3. Granted' BY <1>2, <2>5, <2>8, <3>1, <3>2 DEF Meant, Granted
    <3>4. Explained' BY <2>5, <2>8, <3>1, <3>2 DEF Meant, Explained
    <3> QED BY <3>3, <3>4
  <2>10. Answered' BY <2>2, <2>3, <2>8, <2>9 DEF Answered, Taken
  <2> QED BY <1>3, <2>6, <2>7, <2>10 DEF Quiet
<1> QED BY <1>1, <1>4, <1>5

(* The code of a command is the one that came, or there was no answer.     *)
LEMMA CodeHeard ==
  ASSUME ~SlowLine, Typed, Quiet, pc = "command", asked # "no", NEW g \in Replies
  PROVE  /\ g.code \in Int
         /\ \/ g.code \in {-5, -4}
            \/ asked = "sent" /\ rx # <<>> /\ g.code = CodeOf(Head(rx)) /\ g.rest = Tail(rx)
<1>1. asked \in {"sent", "failed"} BY DEF Typed, Shaped
<1>2. g.code \in Int BY ReadTyped
<1>3. CASE asked = "failed" BY <1>2, <1>3 DEF Replies
<1>4. CASE asked = "sent" /\ rx = <<>> BY <1>2, <1>4 DEF Replies
<1>5. CASE asked = "sent" /\ rx # <<>>
  <2>1. Head(rx) \in Genuine /\ Tail(rx) \in Seq(Genuine)
    BY <1>5 DEF Typed, Shaped, TargetTypeOK
  <2>2. NumberOf(Head(rx)) <= LargestRead
    <3>1. Head(rx) <= LargestRead BY <1>5 DEF Quiet, Answered
    <3> QED BY <2>1, <3>1 DEF NumberOf, LargestRead
  <2>3. NumberOf(Head(rx)) \in Nat BY <2>1, CodeRange DEF Typed, Shaped, TargetTypeOK
  <2>4. ~(NumberOf(Head(rx)) > LargestRead) BY <2>2, <2>3 DEF LargestRead
  <2>5. Digits(Head(rx)) = {<<>>} BY <2>4 DEF Digits
  <2>6. <<>> \o Tail(rx) = Tail(rx) BY <2>1, ConcatEmptySeq
  <2>7. CASE g \in {[code |-> CodeOf(Head(rx)), rest |-> d \o Tail(rx)] : d \in Digits(Head(rx))}
    <3>1. g = [code |-> CodeOf(Head(rx)), rest |-> <<>> \o Tail(rx)] BY <2>5, <2>7
    <3>2. g.code = CodeOf(Head(rx)) /\ g.rest = Tail(rx) BY <2>6, <3>1
    <3> QED BY <1>2, <1>5, <3>2
  <2>8. CASE g = [code |-> -4, rest |-> <<>>] BY <1>2, <2>8
  <2> QED BY <1>5, <2>7, <2>8 DEF Replies
<1> QED BY <1>1, <1>3, <1>4, <1>5

(* A command whose code is not 0 has left the flash alone.                 *)
LEMMA Refusal ==
  ASSUME Quiet, pc = "command", asked = "sent", rx # <<>>,
         inv.cmd \notin {"erase", "copy"} \/ CodeOf(Head(rx)) # 0
  PROVE  flash = before
  BY DEF Quiet, Untouched

(* The answers that are only a code.                                       *)
LEMMA QuietCode ==
  ASSUME ~SlowLine, Typed, Quiet, ReadCode
  PROVE  Quiet'
<1>0. /\ pc = "command" /\ asked # "no" /\ UNCHANGED <<part, target, inv, history>> /\ pc' = "exit"
      /\ inv.cmd \in DOMAIN Done
  BY DEF ReadCode, Reading, Unread, Return, Step
<1>1. PICK g \in Replies :
        /\ Unread(g.rest)
        /\ IF g.code = 0 THEN Return(0, Done[inv.cmd])
           ELSE Return(IF inv.cmd = "go" /\ g.code < 0 THEN g.code + 1
                       ELSE IF inv.cmd \in {"unlock", "go"} THEN -1 ELSE g.code, "error")
  BY DEF ReadCode
<1>2. g.code \in Int
      /\ \/ g.code \in {-5, -4}
         \/ asked = "sent" /\ rx # <<>> /\ g.code = CodeOf(Head(rx)) /\ g.rest = Tail(rx)
  BY <1>0, CodeHeard
<1>3. CASE g.code # 0
  <2>1. said' = "error" /\ (ret' > 0 /\ inv.cmd \notin {"unlock", "go"} => g.code > 0)
    BY <1>1, <1>2, <1>3 DEF Return
  <2>2. g.code > 0 => flash = before
    <3>1. g.code > 0 => g.code \notin {-5, -4} BY <1>2
    <3> QED BY <1>0, <1>2, <1>3, <3>1, Refusal
  <2>3. RefusalIsTrue'
    BY <1>0, <2>1, <2>2 DEF RefusalIsTrue, history, target, Sectorial, Addressed
  <2> QED BY <1>0, <2>1, <2>3, QuietError DEF target
<1>4. CASE g.code = 0
  <2>1. asked = "sent" /\ rx # <<>> /\ CodeOf(Head(rx)) = 0 BY <1>2, <1>4
  <2>2. ret' = 0 /\ said' = Done[inv.cmd] BY <1>1, <1>4 DEF Return
  <2>3. RefusalIsTrue' BY <2>2 DEF RefusalIsTrue
  <2>4. pending = "line"
    BY <1>0, <2>1 DEF Quiet, Answered, Done
  <2>5. AnsweredMeansReady' BY <1>0, <2>4 DEF AnsweredMeansReady, target
  <2>6. calm /\ ~echo => Granted BY <1>0, <2>1 DEF Quiet, Answered
  <2>7. ReportIsTrue'
    <3>1. said' = "unlocked" => inv.cmd = "unlock" BY <1>0, <2>2 DEF Done
    <3>2. said' = "prepared" => inv.cmd = "prepare" BY <1>0, <2>2 DEF Done
    <3>3. said' = "erased" => inv.cmd = "erase" BY <1>0, <2>2 DEF Done
    <3>4. said' = "copied" => inv.cmd = "copy" BY <1>0, <2>2 DEF Done
    <3>5. said' \notin {"blank", "used", "equal", "differ", "sent", "read", "opened"}
      BY <1>0, <2>2 DEF Done
    <3>6. BlankSectors(Named)' <=> BlankSectors(Named)
      BY <1>0 DEF BlankSectors, Named, target, Pages
    <3>7. UNCHANGED <<inv, before, calm, echo, unlocked, prepared, flash, ram>> /\ Named' = Named
      BY <1>0 DEF target, history, Named
    <3> QED
      BY <2>1, <2>2, <2>6, <3>1, <3>2, <3>3, <3>4, <3>5, <3>6, <3>7 DEF ReportIsTrue, Fresh, Granted
  <2> QED BY <1>0, <2>3, <2>5, <2>7, QuietOver DEF target
<1> QED BY <1>3, <1>4

(* A read that ends the run changes nothing but what its user was told;    *)
(* what it says must be so.                                                *)
LEMMA QuietWords ==
  ASSUME Typed, Quiet, pc = "command", asked = "sent", rx # <<>>,
         inv.cmd \notin {"erase", "copy", "write"},
         UNCHANGED <<part, target, inv, history>>, pc' = "exit",
         said' \in {"words", "blank", "used", "equal", "differ"},
         calm /\ ~echo =>
           /\ said' = "blank" => BlankSectors(Named)
           /\ said' = "used" => ~BlankSectors(Named)
           /\ said' = "equal" => flash[inv.page] = ram
           /\ said' = "differ" => flash[inv.page] # ram \/ ram = Garbage
  PROVE  Quiet'
<1>1. flash = before BY Refusal
<1>2. pending = "line" BY DEF Quiet, Answered
<1>3. RefusalIsTrue' BY <1>1 DEF RefusalIsTrue, target, history
<1>4. AnsweredMeansReady' BY <1>2 DEF AnsweredMeansReady, target
<1>5. BlankSectors(Named)' <=> BlankSectors(Named) BY DEF BlankSectors, Named, target, Pages
<1>6. UNCHANGED <<inv, calm, echo, flash, ram>> BY DEF target, history
<1>7. ReportIsTrue' BY <1>5, <1>6 DEF ReportIsTrue, Fresh
<1> QED BY <1>3, <1>4, <1>7, QuietOver DEF target

(* One that ends with an error.                                            *)
LEMMA QuietReadError ==
  ASSUME Quiet, pc = "command", asked # "no", inv.cmd \notin {"erase", "copy"},
         UNCHANGED <<mode, echo, flash, inv, before>>, pc' = "exit", said' \in {"error", "nothing"}
  PROVE  Quiet'
<1>1. flash = before BY DEF Quiet, Untouched
<1>2. RefusalIsTrue' BY <1>1 DEF RefusalIsTrue
<1> QED BY <1>2, QuietError

(* The answers that more is read of.                                       *)
LEMMA QuietAnswer ==
  ASSUME ~SlowLine, Typed, Quiet, ReadPart \/ ReadUidVersion \/ ReadBlank \/ ReadCompare
  PROVE  Quiet'
<1>0. /\ pc = "command" /\ asked # "no" /\ UNCHANGED <<part, target, inv, history>> /\ pc' = "exit"
      /\ inv.cmd \in {"part-id", "uid", "version", "blank", "compare"}
  BY DEF ReadPart, ReadUidVersion, ReadBlank, ReadCompare, MoreRead, Reading, Unread, Return, Step
<1>1. CASE said' \in {"error", "nothing"}
  BY <1>0, <1>1, QuietReadError DEF target, history
<1>2. ASSUME NEW g \in Replies, g.code \in Nat
      PROVE  /\ asked = "sent" /\ rx # <<>> /\ g.code = CodeOf(Head(rx)) /\ g.rest = Tail(rx)
             /\ g.rest # <<>> => Len(rx) >= 2
             /\ calm /\ ~echo => Granted /\ Explained
  <2>1. g.code \notin {-5, -4} BY <1>2
  <2>2. asked = "sent" /\ rx # <<>> /\ g.code = CodeOf(Head(rx)) /\ g.rest = Tail(rx)
    BY <1>0, <1>2, <2>1, CodeHeard
  <2>3. rx \in Seq(Genuine) BY DEF Typed, Shaped, TargetTypeOK
  <2>4. Tail(rx) # <<>> => Len(rx) >= 2 BY <2>2, <2>3
  <2> QED BY <1>0, <2>2, <2>4 DEF Quiet, Answered
<1>3. CASE said' = "words"
  <2>1. PICK g \in Replies : g.code = 0
    BY <1>3 DEF ReadPart, ReadUidVersion, ReadBlank, ReadCompare, MoreRead, Return
  <2>2. asked = "sent" /\ rx # <<>> BY <1>2, <2>1
  <2> QED BY <1>0, <1>3, <2>2, QuietWords
<1>4. CASE said' = "blank"
  <2>1. PICK g \in Replies : g.code = 0 /\ inv.cmd = "blank"
    BY <1>4 DEF ReadPart, ReadUidVersion, ReadBlank, ReadCompare, MoreRead, Return, CMD_SUCCESS
  <2>2. asked = "sent" /\ rx # <<>> /\ (calm /\ ~echo => BlankSectors(Named))
    BY <1>2, <2>1 DEF Granted
  <2> QED BY <1>0, <1>4, <2>2, QuietWords
<1>5. CASE said' = "used"
  <2>1. PICK g \in Replies : g.code = SECTOR_NOT_BLANK /\ g.rest # <<>> /\ inv.cmd = "blank"
    BY <1>5 DEF ReadPart, ReadUidVersion, ReadBlank, ReadCompare, MoreRead, Return
  <2>2. g.code \in Nat BY <2>1 DEF SECTOR_NOT_BLANK
  <2>3. asked = "sent" /\ rx # <<>> /\ (calm /\ ~echo => ~BlankSectors(Named))
    BY <1>2, <2>1, <2>2 DEF Explained
  <2> QED BY <1>0, <1>5, <2>3, QuietWords
<1>6. CASE said' = "equal"
  <2>1. PICK g \in Replies : g.code = 0 /\ inv.cmd = "compare"
    BY <1>6 DEF ReadPart, ReadUidVersion, ReadBlank, ReadCompare, MoreRead, Return, CMD_SUCCESS
  <2>2. asked = "sent" /\ rx # <<>> /\ (calm /\ ~echo => flash[inv.page] = ram)
    BY <1>2, <2>1 DEF Granted
  <2> QED BY <1>0, <1>6, <2>2, QuietWords
<1>7. CASE said' = "differ"
  <2>1. PICK g \in Replies : g.code = COMPARE_ERROR /\ g.rest # <<>> /\ inv.cmd = "compare"
    BY <1>7 DEF ReadPart, ReadUidVersion, ReadBlank, ReadCompare, MoreRead, Return
  <2>2. g.code \in Nat BY <2>1 DEF COMPARE_ERROR
  <2>3. asked = "sent" /\ rx # <<>> /\ (calm /\ ~echo => flash[inv.page] # ram \/ ram = Garbage)
    BY <1>2, <2>1, <2>2 DEF Explained
  <2> QED BY <1>0, <1>7, <2>3, QuietWords
<1> QED
  BY <1>1, <1>3, <1>4, <1>5, <1>6, <1>7 DEF ReadPart, ReadUidVersion, ReadBlank, ReadCompare, MoreRead, Return

(* The data of read-memory: read whole, or told as an error, but for a     *)
(* block whose end did not come.                                           *)
LEMMA QuietOut ==
  ASSUME ~SlowLine, Typed, Quiet, ReadOut
  PROVE  Quiet'
<1>0. /\ pc = "command" /\ asked # "no" /\ UNCHANGED <<part, mode, echo, flash, inv, history>> /\ pc' = "exit"
      /\ inv.cmd = "read"
  BY DEF ReadOut, Reading, Return
<1>1. CASE said' = "error" BY <1>0, <1>1, QuietReadError DEF history
<1>2. CASE said' # "error"
  <2>1. PICK g \in Replies :
          g.code = 0 /\ said' \in {"read", "short"} /\ pending' \in LeftWaiting(g.code, inv.encode)
    <3>1. \A code : code # 0 => \A m \in Received(code) : Reported[m.data] = "error"
      BY DEF Received, Reported
    <3>2. \A code : \A m \in Received(code) : Reported[m.data] \in {"read", "short", "error"}
      BY DEF Received, Reported
    <3>3. PICK g \in Replies : \E m \in Received(g.code) :
            said' = Reported[m.data] /\ pending' \in LeftWaiting(g.code, inv.encode)
      BY <1>2 DEF ReadOut, Return
    <3> QED BY <1>2, <3>1, <3>2, <3>3
  <2>2. asked = "sent" /\ rx # <<>>
    <3>1. g.code \notin {-5, -4} BY <2>1
    <3> QED BY <1>0, <3>1, CodeHeard
  <2>3. flash = before BY <1>0, <2>2, Refusal
  <2>4. pending = "line" BY <1>0, <2>2 DEF Quiet, Answered
  <2>5. RefusalIsTrue' BY <1>0, <2>3 DEF RefusalIsTrue, history
  <2>6. AnsweredMeansReady' BY <1>0, <2>1, <2>4 DEF AnsweredMeansReady, LeftWaiting
  <2>7. ReportIsTrue' BY <2>1 DEF ReportIsTrue
  <2> QED BY <1>0, <2>5, <2>6, <2>7, QuietOver
<1> QED BY <1>1, <1>2

(* write-to-ram: its answer, and its data.                                 *)
LEMMA QuietWrite ==
  ASSUME ~SlowLine, Typed, Quiet, ReadWriteRam \/ SendData \/ SendFailed
  PROVE  Quiet'
<1>1. CASE ReadWriteRam
  <2>1. /\ pc = "command" /\ asked # "no" /\ asked' = "no" /\ UNCHANGED <<part, target, inv, history>>
        /\ inv.cmd = "write" /\ ((pc' = "exit" /\ said' = "error") \/ pc' = "data")
    BY <1>1 DEF ReadWriteRam, Reading, Unread, Return, Goto, Step
  <2>2. CASE pc' = "exit" /\ said' = "error" BY <2>1, <2>2, QuietReadError DEF target, history
  <2>3. CASE pc' = "data"
    <3>1. flash = before BY <2>1 DEF Quiet, Untouched
    <3>2. Drained' /\ EchoLast' /\ Untouched' /\ Answered' /\ Opened'
      BY <2>1, <2>3, <3>1 DEF Quiet, Drained, EchoLast, Untouched, Answered, Opened, history, target
    <3>3. ReportIsTrue' /\ RefusalIsTrue' /\ AnsweredMeansReady'
      BY <2>3 DEF ReportIsTrue, RefusalIsTrue, AnsweredMeansReady, Fresh
    <3> QED BY <3>2, <3>3 DEF Quiet
  <2> QED BY <2>1, <2>2, <2>3
<1>2. ASSUME pc = "data", pc' = "exit", UNCHANGED <<mode, echo, flash, inv, out, history>>
      PROVE  RefusalIsTrue'
  <2>1. flash = before BY <1>2 DEF Quiet, Untouched
  <2> QED BY <1>2, <2>1 DEF RefusalIsTrue, history
<1>3. CASE SendData
  <2>1. /\ pc = "data" /\ pc' = "exit" /\ UNCHANGED <<mode, echo, flash, inv, out, history>> /\ said' = "sent"
        /\ InRam(Staged) \/ ~inv.encode
    BY <1>3 DEF SendData, Return, Step, InRam, Spilled, target
  <2>2. Staged' = Staged BY <2>1 DEF Staged
  <2>3. inv.encode => ram' = Staged' /\ pending' = "line" BY <2>1, <2>2 DEF InRam
  <2>4. RefusalIsTrue' BY <1>2, <2>1
  <2>5. AnsweredMeansReady' BY <2>1, <2>3 DEF AnsweredMeansReady
  <2>6. ReportIsTrue' BY <2>1, <2>3 DEF ReportIsTrue
  <2> QED BY <2>1, <2>4, <2>5, <2>6, QuietOver
<1>4. CASE SendFailed
  <2>1. /\ pc = "data" /\ pc' = "exit" /\ UNCHANGED <<mode, echo, flash, inv, out, history>> /\ said' = "error"
    BY <1>4 DEF SendFailed, Return, Step, Spilled, target
  <2> QED BY <1>2, <2>1, QuietError
<1> QED BY <1>1, <1>3, <1>4

(* The user and the reset button.                                          *)
LEMMA QuietUser ==
  ASSUME ~SlowLine, Typed, Quiet, Start \/ Kill \/ PressReset \/ PressResetErasing \/ PressResetCopying
  PROVE  Quiet'
<1>1. CASE Start
  <2>1. /\ pc' \in {"question", "check"} /\ asked' = "no" /\ rx' = <<>> /\ before' = flash
        /\ UNCHANGED <<part, target>>
    BY <1>1, NothingLeft DEF Start
  <2>2. Drained' /\ EchoLast' /\ Untouched' /\ Answered' /\ Opened'
    BY <2>1 DEF Quiet, Drained, EchoLast, Untouched, Answered, Opened, target
  <2>3. ReportIsTrue' /\ RefusalIsTrue' /\ AnsweredMeansReady'
    BY <2>1 DEF ReportIsTrue, RefusalIsTrue, AnsweredMeansReady, Fresh
  <2> QED BY <2>2, <2>3 DEF Quiet
<1>2. CASE Kill
  <2>1. pc' = "idle" /\ UNCHANGED <<mode, echo>> BY <1>2 DEF Kill, Lost, target
  <2>2. ReportIsTrue' /\ RefusalIsTrue' /\ AnsweredMeansReady'
    BY <2>1 DEF ReportIsTrue, RefusalIsTrue, AnsweredMeansReady, Fresh
  <2> QED BY <2>1, <2>2, QuietOver
<1>3. CASE PressReset
  <2>1. /\ mode' = "reset" /\ echo' /\ pending' = "line" /\ ~calm'
        /\ UNCHANGED <<flash, rx, pc, asked, inv, ret, before>>
    BY <1>3 DEF PressReset, Restarted, host, told
  <2>2. Drained' /\ EchoLast' /\ Untouched' /\ Answered' /\ Opened'
    BY <2>1 DEF Quiet, Drained, EchoLast, Untouched, Answered, Opened
  <2>3. ReportIsTrue' /\ AnsweredMeansReady' BY <2>1 DEF ReportIsTrue, AnsweredMeansReady, Fresh
  <2>4. RefusalIsTrue' BY <2>1 DEF Quiet, RefusalIsTrue
  <2> QED BY <2>2, <2>3, <2>4 DEF Quiet
<1>4. CASE PressResetErasing \/ PressResetCopying
  <2>1. /\ pc = "command" /\ asked = "no" /\ asked' = "sent" /\ ~calm' /\ UNCHANGED <<pc, inv, rx>>
        /\ inv.cmd \in {"erase", "copy"} /\ mode' = "reset" /\ echo'
    BY <1>4 DEF PressResetErasing, PressResetCopying, PressResetDuring, CutShort, Restarted
  <2>2. rx = <<>> BY <2>1 DEF Quiet, Drained, Running
  <2>3. Drained' /\ EchoLast' /\ Untouched' /\ Answered' /\ Opened'
    BY <2>1, <2>2 DEF Drained, EchoLast, Untouched, Answered, Opened
  <2>4. ReportIsTrue' /\ RefusalIsTrue' /\ AnsweredMeansReady'
    BY <2>1 DEF ReportIsTrue, RefusalIsTrue, AnsweredMeansReady, Fresh
  <2> QED BY <2>3, <2>4 DEF Quiet
<1> QED BY <1>1, <1>2, <1>3, <1>4

(* Every step keeps the invariant.                                         *)
LEMMA QuietStep ==
  ASSUME ~SlowLine, Typed, Quiet, [Next]_vars
  PROVE  Quiet'
<1>1. CASE Connect BY <1>1, QuietConnect
<1>2. CASE Command
  BY <1>2, QuietCheck, QuietAsk, QuietCode, QuietAnswer, QuietOut, QuietWrite DEF Command
<1>3. CASE Start \/ Kill \/ PressReset \/ PressResetErasing \/ PressResetCopying BY <1>3, QuietUser
<1>4. CASE UNCHANGED vars
  <2>1. UNCHANGED <<part, mode, echo, pending, unlocked, prepared, ram, flash, rx, pc, asked, inv, ret, said, out,
                    before, calm>>
    BY <1>4 DEF vars, host, told, history, target
  <2>2. Drained' /\ EchoLast' /\ Untouched' /\ Opened'
    BY <2>1 DEF Quiet, Drained, EchoLast, Untouched, Opened, Acknowledged
  <2>3. Named' = Named /\ Staged' = Staged /\ (BlankSectors(Named)' <=> BlankSectors(Named))
    BY <2>1 DEF Named, Staged, BlankSectors
  <2>4. Answered'
    BY <2>1, <2>3 DEF Quiet, Answered, Granted, Explained
  <2>5. ReportIsTrue' BY <2>1, <2>3 DEF Quiet, ReportIsTrue, Fresh
  <2>6. RefusalIsTrue' /\ AnsweredMeansReady'
    BY <2>1 DEF Quiet, RefusalIsTrue, AnsweredMeansReady, Fresh
  <2> QED BY <2>2, <2>4, <2>5, <2>6 DEF Quiet
<1> QED BY <1>1, <1>2, <1>3, <1>4 DEF Next, Program

(* It holds from the start of the first run on.                            *)
LEMMA QuietAlways ==
  ASSUME ~SlowLine
  PROVE  Spec => []Quiet
<1>1. Init => Quiet
  <2>1. ASSUME Init PROVE Quiet
    BY <2>1 DEF Init, TargetInit, Quiet, Drained, EchoLast, Untouched, Answered, Opened, ReportIsTrue,
       RefusalIsTrue, AnsweredMeansReady, Fresh, Running, Handshake
  <2> QED BY <2>1
<1>2. Typed /\ Quiet /\ [Next]_vars => Quiet' BY QuietStep
<1> QED BY <1>1, <1>2, TypedAlways, PTL DEF Spec

(* What lpcisp tells its user is so, when no answer is late and no reset   *)
(* came meanwhile: on a noisy line, whatever the target refuses, and after *)
(* any number of earlier runs, killed ones included.                       *)
THEOREM ReportIsTrueCorrect ==
  ASSUME ~SlowLine
  PROVE  Spec => []ReportIsTrue
<1>1. Quiet => ReportIsTrue BY DEF Quiet
<1> QED BY <1>1, QuietAlways, PTL

(* A command refused with a code of the target has not touched the flash,  *)
(* with resets at any time.                                                *)
THEOREM RefusalIsTrueCorrect ==
  ASSUME ~SlowLine
  PROVE  Spec => []RefusalIsTrue
<1>1. Quiet => RefusalIsTrue BY DEF Quiet
<1> QED BY <1>1, QuietAlways, PTL

(* A run that ended well leaves the target waiting for a line, or for the  *)
(* "OK" to the last block of an encoded read.                              *)
THEOREM AnsweredMeansReadyCorrect ==
  ASSUME ~SlowLine
  PROVE  Spec => []AnsweredMeansReady
<1>1. Quiet => AnsweredMeansReady BY DEF Quiet
<1> QED BY <1>1, QuietAlways, PTL
=============================================================================
