------------------------------- MODULE LpcIsp --------------------------------
(***************************************************************************)
(* lpcisp (lpcisp.c, isp_wrapper.c): one command of the boot loader per    *)
(* run of the program, or "-s" to open a session.  Nothing but the session *)
(* the target keeps links one run to the next: a user erases and writes a  *)
(* flash by a series of runs, any of which may be killed, answered wrongly *)
(* or not at all, or given the wrong arguments.                            *)
(***************************************************************************)
EXTENDS IspCommands

CONSTANT Invocations   \* the command lines users give

Sectorial == {"prepare", "erase", "blank"}
Plain4    == {"unlock", "part-id", "version", "uid"}
Addressed == {"write", "read", "copy", "compare"}
isp_cmds_list == Sectorial \cup Plain4 \cup Addressed \cup {"go"}

(* wrong: the value the checks of the arguments return, 0 if they pass;    *)
(* mapped: addresses and count name memory of the part; encode: the third  *)
(* argument of write-to-ram, the fourth of read-memory.                    *)
CommandLine ==
  [cmd: isp_cmds_list \cup {"sync"}, wrong: Int, first: Nat, last: Nat,
   page: Nat, file: Files \cup {NoFile}, mapped: BOOLEAN, encode: BOOLEAN]

ASSUME InvocationsAssumption ==
  /\ Invocations \subseteq CommandLine /\ Invocations # {}
  /\ \A line \in Invocations, p \in Devices : line.mapped => line.page \in Pages(p)

VARIABLES
  inv,     \* the command line
  ret,     \* value of isp_connect, or of isp_handle_command
  said,    \* what the user was told, or "nothing"
  out,     \* what read-memory put in its output file
  before,  \* history: the flash when the program was started
  calm     \* history: no reset since the program was started

told == <<ret, said>>
host == <<pc, asked, inv, told, out>>
history == <<before, calm>>
vars == <<part, target, rx, host, history>>

Handshake == {"question", "synchro", "freq", "echo"}
Running == Handshake \cup {"check", "command", "data"}

Init ==
  /\ TargetInit
  /\ pc = "idle" /\ asked = "no"
  /\ inv \in Invocations
  /\ ret = 0 /\ said = "nothing" /\ out = "none"
  /\ before = flash /\ calm = TRUE

Named == inv.first .. inv.last

(* The page write-to-ram stages, cut or padded to a page.                  *)
Staged == ImagePage(inv.file, FALSE, 0)

Write(at, heard) ==
  /\ Send(at, heard)
  /\ UNCHANGED <<inv, told, out, history>>

Goto(place) == pc' = place /\ UNCHANGED told
Return(r, words) == pc' = "exit" /\ ret' = r /\ said' = words

Step == UNCHANGED <<inv, out, history>>

(***************************************************************************)
(* isp_connect, whose result main does not look at.                        *)
(***************************************************************************)
AskQuestion == Write("question", HearQuestion)
AskSynchro  == Write("synchro", HearSynchronized)
AskFreq     == Write("freq", HearFrequency)
AskEchoOff  == Write("echo", HearEchoOff)

ReadSynchronized ==
  /\ Reading("question")
  /\ \/ /\ Greeted
        /\ \E s \in Remainders(Tail(rx)) : Unread(s)
        /\ Goto("synchro")
     \/ /\ ~Greeted
        /\ \E s \in Remainders(rx) : Unread(s)
        /\ Return(IF asked = "failed" THEN -5 ELSE -3, "error")
     \/ Unread(<<>>) /\ \E r \in {-4, -3} : Return(r, "error")
  /\ Step

ReadSynchroOk ==
  /\ Reading("synchro")
  /\ \E a \in Acknowledges :
       /\ Unread(a.rest)
       /\ IF a.found = "ok" THEN Goto("freq") ELSE Return(-2, "error")
  /\ Step

(* With no answer the buffer still holds the "OK" of the step before.      *)
ReadFreqOk ==
  /\ Reading("freq")
  /\ \E a \in Acknowledges :
       /\ Unread(a.rest)
       /\ IF a.found = "other" THEN Return(-2, "error") ELSE Goto("echo")
  /\ Step

ReadEchoOff ==
  /\ Reading("echo")
  /\ \E s \in Remainders(rx) : Unread(s)
  /\ Return(1, "opened")
  /\ Step

(***************************************************************************)
(* Before anything is written: the arguments, and the file of write-to-ram.*)
(* Of a file that can not be read, isp_file_to_buff returns -13 in an      *)
(* unsigned variable: it passes for a file of almost 4 GB.                 *)
(***************************************************************************)
NoData(file) == file.readable /\ file.size = 0

(* Mutant of Complaint: an empty file is not looked for.                   *)
ComplaintNoFile ==
  CASE inv.wrong # 0 -> IF inv.cmd = "compare" THEN -1 ELSE inv.wrong
    [] inv.wrong = 0 /\ inv.cmd \in Sectorial /\ inv.last < inv.first -> -6
    [] OTHER -> 0

Complaint ==
  CASE inv.wrong # 0 -> IF inv.cmd = "compare" THEN -1 ELSE inv.wrong
    [] inv.wrong = 0 /\ inv.cmd \in Sectorial /\ inv.last < inv.first -> -6
    [] inv.wrong = 0 /\ inv.cmd = "write" /\ NoData(inv.file) -> -13
    [] OTHER -> 0

CheckArguments ==
  /\ pc = "check"
  /\ IF Complaint # 0 THEN Return(Complaint, "error") ELSE Goto("command")
  /\ UNCHANGED <<part, target, rx, asked>> /\ Step

Fits == inv.mapped /\ (inv.cmd = "write" => inv.file.readable)

Letter(cmd) ==
  IF cmd = "part-id" THEN "J"
  ELSE [unlock |-> "U", uid |-> "N", version |-> "K", write |-> "W", read |-> "R",
        prepare |-> "P", erase |-> "E", blank |-> "I", copy |-> "C",
        compare |-> "M", go |-> "G"][cmd]

(* The line written for the command; "X": one naming memory the part does  *)
(* not have.                                                               *)
HearCommand ==
  \/ inv.cmd \in Addressed /\ ~Fits /\ Obey("X", 0)
  \/ inv.cmd \in Addressed /\ Fits /\ Obey(Letter(inv.cmd), inv.page)
  \/ inv.cmd \in Sectorial /\ Obey(Letter(inv.cmd), Named)
  \/ inv.cmd = "go" /\ Obey("G", IF inv.mapped THEN 1 ELSE 0)
  \/ inv.cmd \in Plain4 /\ Obey(Letter(inv.cmd), 0)

AskCommand == Write("command", HearCommand)

(***************************************************************************)
(* What each wrapper makes of the code.                                    *)
(***************************************************************************)
Done == [unlock |-> "unlocked", prepare |-> "prepared", erase |-> "erased",
         copy |-> "copied", go |-> "started"]

(* Mutant of ReadCode: the code of erase is not looked at.                 *)
ReadCodeBlind ==
  /\ Reading("command") /\ inv.cmd \in DOMAIN Done
  /\ \E g \in Replies :
       /\ Unread(g.rest)
       /\ IF g.code = 0 \/ inv.cmd = "erase" THEN Return(0, Done[inv.cmd])
          ELSE Return(IF inv.cmd = "go" /\ g.code < 0 THEN g.code + 1
                      ELSE IF inv.cmd \in {"unlock", "go"} THEN -1 ELSE g.code, "error")
  /\ Step

(* Mutant of ReadCode: a command not answered is given once more.          *)
ReadCodeAgain ==
  /\ Reading("command") /\ inv.cmd \in DOMAIN Done
  /\ \E g \in Replies :
       /\ Unread(g.rest)
       /\ IF g.code = 0 THEN Return(0, Done[inv.cmd])
          ELSE IF g.code = -4 THEN Goto("command")
          ELSE Return(g.code, "error")
  /\ Step

(* Codes are returned as they are, but for unlock and go; go has values of *)
(* its own for a write that failed and for no answer.                      *)
ReadCode ==
  /\ Reading("command") /\ inv.cmd \in DOMAIN Done
  /\ \E g \in Replies :
       /\ Unread(g.rest)
       /\ IF g.code = 0 THEN Return(0, Done[inv.cmd])
          ELSE Return(IF inv.cmd = "go" /\ g.code < 0 THEN g.code + 1
                      ELSE IF inv.cmd \in {"unlock", "go"} THEN -1 ELSE g.code, "error")
  /\ Step

(* The id is returned, and so is a code that is not 0.                     *)
ReadPart ==
  /\ Reading("command") /\ inv.cmd = "part-id"
  /\ \E g \in Replies : \E p \in PartIds(g) :
       Unread(p.rest) /\ Return(p.id, IF g.code = 0 /\ p.id >= 0 THEN "words" ELSE "error")
  /\ Step

(* What follows a code is read with one more read: value s is what the     *)
(* command returns when nothing came.                                      *)
MoreRead(g, silent, r, words) ==
  \/ /\ g.rest # <<>>
     /\ \E s \in Remainders(g.rest) : Unread(s)
     /\ Return(r, words)
  \/ /\ \E s \in Remainders(g.rest) : Unread(s)
     /\ Return(silent, "error")

ReadUidVersion ==
  /\ Reading("command") /\ inv.cmd \in {"uid", "version"}
  /\ \E g \in Replies :
       \/ g.code # 0 /\ Unread(g.rest) /\ Return(g.code, "error")
       \/ g.code = 0 /\ MoreRead(g, -2, 0, "words")
  /\ Step

(* blank-check knows four codes; with any other one it says nothing, and   *)
(* returns 0 too.                                                          *)
ReadBlank ==
  /\ Reading("command") /\ inv.cmd = "blank"
  /\ \E g \in Replies :
       \/ g.code < 0 /\ Unread(g.rest) /\ Return(g.code, "error")
       \/ g.code = CMD_SUCCESS /\ Unread(g.rest) /\ Return(0, "blank")
       \/ g.code = SECTOR_NOT_BLANK /\ MoreRead(g, -3, 0, "used")
       \/ /\ g.code \in {INVALID_SECTOR, PARAM_ERROR}
          /\ Unread(g.rest) /\ Return(IF g.code = INVALID_SECTOR THEN -2 ELSE -1, "error")
       \/ /\ g.code > 0 /\ g.code \notin {SECTOR_NOT_BLANK, INVALID_SECTOR, PARAM_ERROR}
          /\ Unread(g.rest) /\ Return(0, "nothing")
  /\ Step

ReadCompare ==
  /\ Reading("command") /\ inv.cmd = "compare"
  /\ \E g \in Replies :
       \/ g.code = CMD_SUCCESS /\ Unread(g.rest) /\ Return(0, "equal")
       \/ g.code = COMPARE_ERROR /\ MoreRead(g, -3, 0, "differ")
       \/ g.code \notin {CMD_SUCCESS, COMPARE_ERROR} /\ Unread(g.rest) /\ Return(-1, "error")
  /\ Step

(* What isp_read_memory returns and has put in its buffer: all of it, a    *)
(* beginning, or nothing; the code it was refused with is returned as if   *)
(* it were a count of bytes.                                               *)
Received(code) ==
  IF code # 0 THEN {[len |-> code, data |-> "garbage"]}
  ELSE (IF mode = "synced" THEN {[len |-> PageSize(part), data |-> "whole"]} ELSE {})
       \cup (IF inv.encode THEN {[len |-> n, data |-> "part"] : n \in {0, 1}}
             ELSE {[len |-> 1, data |-> "part"], [len |-> -6, data |-> "garbage"]})

Reported == [whole |-> "read", part |-> "short", garbage |-> "error"]

(* As many bytes of the buffer are written as were counted.  -1: the file  *)
(* can not be opened, -2: the write fails, as it does for a negative count *)
(* (a huge one to write), with the file opened and emptied before.         *)
ReadOut ==
  /\ Reading("command") /\ inv.cmd = "read"
  /\ \E g \in Replies : \E m \in Received(g.code) :
       /\ \E s \in Remainders(g.rest) : rx' = s
       /\ pending' \in LeftWaiting(g.code, inv.encode)
       /\ \/ out' = "none" /\ Return(-1, "error")
          \/ out' \in {"part", "garbage"} /\ Return(-2, "error")
          \/ m.len >= 0 /\ out' = m.data /\ Return(m.len, Reported[m.data])
  /\ UNCHANGED <<part, mode, echo, unlocked, prepared, ram, flash, inv, history>>

ReadWriteRam ==
  /\ Reading("command") /\ inv.cmd = "write"
  /\ \E g \in Replies :
       /\ Unread(g.rest)
       /\ IF g.code # 0 THEN Return(-8, "error") ELSE Goto("data")
  /\ Step

(* The transfer of the data, as in lpcprog: encoded, an answer to each     *)
(* block; raw, nothing comes back.                                         *)
SendData ==
  /\ pc = "data" /\ UNCHANGED <<part, rx, asked>>
  /\ \/ InRam(Staged)
     \/ ~inv.encode /\ NoisyLine /\ (InRam(Garbage) \/ Spilled(Staged))
     \/ ~inv.encode /\ ~(mode = "synced" /\ pending = "data") /\ Spilled(Staged)
  /\ Return(0, "sent")
  /\ Step

(* Mutant of SendFailed: what the transfer returns is not looked at.       *)
SendFailedBlind ==
  /\ pc = "data" /\ UNCHANGED <<part, asked>>
  /\ Return(0, "sent")
  /\ Spilled(Staged)
  /\ \E s \in Remainders(rx \o <<RESEND>>) : rx' = s
  /\ Step

SendFailed ==
  /\ pc = "data" /\ UNCHANGED <<part, asked>>
  /\ \E r \in IF inv.encode THEN {-6, -5, -2} ELSE {-7} : Return(r, "error")
  /\ Spilled(Staged)
  /\ \E s \in Remainders(rx \o <<RESEND>>) : rx' = s
  /\ Step

(***************************************************************************)
(* The user.                                                               *)
(***************************************************************************)
Start ==
  /\ pc \in {"idle", "exit"}
  /\ inv' \in Invocations
  /\ pc' = (IF inv'.cmd = "sync" THEN "question" ELSE "check") /\ asked' = "no"
  /\ ret' = 0 /\ said' = "nothing" /\ out' = "none"
  /\ rx' \in Remainders(rx)
  /\ before' = flash /\ calm' = TRUE
  /\ UNCHANGED <<part, target>>

Kill ==
  /\ pc \in Running
  /\ pc' = "idle" /\ asked' = "no"
  /\ Lost
  /\ UNCHANGED <<part, inv, told, out, history>>

PressReset ==
  /\ Restarted /\ calm' = FALSE
  /\ UNCHANGED <<part, flash, rx, host, before>>

PressResetDuring(name, op, arg) ==
  /\ pc = "command" /\ asked = "no" /\ inv.cmd = name
  /\ CutShort(op, arg) /\ asked' = "sent" /\ calm' = FALSE
  /\ UNCHANGED <<part, pc, inv, told, out, before>>

PressResetErasing == PressResetDuring("erase", "E", Named)
PressResetCopying == Fits /\ PressResetDuring("copy", "C", inv.page)

(***************************************************************************)
(* Specification.                                                          *)
(***************************************************************************)
Connect == \/ AskQuestion \/ ReadSynchronized \/ AskSynchro \/ ReadSynchroOk
           \/ AskFreq \/ ReadFreqOk \/ AskEchoOff \/ ReadEchoOff
Command == \/ CheckArguments \/ AskCommand \/ ReadCode \/ ReadPart \/ ReadUidVersion
           \/ ReadBlank \/ ReadCompare \/ ReadOut \/ ReadWriteRam
           \/ SendData \/ SendFailed

Program == Connect \/ Command

Next == Program \/ Start \/ Kill \/ PressReset \/ PressResetErasing \/ PressResetCopying

Spec == Init /\ [][Next]_vars

(* Every wait of the program ends with text or with a timeout.             *)
FairSpec == Spec /\ WF_vars(Program)

(***************************************************************************)
(* Properties.                                                             *)
(***************************************************************************)

(* What the RAM buffer and the flash hold of a file is of one that has     *)
(* something in it.                                                        *)
Filled ==
  \A c \in {ram} \cup {flash[b] : b \in Pages(part)} : c.kind = "image" => ~NoData(c.file)

(* Every variable keeps its type; no page is one of a file with nothing in *)
(* it.                                                                     *)
TypeOK ==
  /\ TargetTypeOK
  /\ pc \in Running \cup {"idle", "exit"} /\ asked \in {"no", "sent", "failed"}
  /\ inv \in Invocations /\ ret \in Int
  /\ said \in {"nothing", "error", "opened", "started", "words", "blank", "used", "equal",
               "differ", "read", "short", "sent", "unlocked", "prepared", "erased", "copied"}
  /\ out \in {"none", "whole", "part", "garbage"}
  /\ DOMAIN before = Pages(part) /\ calm \in BOOLEAN
  /\ Filled

Fresh == pc = "exit" /\ calm

(* What the user is told is so, in a session whose echo is off: sectors    *)
(* said blank or erased are blank, a page said copied holds the RAM buffer *)
(* (if it was blank when the run began), "equal" and "differ" are right,   *)
(* data sent encoded is in RAM.  A user who goes by these messages never   *)
(* builds on a step that was refused.  A session said opened is at least   *)
(* as far as the question for the frequency.                               *)
ReportIsTrue ==
  /\ Fresh /\ ~echo =>
       /\ said = "unlocked" => unlocked
       /\ said = "prepared" => Named \subseteq prepared
       /\ said \in {"erased", "blank"} => BlankSectors(Named)
       /\ said = "used" => ~BlankSectors(Named)
       /\ said = "copied" /\ before[inv.page] = Blank => flash[inv.page] = ram
       /\ said = "equal" => flash[inv.page] = ram
       /\ said = "differ" => flash[inv.page] # ram \/ ram = Garbage
       /\ said = "sent" /\ inv.encode => ram = Staged
  /\ Fresh /\ said = "opened" => mode \in {"ask", "synced"}

(* A command that comes back with a code of the target did nothing to the  *)
(* flash, with the echo on or off: the user may give it again.             *)
RefusalIsTrue ==
  pc = "exit" /\ ret > 0 /\ inv.cmd \in Sectorial \cup Addressed => flash = before

(* After a run that did not end with an error the target waits for a line, *)
(* with nothing left over of this one: the next command, which may be an   *)
(* erase, is not taken for data nor spoiled.  Not so after raw data, whose *)
(* loss nobody notices, nor after an encoded read, whose last "OK" may not *)
(* get there.                                                              *)
AnsweredMeansReady ==
  Fresh /\ ~echo /\ mode = "synced" /\ said \notin {"error", "nothing", "opened"} =>
    \/ pending = "line"
    \/ said = "sent" /\ ~inv.encode
    \/ inv.cmd = "read" /\ inv.encode /\ pending = "stray"

(* What isp_commands.c:109 says, and the program does not do: "Return      *)
(* positive or NULL value when connection is OK".  A session said opened   *)
(* is one in which the target takes commands.                              *)
OpenedIsSynchronised == Fresh /\ said = "opened" => mode = "synced"

(* Every run of the program comes to an end.                               *)
Finishes == pc \in Running ~> pc \in {"idle", "exit"}
=============================================================================
