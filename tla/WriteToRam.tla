----------------------------- MODULE WriteToRam -----------------------------
(***************************************************************************)
(* The encoded transfer of isp_send_buf_to_ram (isp_commands.c): once the  *)
(* boot loader has accepted a write-to-ram command, the data goes block by *)
(* block, each with its checksum, and the target answers each with "OK" or *)
(* "RESEND".                                                               *)
(*                                                                         *)
(* Blocks may be altered or lost on the line, their answers lost, late or  *)
(* read in pieces, but no answer is altered: an "OK" is always one that    *)
(* the target sent.                                                        *)
(***************************************************************************)
EXTENDS EncodedBlocks

CONSTANT Counts   \* sizes of the data

ASSUME TransferAssumption == Counts \subseteq Nat \ {0}

VARIABLES
  count,   \* size of the data
  split,   \* a reply may be read before all of it has arrived
  pc,      \* "send": at the top of the loop, "ack": waiting, "done": returned
  i,       \* the block counter
  total_bytes_sent,
  resend_requested_for_block,
  ret,     \* value returned
  due,     \* target: bytes it still expects
  ram,     \* target: the bytes it stored, in order
  refused, \* target: how often it asked again for the block it expects
           \* (3: three times or more)
  replies  \* text on its way to the host

host == <<pc, i, total_bytes_sent, resend_requested_for_block, ret>>
target == <<due, ram, refused, replies>>
vars == <<count, split, host, target>>

(* The host reads four characters or more at a time, and "RESEND\r\n" has  *)
(* eight; "error" is the code for a line that is no command.               *)
Pieces == {"OK", "RESE", "ND", "error"}
Resend == <<"RESE", "ND">>

(* Mutant of Blocks: an incomplete last block is not counted.              *)
BlocksWhole == count \div MAX_DATA_BLOCK_SIZE

Blocks == get_nb_blocks(count)

datasize == MinOf(count - total_bytes_sent, MAX_DATA_BLOCK_SIZE)

Init ==
  /\ count \in Counts /\ split \in BOOLEAN
  /\ pc = "send" /\ i = 0 /\ total_bytes_sent = 0
  /\ resend_requested_for_block = 0 /\ ret = 0
  /\ due = count /\ ram = <<>> /\ refused = 0 /\ replies = <<>>

(***************************************************************************)
(* What the target does with the block the host sends.                     *)
(***************************************************************************)
Accept(size) ==
  /\ ram' = ram \o Bytes(total_bytes_sent, total_bytes_sent + size)
  /\ due' = due - size
  /\ refused' = 0
  /\ replies' = Append(replies, "OK")

Refuse ==
  /\ replies' = replies \o Resend
  /\ refused' = MinOf(refused + 1, 3)
  /\ UNCHANGED <<due, ram>>

(* It expects nothing more: lines of data are command lines to it.         *)
Misread ==
  /\ replies' = Append(replies, "error")
  /\ UNCHANGED <<due, ram, refused>>

(* More than it expects: what fits, or a checksum that is not where it     *)
(* should be.                                                              *)
Hear ==
  \/ datasize <= due /\ Accept(datasize)
  \/ datasize > due /\ due > 0 /\ (Accept(due) \/ Refuse)
  \/ due = 0 /\ Misread

HearAltered ==
  \/ due > 0 /\ Refuse
  \/ due = 0 /\ Misread

(***************************************************************************)
(* The loop.                                                               *)
(***************************************************************************)
SendBlock ==
  /\ pc = "send" /\ i < Blocks
  /\ pc' = "ack"
  /\ \/ Hear
     \/ HearAltered
     \/ \* part of it is lost, and the target waits for the end of a line
        UNCHANGED target
  /\ UNCHANGED <<count, split, i, total_bytes_sent, resend_requested_for_block, ret>>

Return(r) == pc' = "done" /\ ret' = r

SendBroken ==
  /\ pc = "send" /\ i < Blocks
  /\ Return(-6)
  /\ UNCHANGED <<count, split, i, total_bytes_sent, resend_requested_for_block, target>>

(* What a read takes off the line: everything, or the first pieces of it.  *)
Taken == IF split THEN 1 .. Len(replies) ELSE {Len(replies)}

Read ==
  /\ pc = "ack" /\ replies # <<>>
  /\ \E n \in Taken : replies' = SubSeq(replies, n + 1, Len(replies))
  /\ UNCHANGED <<count, split, due, ram, refused>>

(* Mutants of ReadOk: the counter of refusals is never reset; the end of a *)
(* split "RESEND" passes for an acknowledge.                               *)
ReadOkNoReset ==
  /\ Read /\ Head(replies) = "OK"
  /\ total_bytes_sent' = total_bytes_sent + datasize
  /\ i' = i + 1
  /\ pc' = "send" /\ UNCHANGED <<ret, resend_requested_for_block>>

ReadOkOrEnd ==
  /\ Read /\ Head(replies) \in {"OK", "ND"}
  /\ total_bytes_sent' = total_bytes_sent + datasize
  /\ resend_requested_for_block' = 0
  /\ i' = i + 1
  /\ pc' = "send" /\ UNCHANGED ret

ReadOk ==
  /\ Read /\ Head(replies) = "OK"
  /\ total_bytes_sent' = total_bytes_sent + datasize
  /\ resend_requested_for_block' = 0
  /\ i' = i + 1
  /\ pc' = "send" /\ UNCHANGED ret

(* Mutants of ReadOther: a fourth attempt is made, as isp_read_memory      *)
(* does; the counter starts again with every block; the data is counted as *)
(* sent.                                                                   *)
ReadOtherFour ==
  /\ Read /\ Head(replies) # "OK"
  /\ resend_requested_for_block' = resend_requested_for_block + 1
  /\ IF resend_requested_for_block' > 3 THEN Return(-2) ELSE pc' = "send" /\ UNCHANGED ret
  /\ UNCHANGED <<i, total_bytes_sent>>

ReadOtherFromZero ==
  /\ Read /\ Head(replies) # "OK"
  /\ resend_requested_for_block' = 1
  /\ IF resend_requested_for_block' >= 3 THEN Return(-2) ELSE pc' = "send" /\ UNCHANGED ret
  /\ UNCHANGED <<i, total_bytes_sent>>

ReadOtherCounted ==
  /\ Read /\ Head(replies) # "OK"
  /\ resend_requested_for_block' = resend_requested_for_block + 1
  /\ IF resend_requested_for_block' >= 3 THEN Return(-2) ELSE pc' = "send" /\ UNCHANGED ret
  /\ total_bytes_sent' = total_bytes_sent + datasize
  /\ UNCHANGED i

(* Anything else is a request to send the block again; i-- undoes i++.     *)
ReadOther ==
  /\ Read /\ Head(replies) # "OK"
  /\ resend_requested_for_block' = resend_requested_for_block + 1
  /\ IF resend_requested_for_block' >= 3 THEN Return(-2) ELSE pc' = "send" /\ UNCHANGED ret
  /\ UNCHANGED <<i, total_bytes_sent>>

(* Mutant of ReadNothing: the block is taken for received.                 *)
ReadNothingGoOn ==
  /\ pc = "ack"
  /\ pc' = "send" /\ i' = i + 1 /\ total_bytes_sent' = total_bytes_sent + datasize
  /\ UNCHANGED <<count, split, resend_requested_for_block, ret, target>>

(* Nothing came in 500 ms; what had to come may still come later.          *)
ReadNothing ==
  /\ pc = "ack"
  /\ Return(-5)
  /\ UNCHANGED <<count, split, i, total_bytes_sent, resend_requested_for_block, target>>

LoopEnds ==
  /\ pc = "send" /\ i = Blocks
  /\ Return(0)
  /\ UNCHANGED <<count, split, i, total_bytes_sent, resend_requested_for_block, target>>

Next == SendBlock \/ SendBroken \/ ReadOk \/ ReadOther \/ ReadNothing \/ LoopEnds

Spec == Init /\ [][Next]_vars

FairSpec == Spec /\ WF_vars(Next)

(***************************************************************************)
(* Properties.                                                             *)
(***************************************************************************)

(* Every variable keeps its type.                                          *)
TypeOK ==
  /\ count \in Counts
  /\ pc \in {"send", "ack", "done"} /\ ret \in {0, -2, -5, -6}
  /\ i \in 0 .. Blocks
  /\ total_bytes_sent \in 0 .. count /\ resend_requested_for_block \in 0 .. 3
  /\ due \in 0 .. count /\ ram \in Seq(0 .. count - 1) /\ refused \in 0 .. 3
  /\ replies \in Seq(Pieces) /\ split \in BOOLEAN

(* When isp_send_buf_to_ram returns 0 all the data is in RAM, every byte   *)
(* once and in its place, and the target is ready for a command with       *)
(* nothing of the transfer left on the line: a left-over reply would be    *)
(* taken for the code of the copy command that follows.  This and the next *)
(* two are of answers read whole.                                          *)
DeliveredWhole ==
  ~split /\ pc = "done" /\ ret = 0 => ram = Bytes(0, count) /\ due = 0 /\ replies = <<>>

(* The two ends agree on the block that is next whenever one is sent: a    *)
(* refused or doubled block never shifts the rest of the data.             *)
InStep ==
  ~split /\ pc = "send" =>
    total_bytes_sent = count - due /\ ram = Bytes(0, total_bytes_sent)

(* isp_commands.c:571 "Block %d still wrong after 3 attempts, aborting.":  *)
(* the transfer is given up when the target refused a block three times.   *)
GivesUpAfterThree == pc = "done" /\ ret = -2 => refused >= 3

(* It is so of answers read whole: refusals of blocks sent before do not   *)
(* count, nor does anything but a refusal.                                 *)
GivesUpForRefusals == ~split => GivesUpAfterThree

(* Split or not, a success means that as many bytes were stored as were to *)
(* be sent, though not always the right ones.                              *)
NeverShort == pc = "done" /\ ret = 0 => due = 0

(* The transfer ends, however often the target asks for a block again, as  *)
(* long as the host counts how often it did: nothing else limits it.       *)
Terminates == <>(pc = "done")

(***************************************************************************)
(* The abstract transfer.                                                  *)
(***************************************************************************)
Result == IF pc # "done" THEN "busy" ELSE IF ret = 0 THEN "whole" ELSE "failed"

(* A transfer whose answers are read in pieces maps to one that has not    *)
(* begun: of those nothing is claimed here.                                *)
DT == INSTANCE DataTransfer WITH
        copy <- IF split THEN <<>> ELSE ram, result <- IF split THEN "busy" ELSE Result

(* With answers read whole the transfer is a data transfer: RAM only ever  *)
(* holds a prefix.                                                         *)
ImplementsDataTransfer == DT!Spec
=============================================================================
