----------------------------- MODULE ReadMemory -----------------------------
(***************************************************************************)
(* The encoded transfer of isp_read_memory (isp_commands.c): once the boot *)
(* loader has accepted a read-memory command, it sends the data block by   *)
(* block, each with its checksum, and waits for "OK" or "RESEND" after     *)
(* each.  Bytes are given by their offset in the data.                     *)
(*                                                                         *)
(* A checksum is assumed to tell a block from anything else, the text of a *)
(* block to arrive without a gap as long as the timeout, and a reply of    *)
(* the host to be heard as it was sent or not at all.                      *)
(***************************************************************************)
EXTENDS EncodedBlocks

CONSTANTS
  Counts,    \* sizes of the data
  Split,     \* a block may be read before all of its text has arrived
  MaxNoise   \* bound on the texts altered or lost on the line

ASSUME TransferAssumption ==
  /\ Counts \subseteq Nat \ {0}
  /\ Split \in BOOLEAN /\ MaxNoise \in Nat

VARIABLES
  count,   \* size of the data
  pc,      \* "read": waiting for a block, "done": returned
  i,       \* the block counter
  total_bytes_received, \* also the value returned
  data,    \* the bytes received
  resend_request_for_block,
  ret,     \* why the loop ended, known only inside the function
  pos,     \* target: where the block it sends starts
  sends,   \* target: how often it sent that block
  line,    \* text on its way to the host
  noise,   \* texts altered or lost so far
  strayed  \* an "OK" was lost while the end of its block was still unread

host == <<pc, i, total_bytes_received, data, resend_request_for_block, ret>>
vars == <<count, host, pos, sends, line, noise, strayed>>

Blocks == get_nb_blocks(count)

Size(from) == MinOf(count - from, MAX_DATA_BLOCK_SIZE)

(***************************************************************************)
(* The text of a block: its lines but for a few characters, these, the     *)
(* first three characters of the checksum line, and the rest of it.        *)
(***************************************************************************)
Parts == <<"lines", "last", "digits", "rest">>
Piece(at, part, good) == [at |-> at, part |-> part, good |-> good]
Text(at, good) == [n \in 1 .. 4 |-> Piece(at, Parts[n], good)]

(* What the two reads of a block take: blocksize characters, then three    *)
(* more unless there already were some.                                    *)
EndsWithDigits(w) == Len(w) >= 3 /\ w[1].part = "lines"
Full(w) ==
  \/ EndsWithDigits(w)
  \/ w[1].part # "lines" /\ \E n \in 2 .. Len(w) : w[n].part = "lines"
Windows ==
  {n \in 1 .. Len(line) : n = Len(line) \/ (Split /\ Full(SubSeq(line, 1, n)))}

(* Mutant of Passes: the checksum is not compared.                         *)
PassesUnchecked(w) == Len(w) >= 1

(* A block in its place, unaltered; when the end of its checksum line is   *)
(* missing, the buffer may still hold it from an earlier sending.          *)
Passes(w) == Len(w) >= 3 /\ \A n \in 1 .. 3 : w[n] = Piece(w[1].at, Parts[n], TRUE)

Undecided(w) == Passes(w) /\ Len(w) = 3

(* The target sends the block at from; before it the line holds what was   *)
(* not read.                                                               *)
SendText(unread, from) ==
  /\ pos' = from
  /\ sends' = IF from = pos THEN sends + 1 ELSE 1
  /\ \/ line' = unread \o Text(from, TRUE) /\ UNCHANGED noise
     \/ /\ noise < MaxNoise /\ noise' = noise + 1
        /\ line' \in {unread, unread \o Text(from, FALSE)}

(* It has nothing more to send, or did not hear.                           *)
Silent(unread) == line' = unread /\ UNCHANGED <<pos, sends>>

HearOk(unread) ==
  \/ pos + Size(pos) < count /\ SendText(unread, pos + Size(pos)) /\ UNCHANGED strayed
  \/ pos + Size(pos) >= count /\ Silent(unread) /\ UNCHANGED <<noise, strayed>>
  \/ /\ noise < MaxNoise /\ noise' = noise + 1 /\ Silent(unread)
     /\ strayed' = (strayed \/ unread # <<>>)

HearResend(unread) ==
  \/ SendText(unread, pos)
  \/ noise < MaxNoise /\ noise' = noise + 1 /\ Silent(unread)

Init ==
  /\ count \in Counts
  /\ pc = "read" /\ i = 0 /\ total_bytes_received = 0 /\ data = <<>>
  /\ resend_request_for_block = 0 /\ ret = 0
  /\ pos = 0 /\ sends = 1
  /\ \/ line = Text(0, TRUE) /\ noise = 0
     \/ MaxNoise > 0 /\ noise = 1 /\ line \in {<<>>, Text(0, FALSE)}
  /\ strayed = FALSE

(***************************************************************************)
(* The loop.                                                               *)
(***************************************************************************)
Return(r) == pc' = "done" /\ ret' = r

(* A block of the reply is awaited; w is what is read of the line.         *)
Reading == pc = "read" /\ i < Blocks
Window(n) == SubSeq(line, 1, n)
Unread(n) == SubSeq(line, n + 1, Len(line))
Received(w) == data \o Bytes(w[1].at, w[1].at + Size(total_bytes_received))

(* Mutant of AcceptBlock: the block is not counted.                        *)
AcceptBlockUncounted ==
  /\ Reading
  /\ \E n \in Windows :
       /\ Passes(Window(n))
       /\ data' = Received(Window(n))
       /\ HearOk(Unread(n))
  /\ resend_request_for_block' = 0
  /\ i' = i + 1
  /\ UNCHANGED <<count, pc, ret, total_bytes_received>>

AcceptBlock ==
  /\ Reading
  /\ \E n \in Windows :
       /\ Passes(Window(n))
       /\ data' = Received(Window(n))
       /\ HearOk(Unread(n))
  /\ resend_request_for_block' = 0
  /\ total_bytes_received' = total_bytes_received + Size(total_bytes_received)
  /\ i' = i + 1
  /\ UNCHANGED <<count, pc, ret>>

(* The acknowledge can not be sent: the block is not counted.              *)
AcceptFails ==
  /\ Reading
  /\ \E n \in Windows : Passes(Window(n)) /\ line' = Unread(n)
  /\ resend_request_for_block' = 0
  /\ Return(-4)
  /\ UNCHANGED <<count, i, total_bytes_received, data, pos, sends, noise, strayed>>

(* Mutant of TooOften: one more attempt.                                   *)
TooOftenByOne == resend_request_for_block + 1 > 4
TooOften == resend_request_for_block + 1 > 3

Rejected(n) == ~Passes(Window(n)) \/ Undecided(Window(n))

(* i-- undoes i++.                                                         *)
RejectBlock ==
  /\ Reading
  /\ ~TooOften
  /\ resend_request_for_block' = resend_request_for_block + 1
  /\ \E n \in Windows : Rejected(n) /\ HearResend(Unread(n))
  /\ UNCHANGED <<count, pc, i, total_bytes_received, data, ret, strayed>>

RejectFails ==
  /\ Reading
  /\ ~TooOften
  /\ resend_request_for_block' = resend_request_for_block + 1
  /\ \E n \in Windows : Rejected(n) /\ line' = Unread(n)
  /\ Return(-1)
  /\ UNCHANGED <<count, i, total_bytes_received, data, pos, sends, noise, strayed>>

GiveUp ==
  /\ Reading
  /\ TooOften
  /\ resend_request_for_block' = resend_request_for_block + 1
  /\ \E n \in Windows : Rejected(n) /\ line' = Unread(n)
  /\ Return(-2)
  /\ UNCHANGED <<count, i, total_bytes_received, data, pos, sends, noise, strayed>>

(* Mutant of ReadNothing: the read is tried again.                         *)
ReadNothingAgain == Reading /\ UNCHANGED vars

(* Nothing came in 500 ms, or the line can not be read.                    *)
ReadNothing ==
  /\ Reading
  /\ Return(-6)
  /\ UNCHANGED <<count, i, total_bytes_received, data, resend_request_for_block>>
  /\ UNCHANGED <<pos, sends, line, noise, strayed>>

LoopEnds ==
  /\ pc = "read" /\ i = Blocks
  /\ Return(0)
  /\ UNCHANGED <<count, i, total_bytes_received, data, resend_request_for_block>>
  /\ UNCHANGED <<pos, sends, line, noise, strayed>>

Next == \/ AcceptBlock \/ AcceptFails \/ RejectBlock \/ RejectFails \/ GiveUp
        \/ ReadNothing \/ LoopEnds

Spec == Init /\ [][Next]_vars

FairSpec == Spec /\ WF_vars(Next)

(***************************************************************************)
(* Properties.                                                             *)
(***************************************************************************)

(* Every variable keeps its type.                                          *)
TypeOK ==
  /\ count \in Counts
  /\ pc \in {"read", "done"} /\ ret \in {0, -1, -2, -4, -6}
  /\ i \in 0 .. Blocks
  /\ total_bytes_received \in 0 .. count /\ data \in Seq(0 .. count - 1)
  /\ resend_request_for_block \in 0 .. 4
  /\ pos \in 0 .. count - 1 /\ sends \in Nat /\ noise \in 0 .. MaxNoise /\ strayed \in BOOLEAN
  /\ line \in Seq([at: 0 .. count - 1, part: {"lines", "last", "digits", "rest"},
                   good: BOOLEAN])

(* What isp_read_memory says it read it has read, every byte once and in   *)
(* its place, even when blocks were refused because their checksum was     *)
(* read too early and their ends were left in front of the next block.     *)
(* Only an "OK" lost at such a moment can shift the data: the left-over is *)
(* refused, and a block that was accepted is sent again.                   *)
ReceivedInPlace == ~strayed => data = Bytes(0, total_bytes_received)

(* Both ends mean the same block: what the line brings is the block the    *)
(* host waits for, or the left-overs of the one before.                    *)
SameBlock ==
  ~strayed /\ pc = "read" =>
    \A n \in 1 .. Len(line) :
      line[n].part = "lines" => line[n].at = total_bytes_received

(* The transfer ends, however often blocks have to be sent again.          *)
Terminates == <>(pc = "done")
=============================================================================
