----------------------------- MODULE SerialLine ------------------------------
(***************************************************************************)
(* The serial line, character by character (isp_utils.c): the three calls  *)
(* everything else reads and writes through, isp_serial_write,             *)
(* isp_serial_read and isp_serial_empty_buffer, with the one character the *)
(* last of them may give back.  Characters arrive at any moment between    *)
(* two system calls, a poll that finds nothing sleeps 5 ms, and the device *)
(* may be unplugged.                                                       *)
(***************************************************************************)
EXTENDS UuCode

CONSTANTS
  Texts,   \* what may be sent: sequences of Chars
  Blocks,  \* or encoded blocks: <<data, what follows the data in memory>>
  Reads,   \* the calls of isp_serial_read, as <<buf_size, min_read>>
  Writes,  \* the sizes given to isp_serial_write
  Room,    \* characters the driver accepts before the line carries one away
  Polls    \* bound of the polls of one call, 100 in the code

XON == 17
XOFF == 19
(* A NUL can not be given back; the boot loader sends none but in raw      *)
(* data, which nothing is thrown away of.                                  *)
Chars == 1 .. 255

ASSUME LineAssumption ==
  /\ Texts \subseteq Seq(Chars)
  /\ \A b \in Blocks : b[1] \in Seq(Bytes) /\ Len(b[1]) <= MAX_DATA_BLOCK_SIZE
                      /\ b[2] \in Seq(Bytes) /\ Len(b[2]) >= 2
  /\ Reads \subseteq Nat \X Nat /\ Writes \subseteq Nat
  /\ Room \in Nat \ {0} /\ Polls \in Nat

VARIABLES
  coming,   \* characters the target sends from now on
  arrived,  \* characters the driver holds for the next read
  room,     \* characters the driver accepts now
  stopped,  \* the target asked the driver to stop sending
  up,       \* the device is plugged in
  pc,       \* the call under way and where it is, or "idle"
  size, least,     \* buf_size and min_read
  buf,      \* characters read by this call; "unused" of empty_buffer
  count,    \* characters written by this call
  next_read_char,  \* the character given back, or 0
  loops,
  last,     \* the last call
  ret,      \* what it returned
  ahead,    \* history: what could still be read when the call began
  waited    \* history: polls of this call that found nothing to do

line == <<coming, arrived, room, stopped, up>>
history == <<ahead, waited>>
arguments == <<size, least>>
vars == <<line, pc, arguments, buf, count, next_read_char, loops, last, ret, history>>

(* IXON, IXOFF: the driver keeps two characters for itself.                *)
IsText(c) == c \notin {XON, XOFF}
TextOf(s) == FlattenSeq([k \in DOMAIN s |-> IF IsText(s[k]) THEN <<s[k]>> ELSE <<>>])

(* What reads to come would return.                                        *)
GivenBack == IF next_read_char = 0 THEN <<>> ELSE <<next_read_char>>
Ahead == GivenBack \o arrived \o TextOf(coming)

Init ==
  /\ coming \in Texts \cup {isp_uu_encode(b[1], b[2]) : b \in Blocks}
  /\ arrived = <<>> /\ room = Room /\ stopped = FALSE /\ up = TRUE
  /\ pc = "idle" /\ size = 0 /\ least = 0 /\ buf = <<>> /\ count = 0
  /\ next_read_char = 0 /\ loops = 0 /\ last = "none" /\ ret = 0
  /\ ahead = <<>> /\ waited = 0

(***************************************************************************)
(* The line.                                                               *)
(***************************************************************************)
HostWaits == UNCHANGED <<pc, arguments, buf, count, next_read_char, loops, last, ret, history>>

Arrive ==
  /\ coming # <<>> /\ coming' = Tail(coming)
  /\ IF IsText(Head(coming))
     THEN arrived' = Append(arrived, Head(coming)) /\ UNCHANGED stopped
     ELSE stopped' = (Head(coming) = XOFF) /\ UNCHANGED arrived
  /\ UNCHANGED <<room, up>> /\ HostWaits

Drain ==
  /\ room < Room /\ ~stopped /\ room' = room + 1
  /\ UNCHANGED <<coming, arrived, stopped, up>> /\ HostWaits

Unplug ==
  /\ up /\ up' = FALSE
  /\ coming' = <<>> /\ arrived' = <<>>
  /\ UNCHANGED <<room, stopped>> /\ HostWaits

(***************************************************************************)
(* Entering and leaving a call.                                            *)
(***************************************************************************)
Enter(place, sz, least_) ==
  /\ pc = "idle"
  /\ pc' = place /\ size' = sz /\ least' = least_ /\ count' = 0
  /\ last' = place /\ ret' = 0 /\ ahead' = Ahead /\ waited' = 0
  /\ UNCHANGED line

(* Every caller of isp_serial_empty_buffer reads before it does anything   *)
(* else: no given back character is ever there for another call.           *)
ReadFirst == last # "empty"

Return(r) == pc' = "idle" /\ ret' = r

(* Mutant of Poll: one poll too many.                                      *)
PollOnceMore(enough, r) ==
  /\ waited' = waited + 1
  /\ IF loops > Polls + 1 THEN Return(r) /\ UNCHANGED loops
     ELSE /\ loops' = loops + 1
          /\ IF enough THEN Return(r) ELSE UNCHANGED <<pc, ret>>

(* A poll that found nothing to do: the call sleeps 5 ms and goes on, or   *)
(* gives up with r.  Its loop goes back to its condition, enough, first.   *)
Poll(enough, r) ==
  /\ waited' = waited + 1
  /\ IF loops > Polls THEN Return(r) /\ UNCHANGED loops
     ELSE /\ loops' = loops + 1
          /\ IF enough THEN Return(r) ELSE UNCHANGED <<pc, ret>>

(***************************************************************************)
(* isp_serial_read.                                                        *)
(***************************************************************************)

(* Mutant of CallRead: the count of polls is not started again.            *)
CallReadStatic(sz, n) ==
  /\ n <= sz
  /\ Enter("read", sz, n)
  /\ buf' = GivenBack /\ next_read_char' = 0
  /\ UNCHANGED loops

(* Mutant of CallRead: the character given back is not taken from there.   *)
CallReadKeep(sz, n) ==
  /\ n <= sz
  /\ Enter("read", sz, n)
  /\ buf' = GivenBack /\ loops' = 0
  /\ UNCHANGED next_read_char

CallRead(sz, n) ==
  /\ n <= sz
  /\ Enter("read", sz, n)
  /\ buf' = GivenBack /\ next_read_char' = 0 /\ loops' = 0

Reading == pc = "read" /\ UNCHANGED <<arguments, count, next_read_char, last, ahead>>

Take(n) ==
  /\ buf' = buf \o SubSeq(arrived, 1, n)
  /\ arrived' = SubSeq(arrived, n + 1, Len(arrived))
  /\ UNCHANGED <<coming, room, stopped, up>>

ReadSome ==
  /\ Reading /\ up /\ arrived # <<>> /\ Len(buf) < size
  /\ Take(Min({Len(arrived), size - Len(buf)}))
  /\ IF Len(buf') >= least THEN Return(Len(buf')) ELSE UNCHANGED <<pc, ret>>
  /\ UNCHANGED <<loops, waited>>

(* Mutant of ReadNothing: it waits as long as the line is silent.          *)
ReadNothingForEver ==
  /\ Reading /\ up /\ arrived = <<>> /\ Len(buf) < size
  /\ UNCHANGED <<line, buf, pc, ret, loops, waited>>

ReadNothing ==
  /\ Reading /\ up /\ arrived = <<>> /\ Len(buf) < size
  /\ Poll(Len(buf) >= least, Len(buf))
  /\ UNCHANGED <<line, buf>>

(* An end of file: the device is gone, or nothing more fits in the buffer. *)
ReadEnd ==
  /\ Reading /\ (~up \/ Len(buf) = size)
  /\ \E r \in IF up THEN {0} ELSE {-1, 0} : Return(r)
  /\ UNCHANGED <<line, buf, loops, waited>>

(***************************************************************************)
(* isp_serial_empty_buffer: one line is thrown away.  Every caller reads   *)
(* next, so that no given back character is there when it is called.       *)
(***************************************************************************)
CallEmptyBuffer ==
  /\ ReadFirst
  /\ Enter("empty", 0, 0)
  /\ buf' = <<>> /\ loops' = 0
  /\ UNCHANGED next_read_char

Emptying(place) == pc = place /\ UNCHANGED <<arguments, count, last, ahead>>

TakeOne ==
  /\ arrived # <<>> /\ arrived' = Tail(arrived)
  /\ UNCHANGED <<coming, room, stopped, up>>

SkipChar ==
  /\ Emptying("empty") /\ up /\ TakeOne
  /\ buf' = <<Head(arrived)>>
  /\ CASE Head(arrived) = LF -> Return(0)
       [] Head(arrived) = CR -> pc' = "empty_lf" /\ UNCHANGED ret
       [] OTHER -> UNCHANGED <<pc, ret>>
  /\ UNCHANGED <<next_read_char, loops, waited>>

SkipNothing ==
  /\ Emptying("empty") /\ up /\ arrived = <<>>
  /\ Poll(FALSE, 0)
  /\ next_read_char' = IF pc' # "idle" \/ buf = <<>> THEN 0 ELSE buf[1]
  /\ UNCHANGED <<line, buf>>

(* Mutant of SkipLineFeed: any character after the carriage return goes.   *)
SkipLineFeedAny ==
  /\ Emptying("empty_lf")
  /\ \/ /\ up /\ TakeOne /\ buf' = <<Head(arrived)>>
        /\ UNCHANGED next_read_char
     \/ /\ (up => arrived = <<>>) /\ next_read_char' = CR
        /\ UNCHANGED <<line, buf>>
  /\ Return(0) /\ UNCHANGED <<loops, waited>>

(* One read, and no wait, for the line feed after a carriage return; what  *)
(* it is not, or the carriage return itself, is given back.                *)
SkipLineFeed ==
  /\ Emptying("empty_lf")
  /\ \/ /\ up /\ TakeOne /\ buf' = <<Head(arrived)>>
        /\ next_read_char' = IF Head(arrived) = LF THEN next_read_char ELSE Head(arrived)
     \/ /\ (up => arrived = <<>>) /\ next_read_char' = CR
        /\ UNCHANGED <<line, buf>>
  /\ Return(0) /\ UNCHANGED <<loops, waited>>

SkipEnd ==
  /\ Emptying("empty") /\ ~up
  /\ Return(0)
  /\ UNCHANGED <<line, buf, next_read_char, loops, waited>>

(***************************************************************************)
(* isp_serial_write.                                                       *)
(***************************************************************************)
CallWrite(sz) ==
  /\ ReadFirst /\ Enter("write", sz, 0)
  /\ loops' = 0
  /\ UNCHANGED <<buf, next_read_char>>

Writing == pc = "write" /\ UNCHANGED <<arguments, buf, next_read_char, last, ahead>>

WriteSome ==
  /\ Writing /\ up /\ (room > 0 \/ count = size)
  /\ LET n == Min({room, size - count})
     IN  count' = count + n /\ room' = room - n
  /\ IF count' >= size THEN Return(count') ELSE UNCHANGED <<pc, ret>>
  /\ UNCHANGED <<coming, arrived, stopped, up, loops, waited>>

WriteNothing ==
  /\ Writing /\ up /\ room = 0 /\ count < size
  /\ Poll(FALSE, count)
  /\ UNCHANGED <<line, count>>

WriteEnd ==
  /\ Writing /\ ~up /\ Return(-1)
  /\ UNCHANGED <<line, count, loops, waited>>

(***************************************************************************)
(* Specification.                                                          *)
(***************************************************************************)
Call == \/ CallEmptyBuffer
        \/ \E r \in Reads : CallRead(r[1], r[2])
        \/ \E sz \in Writes : CallWrite(sz)

Within == \/ ReadSome \/ ReadNothing \/ ReadEnd
          \/ SkipChar \/ SkipNothing \/ SkipLineFeed \/ SkipEnd
          \/ WriteSome \/ WriteNothing \/ WriteEnd

Next == Call \/ Within \/ Arrive \/ Drain \/ Unplug

Spec == Init /\ [][Next]_vars

(* The program runs; the line need not carry anything.                     *)
FairSpec == Spec /\ WF_vars(Within)

(***************************************************************************)
(* Properties.                                                             *)
(***************************************************************************)

(* Every variable keeps its type, and no call polls more often than the    *)
(* bound says: no wait is longer than about half a second.                 *)
TypeOK ==
  /\ coming \in Seq(Chars) /\ arrived \in Seq(Chars) /\ room \in 0 .. Room
  /\ {stopped, up} \subseteq BOOLEAN
  /\ pc \in {"idle", "read", "empty", "empty_lf", "write"}
  /\ last \in {"none", "read", "empty", "write"}
  /\ size \in Nat /\ least \in Nat /\ ret \in Int /\ count \in 0 .. size
  /\ buf \in Seq(Chars) /\ next_read_char \in Chars \cup {0}
  /\ ahead \in Seq(Chars)
  /\ loops \in 0 .. Polls + 1 /\ waited \in 0 .. Polls + 2

Ended(call) == pc = "idle" /\ last = call

(* What a read hands over is the text that was next, each character once   *)
(* and in its order, a given back one first, however it was cut into       *)
(* pieces; the rest is still to be read; and what it returns is how much   *)
(* of its buffer holds text.                                               *)
ReadInOrder ==
  last = "read" /\ up =>
    /\ buf \o Ahead = ahead
    /\ Ended("read") /\ ret > 0 => ret = Len(buf)

FirstEnd(s) == CHOOSE n \in 1 .. Len(s) :
                 /\ s[n] \in {CR, LF}
                 /\ \A k \in 1 .. n - 1 : s[k] \notin {CR, LF}

(* isp_serial_empty_buffer throws away one line and nothing of the next:   *)
(* what follows begins right after that line, or with what is left of its  *)
(* end.  When the end of the line did not come in time, the last character *)
(* of what came is not thrown away.                                        *)
SkipsOneLine ==
  Ended("empty") /\ up =>
    LET gone == SubSeq(ahead, 1, Len(ahead) - Len(Ahead))
        n == FirstEnd(ahead)
    IN  /\ ahead = gone \o Ahead
        /\ IF waited <= Polls + 1
           THEN \/ Len(gone) = n
                \/ ahead[n] = CR /\ Len(gone) = n - 1
                \/ ahead[n] = CR /\ Len(gone) = n + 1 /\ ahead[n + 1] = LF
           ELSE Range(gone) \cap {CR, LF} = {} /\ (Ahead = <<>> => ahead = <<>>)

(* A read gives its caller less than it needs, or a write reports less     *)
(* than it was given, only after waiting in vain as often as the bound     *)
(* says, in this call.                                                     *)
ShortMeansWaited ==
  up /\ \/ Ended("read") /\ ret < least /\ Len(buf) < size
        \/ Ended("write") /\ ret < size
  => waited > Polls

(* When a block is what comes next, as much of it as the driver lets       *)
(* through, and its size is waited for, that size is the one of what comes *)
(* (with one character more the read would wait in vain and return too     *)
(* little, with one less the next read would find the rest), and what was  *)
(* read decodes to the data of the block, whatever came after it in        *)
(* memory: no character of it was taken for flow control.                  *)
BlockDecodes ==
  Ended("read") /\ up =>
    \A b \in Blocks :
      LET text == TextOf(isp_uu_encode(b[1], b[2]))
      IN  least = get_remaining_blocksize(Len(b[1])) /\ ahead = text =>
            /\ least = Len(text)
            /\ ret >= least => isp_uu_decode(SubSeq(buf, 1, least)) = b[1]

(* Every call returns, even on a silent, stuck or unplugged line.          *)
Ends == pc # "idle" ~> pc = "idle"
=============================================================================
