# Verification of lpctools

TLA+ models of `lpctools`, the programmer for NXP LPC microcontrollers over
their serial boot loader, with TLC runs on small instances and TLAPS proofs.
Every definition is translated from the C sources in `src/`; `PROJECT.json`
maps definitions to lines.

## The system

| component | sources | state | operations | interacts with |
|---|---|---|---|---|
| lpcprog | `lpcprog.c`, `prog_commands.c` | id of the part, its description, loop counters, image buffer | connect and identify, `dump`, `flash`, `id`, `blank`, `go` | calls the ISP commands, one after the other |
| ISP commands | `isp_commands.c` | counters of refusals (static), return codes | handshake, one function per shape of command, block transfers both ways | writes lines to and reads answers from the serial line |
| serial line | `isp_utils.c` | a pushed-back character, the device | write, read at least n characters, drop a line; all with a 500 ms timeout | the boot loader at the other end |
| boot loader (external) | codes in `isp_commands.h` | handshake, echo, unlock, prepared sector, RAM, flash | executes lines, answers | keeps its session when the host dies |
| lpcisp | `lpcisp.c`, `isp_wrapper.c` | none between runs but the target's session | one boot loader command per run | ISP commands |
| lpc_binary_check | `check.c` | an image file, its options | patches vector 7 in place, looks for the protection word | file helpers |
| parts file | `parts.c`, `lpctools_parts.def` | the line buffer of a search | looks a description up by id | lpcprog |
| uuencoding | `isp_utils.c` | none | encode, decode, size of the text of a block | block transfers |
| file helpers | `isp_utils.c` | the files | load, save | lpcprog, lpcisp, lpc_binary_check |

What is hard here is not threads: it is that host and target are two processes
that share nothing but text. Answers carry no name of the question they
answer; a question, an answer or a block can be lost, altered, cut or late;
the host can be killed and the target reset at any moment, and the other one
carries on where it was; every write to flash is final until an erase.

What makes each part correct:

* lpcprog - nothing is done to a part that was not identified; the flash is
  blank before it is written; blocks land in place, once; what is reported is
  so; no protected image is written; every run ends.
* handshake - a session left by an earlier run is recovered, the echo is off.
* transfers - data arrives whole and in order or failure is reported; retries
  are bounded.
* serial line - each character is handed over once and in order, whatever
  pieces it comes in; no call gives up early or waits for ever.
* lpcisp - each run tells the truth about a session it knows nothing of, and
  leaves it ready for the next run.
* lpc_binary_check - nothing but entry 7 of an image is changed, and the
  verdict is that of the file on disk.
* parts file - the part described is the part with the id.
* uuencoding - a block decodes to its data, and has the size the host waits
  for.

## Modules

| module | what it models |
|---|---|
| `LpcParts` | part descriptions, the block arithmetic of `flash_target`, image files, symbolic content of memory pages (constants and assumptions only) |
| `IspTarget` | the boot loader: one action per command, the handshake, stray text, reset. External, restricted to what the tools send and the codes they name |
| `IspCommands` | what lpcprog and lpcisp share: one command written to the line, its answer read or missed; the greeting, the acknowledges and the part id |
| `LpcProg` | lpcprog over `IspCommands` |
| `LpcIsp` | lpcisp over `IspCommands`: one command per run, the session in between kept by the target |
| `FlashImage` | abstract: a flash is blanked, then holds a growing prefix of an image, and only a whole image is reported as a success |
| `EncodedBlocks` | how both transfers divide their data into blocks (`get_nb_blocks`) |
| `WriteToRam` | the encoded block loop of `isp_send_buf_to_ram` |
| `ReadMemory` | the encoded block loop of `isp_read_memory` |
| `DataTransfer` | abstract: a copy grows by prefixes, and only a whole copy is a success; implemented by `WriteToRam` |
| `UuCode` | uuencoding as operators on sequences of bytes, and the size of the text of a block |
| `SerialLine` | the three calls of the serial line, character by character, extending `UuCode` for the blocks sent through them |
| `BinaryCheck` | lpc_binary_check and the file helpers |
| `PartsFile` | the search in the parts file, which `LpcProg` takes for the member of `Parts` with the id |
| `MCLpcProg`, `MCLpcIsp`, `MCWriteToRam`, `MCReadMemory`, `MCSerialLine`, `MCBinaryCheck`, `MCPartsFile` | the small instances |
| `LpcProgProofs`, `LpcIspProofs`, `WriteToRamProofs`, `ReadMemoryProofs`, `SerialLineProofs`, `BinaryCheckProofs`, `PartsFileProofs` | theorems about the module of that name; `SerialLineProofs` has those about `UuCode` too |
| `IspCommandsProofs` | the lemmas `LpcProgProofs` and `LpcIspProofs` share, about lines, answers and the boot loader's commands |

`EXTENDS` goes `LpcParts` - `IspTarget` - `IspCommands` - `LpcProg` and
`LpcIsp`: the two tools share every step of the protocol and differ in what
they make of it. The transfers, the serial line, the parts file and the file
helpers have modules of their own, more detailed than the single actions that
stand for them in the tools.

### LpcProg

`pc` is the place in the C code; `asked` says whether a question is on its way.
A boot loader command is an *Ask* action, `isp_serial_write` of the line and
what the target does with it, and a *Read* action, everything from
`isp_serial_read` to the next write, the callers' tests of the code included.
Between the two the user may kill the program (`Kill`) or reset the target
(`PressReset`; `PressResetErasing` and `PressResetCopying` do so in the middle
of an erase or a copy, which leaves cells in between). A write may be lost or
cut, a read may time out; `ret` holds the value returned. Text is a sequence of
numbers, what `strtoul` makes of each line; only three characters of a code are
read (`CodeOf`). Memory is modelled by pages of one write block, whose content
is symbolic (`ImagePage(file, patched, b)`).

Mutants, used to see that a property can fail, stand next to the definition
they alter and are not part of any specification.

The data phase of a command is one action here: `SendEncoded`, `SendTwice`,
`SendRaw`, `SendFailed`, `ReadDump`, `ReadVector`. Their outcomes are those
`WriteToRam` and `ReadMemory` find for the loops: an encoded transfer returns 0
only when the data is whole in RAM, if replies are read in one piece. Replies
read in pieces may duplicate a block, see below. After an encoded read the last
`OK` may not have got there (`LeftWaiting`).

In the handshake the reads of the two `OK` are not looked at in the code:
`Acknowledges` is what can be found, and after the frequency finding nothing is
as good as finding `OK`, since the buffer still holds the one before.

Constants: `SlowLine` lets answers arrive after the host has stopped waiting;
`NoisyLine` lets the raw data of a block be altered or lost; `Invocations`,
`MaxStarts` and `MaxResets` bound what the user does.

### WriteToRam and ReadMemory

One call of each function, after the command was accepted. Bytes are offsets in
the data, so that a copy is right when byte n is n. In `WriteToRam` the target
answers a block with `OK` or `RESEND`; `split`, chosen with the size at the
start, says that a read may take only the first half of `RESEND`, as
`isp_serial_read` only asks for 4 characters. Any number of blocks may be altered
or lost, and any answer lost, but none altered: an `OK` is always one that was
sent. `refused` counts up to three how often the target asked for the block it
expects. In
`ReadMemory` the text of a block is four pieces (its lines but the last
characters, these, three characters of the checksum line, the rest of it),
since the code reads "the lines" and then "at least three characters"; with
`Split` what has not been read stays in front of the next copy.

### LpcIsp

A run of the program is `Start`, the handshake for `-s` or else the checks of
its arguments (`Complaint`), one command (`AskCommand`) and one *Read* action
for each way a wrapper treats the code: `ReadCode` for those that return it,
`ReadBlank`, `ReadCompare`, `ReadOut`, `ReadWriteRam` and so on. `said` is what
the user is told, `ret` the value of `isp_handle_command`; the two do not always
agree, as a positive code of the target passes for "handled OK". `out` is what a
read leaves in its file: `ReadOut` takes what `isp_read_memory` counted, all,
some or nothing of it, or a code. The target is
never reset between runs unless `PressReset` does it, so that a run may meet a
session with the echo on, locked, waiting for data, or none at all. The number
of runs and resets is not bounded: the state space is finite without that.

### SerialLine and UuCode

`coming`, `arrived` and `buf` hold characters: not sent yet, held by the driver,
read. A system call is an action (`ReadSome`, `SkipChar`, `WriteSome`...), and
`Arrive`, `Drain` and `Unplug` may come between any two of them. The driver
takes XON and XOFF out of the text, as `isp_serial_open` asks it to. A poll that
finds nothing is `Poll`, with the `continue` of the C loops, which goes back to
the loop condition. The texts are all short sequences of a plain character, a
carriage return and a line feed, some with flow control, and the encoded blocks;
calls come in any order but one: `isp_serial_empty_buffer` is always followed by
a read (`ReadFirst`), as in `isp_connect`, its only caller.

In `UuCode` the encoder takes the bytes that follow the data where the code
does. `isp_uu_decode` is defined for well-formed text, which is what is left
when the checksum that follows a block was right.

### BinaryCheck and PartsFile

`BinaryCheck` has one action per system call. An image is its size, whether its
entry 7 is right, whether it has a protection word, and a name; `Cut` is what is
left of it when only some bytes are read or written. For a file that is too
short for its vectors the program looks, and writes, beyond its buffer: the
verdict is then any, and an end of the program at that point is a `Kill`.

`PartsFile` reads lines into one buffer: a line is its id, the state of its
name and its values; after the last value `strtoul` makes a 0 of the end of
the line, with no error the code would notice, then goes on in what earlier
lines left.

## Runs

| run | bounds | shows |
|---|---|---|
| `lpcprog_all` | six part descriptions and one board that is not listed, seven files, every command; one run, one reset; raw data altered | types, blank-then-prefix while writing, reports, identification, termination |
| `lpcprog_again` | an encoded and a raw part; three runs, one reset, flash in two ways and erase | the same over sessions and flashes left by runs that were killed or failed; echo, order of commands, no programming over data; refinement of `FlashImage` |
| `lpcprog_slow` | late answers; one run, of an image, a protected one, one with wrong vectors, or an erase | pages in place, protection |
| `write_to_ram` | 1 to 6 bytes in blocks of 2, replies read whole or in pieces, any number of altered or lost blocks | delivery, agreement, giving up, refinement of `DataTransfer` (replies read whole); never fewer bytes than expected, termination (all) |
| `read_memory` | 1 to 6 bytes in blocks of 2, texts read in pieces, four altered or lost | bytes counted are in place, both ends mean the same block, termination |
| `lpcisp` | one part of two sectors of one page, 22 command lines, any number of runs, kills and resets | what each run says is so, a refusal changed nothing, an answer leaves the target ready, or waiting for the last `OK` of a read, termination |
| `serial_line` | texts of up to five characters, five encoded blocks in lines of six bytes, a bound of one poll instead of 100, room for two characters in the driver | order and completeness of text, one line dropped, no early end, a block has the size waited for, comes through whole and decodes, every call returns |
| `binary_check` | images of 0, 16, 100 and 800 bytes of two names; any number of runs, edits and kills | only entry 7 changed, verdicts |
| `parts_file` | the shipped file and every file of up to three of eight kinds of lines | the part found, the assumptions on the shipped parts, termination |
| `lpcprog_dump`, `write_to_ram_split`, `lpcisp_opened` | the smallest that shows it, or those of the passing run | what the documentation says and the code does not do (below) |

The parts have two sectors of two pages, so that a loop has a first, a last and
a next sector and block, a sector holds two blocks (the prepare of the second
must follow the copy of the first), and a file may be shorter than one block,
end inside one, fill the flash or be larger. The odd descriptions have no legal
block size, a RAM buffer out of RAM or just at its end, and a flash that is no
whole number of blocks. Three runs are enough for one that is killed, one that
fails on what it left, and one that recovers. Six bytes make one to three
blocks with and without a short last one; the faults of `write_to_ram` are not
bounded, the count of refusals in the code is what ends it, and those of
`read_memory` suffice to have one block asked for as often as the code allows. Two sectors of one page are enough
for `lpcisp` to prepare the wrong one, erase one of two and name one that does
not exist. A line of two or three characters has its end in every place where a
call may stop; blocks of one byte, of a line and a half and of two full lines
are those the size is computed for in different ways. The sizes of images are
one for each of the tests on them.

Deadlock is not checked where a program or a transfer ends, and the user need not
run it again; `serial_line`, whose calls may always be made again, checks it.

### Fairness

`WF_vars(Program)` in `LpcProg` and `LpcIsp`, `WF_vars(Within)`
in `SerialLine`, `WF_vars(Next)` in the transfers and `PartsFile`, which have no
other actor that could stop: every
wait of the code is a loop of polls that ends with text, an error or after
about 500 ms (`isp_utils.c:150-164`, `:221-240`), so a running program always
takes its next step. `SerialLine` shows this of the calls themselves: `Ends` on
a line that is silent, stopped or unplugged, and `TypeOK` bounds the polls of a
call, with no fairness of the line. Nothing is assumed of the target, which may stay silent,
nor of the user. Files are regular files: of a FIFO or of standard input nothing
may ever come, and `isp_file_to_buff` asks again for ever, or waits
(`isp_utils.c:418-435`); termination is not claimed of these.

## What the runs found

* `dump` writes a file of full size, and returns its size, when the read failed
  (`prog_commands.c:71-76`; `lpcprog_dump`).
* A `RESEND` read in two pieces is counted as two refusals
  (`write_to_ram_split`); the block it refused is also sent twice, and may be
  stored twice: the right number of bytes, not the right bytes, which is why
`DeliveredWhole` is stated of replies read whole. The parts of `lpctools_parts.def` with blocks of
  1024 bytes send two data blocks (900 and 124 bytes).

* The answer to the frequency is compared in a buffer that still holds the
  answer before it. With nothing read, `isp_connect` goes on and returns 1, and
  lpcisp tells its user of a session the target is not in (`isp_commands.c:153`;
  `lpcisp_opened`). `EchoOff` and `RightPart` show that lpcprog is not misled:
  it then reads no id.

Met while modelling, each by reading one or two lines, so that no run is kept
for it:

* `flash` cuts a file that is larger than the flash without a word
  (`isp_utils.c:435`; the manual says "the content of the file").
* A RAM buffer that starts just at the end of RAM passes the test "RAM buffer
  address within RAM", and the flash is erased for it (`prog_commands.c:203`).
* What follows `SECTOR_NOT_BLANK` is not always removed on a slow line
  (`prog_commands.c:111`).
* `isp_read_memory` gives up after four attempts, its message says three
  (`isp_commands.c:472`).
* "if not enough data, leave it as nul" (`isp_utils.c:284`) is not what happens:
  the test comes after the byte was taken. `BlockDecodes` shows that the decoded
  data is right all the same.
* `lpc_binary_check` says "File updated." whether it could write the file or not
  (`check.c:152`); `VerdictIsTrue` makes an exception of it.
* A name of exactly 25 characters is accepted in the parts file, whose comment
  says less than 25; a line with values missing is read on into what an earlier
  line left (`parts.c:98`).
* lpcisp returns 0, and says nothing, for codes of blank-check other than the
  four it knows (`isp_wrapper.c:323`); it takes a file that can not be read for
  one of almost 4 GB (`:140`), and a refusal of read-memory for a count (`:98`).

Known limits of the protocol, stated as scopes of the properties:

* With late answers (`SlowLine`), `ReportIsTrue`, `WritingPrefix`, `EchoOff`
  and `NeverOutOfOrder` fail: each answer is taken for the next question's.
  They are checked with answers in time.
* Raw transfers have no checksum: altered bytes reach flash, and lost bytes
  leave the target waiting for data. `Checked` names the transfers about which
  the host can know something.
* The target waits for `OK` or `RESEND` after each block of a read. When the last
  `OK` is lost the host has all of the data and ends well, the target takes the
  next line for no command, and only then waits for a command again: this is
  assumed of the boot loader, whose code is not here. `AnsweredMeansReady` names
  the case.
* An answer to a block may be lost but not altered into another one: `OK` has no
  checksum.
* When an `OK` of the host is lost while the end of the block's checksum line
  is still unread, the target sends again a block that was accepted, and it is
  accepted as the next one. `ReceivedInPlace` holds in every other case
  (`strayed`).

## Proofs

Every safety property a passing run checks is a theorem for every value of the
constants. Three hypotheses occur, and each is one without which the property is
false:

* `~SlowLine`, answers come in time or never. The code has no way to tell a late
  answer from the answer to its next question.
* `DataChecked`, data is encoded or the line does not alter it. Raw data has no
  checksum. `WritingPrefix` and `ReportIsTrue` say the same of themselves, board
  by board (`Checked`).
* `~split`, replies to a block are read in one piece: `DeliveredWhole`,
  `InStep`, `GivesUpForRefusals` and the refinement of `DataTransfer` say it of
  themselves; `write_to_ram_split` shows what happens otherwise.

### lpcprog on any line

`LpcProgProofs` proves `TypeOK`, `RightPart`, `InPlace` and `NeverProtected`
for every set of parts and files that satisfies the assumptions of `LpcParts`,
any number of runs and resets, and any line, slow and noisy included. The
argument is two inductive invariants. `Typed` is `TypeOK` and `RightPart`
with what they rest on: `Known` (an id at the dispatch is a number as small as
a code, the target's own id, or a word the target prints, so that an id that
matches a description is the target's own), `Counted` (the counters of the
loops name sectors, blocks and questions that exist) and `Dispatched` (the
erase and flash places are reached only for a blank or flash run, the latter
with a block size and a file). `Staged`, on top of it, is `Unprotected` (RAM
and flash hold no image with the code read protection word) and `Placed`
(encoded pages are in place, and when a copy is sent RAM holds the page of that
block or garbage). `InPlace` needs the second part, since a copy programs
whatever the RAM buffer holds. Both invariants are needed because the
properties themselves speak of neither the ids on the line nor the RAM buffer.

### lpcprog with answers in time

The second half of `LpcProgProofs` proves `EchoOff`, `NeverOutOfOrder`, `WritingPrefix`,
`ReportIsTrue`, `NoOverprogram` and the refinement of `FlashImage`, with
`~SlowLine`, the last two with `DataChecked`. The host sees codes and concludes
from them what the target did; the invariant `Quiet` says at each place of the
code that it is right to. `Drained`: nothing is on the line when a question is
asked, so that a code belongs to the question before it. `Short`: how many lines
an answer has. `InSession`: from the moment the target names its id, its echo is
off or it is silent - the id arrives as the second line only then, which is how
the code gets away with never reading the answer to `A 0`, and with going on
when the frequency was not answered: whatever the target then makes of `A 0`,
what follows the probe's code is an id only in a session without echo. `Ready`: what the
codes accepted so far have unlocked, prepared and staged, unless the target was
reset, in which case it is silent. `Blanked` and `Written`: what the flash holds
before and after the answer in flight is read; the properties speak of the
places in between only. The key lemma `AskOutcome` sums up a question: it is
lost, it is refused, or it is obeyed, and only in the last case is the code a
success. The refinement maps `Job` and `Image` to the place and the command; a
step that is none of `FlashImage`'s keeps the flash.

### lpcisp

`LpcIspProofs` proves `TypeOK` on any line - with `Filled`, that no page of an
empty file gets anywhere, by way of what `CheckArguments` let through - and `ReportIsTrue`, `RefusalIsTrue`
and `AnsweredMeansReady` with `~SlowLine`, for every set of command lines and any
number of runs. `Typed` adds to the types which command each place belongs to.
`Quiet` must hold in whatever state earlier runs left the session, the echo
included: nothing is on the line when a run asks (`Drained`), the echo is on
after every reset and goes off in a session only (`EchoLast`), the flash is untouched before the command
(`Untouched`), and an answer in flight is one of what the target grants, with
what it then did, and of what it refuses, with the flash as it was (`Answered`).
`LineTaken` is the lemma about one line obeyed from any such state.

### The transfers

`WriteToRamProofs` proves, for every size of data and of blocks and any number
of faults, `DeliveredWhole`, `InStep`, `GivesUpForRefusals`, and that the loop implements `DataTransfer`. The inductive invariant `IInv` says, of replies read in one piece, that at the top of the loop the line is empty
and both ends are before the same byte, that while the host waits the only thing
on the line is the answer to its block, with what this answer means for the
target, and that the byte count is the block count times the size of a block
(`AtBlock`).

`TypeOK` and `NeverShort` hold however replies are split, when none of this is
so: the host falls behind and several answers wait. Their invariant `Booked`
keeps books of the answers on the line (`Books`): every `OK` not read yet is for
a block of its own, between those the host has counted and those the target has
taken; so the host never counts more than were taken.

`ReadMemoryProofs` proves `TypeOK`, `ReceivedInPlace` and `SameBlock` for every
size, any noise, and texts read whole or in pieces. `IInv` says that the line is
left-overs of texts sent before, none of them lines of a block, and then the
whole text of one block or nothing (`LineIs`), that the target is never ahead of
the host (`NotAhead`), and that the two are at the same block unless an `OK`
went astray or nothing is left to accept (`Level`). Both
modules begin with the arithmetic of `get_nb_blocks` and of blocks of bytes.

### The serial line and the encoding

`SerialLineProofs` proves `TypeOK`, `ReadInOrder`, `SkipsOneLine`,
`ShortMeansWaited` and `BlockDecodes` for every set of texts, blocks and calls,
every room in the driver and every bound of polls. `IInv` adds two facts to the
properties. `AtPlace`: which call a place belongs to, that no character is given
back while a call is at work, and that the polls of this call are those of the
counter, which is started again by each call. `Skipping`: what
`isp_serial_empty_buffer` took so far is a beginning of what there was, without
an end of line, and the character in its buffer is the last of it; so that
giving it back puts it where it was. `SkipsOneLine` speaks of the end of the
call only and is not inductive without it.

`BlockDecodes` follows from `ReadInOrder` and three facts about `UuCode`.
`DecodeEncode`: `isp_uu_decode` undoes `isp_uu_encode` for every sequence of
bytes, whatever follows it in memory. `TextSize`: the text is as long as
`get_remaining_blocksize` says. `BlockWhole`: none of its characters is one the
driver keeps. For all, `EncodeLayout` says which character
stands where in the text (`Laid`): a triplet and its four characters by
arithmetic (`TripletOfQuartet`), a line by the pieces it is put together from
(`LineLayout`), a block by its lines, all of one length but the last
(`FlattenPieces`). The decoder is then followed from the last line to the first:
at the beginning of each it yields the data from there on.

The decoder is a recursive function and the texts are folds, so these proofs need
induction, and no prover here can instantiate a theorem about any predicate.
They use sets instead: `Induction` says that a set that holds 0 and with each
number the next one holds every number, and follows from the well-foundedness
of `<`; `Ascent` and `Descent` use it to show that a function defined by its
earlier, or later, values exists.

### lpc_binary_check

`BinaryCheckProofs` proves `TypeOK`, `OnlyEntry7` and `VerdictIsTrue` for
images of all sizes, any number of runs, kills and edits. `IInv` adds to them
what the program knows at each place: that the buffer is the file as it was when
the run began, then that file with entry 7 computed, and what is on disk
meanwhile (`Faithful`, claimed only while nobody else changed the file); that
the writing back has not begun before its place (`Placed`); and that no image
has a part it is too short for (`Whole`). The verdict speaks of the disk and is
computed from the buffer: `Faithful` is what links the two.

### The parts file

`PartsFileProofs` proves `FindsThePart` for every file, id and content of the
stack. `IInv` says that no line passed so far describes the part and that the
one being read does (`Passed`), so that it is the first (`FirstLine`), that the
values read are that line's, as far as it has them (`Read`), and that its name
has ended when its values are read (`Named`).

### Only model-checked

Termination (`Finishes`, `Terminates`, `Ends`): liveness under fairness is out
of the prover's reach.

### Assumed

Part ids are unique, longer than three digits and none of the words
the target prints (`PartsAssumption`, `RepliesAssumption`); sectors hold whole
pages and the protection word lies in the flash (`GeometryAssumption`); a file
with a protection word reaches up to it (`FilesAssumption`); the pages and
sectors a command line of lpcisp names as mapped are those of every board
(`InvocationsAssumption`); lines of encoded data are of whole triplets, 63 bytes
at most (`UuAssumption`), and two bytes at least can be read after a block in
memory (`LineAssumption`).

## Not modelled

* Option parsing, usage texts and traces: they keep no state; what they yield is
  `Invocations` and the options of `BinaryCheck`.
* How `strtoul` reads a number: `NumberOf` and the fields of a line stand for
  it. Part ids of 2^31 and more come back negative from `isp_cmd_part_id` and
  count as "not connected"; `PartsAssumption` excludes them, and `parts_file`
  shows that the shipped parts satisfy it.
* `isp_uu_decode` of altered text: its length character is trusted by the code;
  `ReadMemory` has the checksum fail, and nothing is stated of what was written
  before that.
* Raw dumps through `isp_serial_read`: the driver eats flow control characters
  and a read ends after 100 polls in all, so that long raw reads come back
  short; `LpcProg` and `LpcIsp` have them whole, partly or not at all.
* The baud-rate command of the boot loader, which no tool sends.

## Plan

Every safety property, action property and refinement of the runs has its
theorem. What is left is to state more: of a slow line, how far behind an answer
can be (the hazard at `prog_commands.c:98`), as an invariant of `IspCommands` that
both tools would share.
