------------------------------- MODULE UuCode --------------------------------
(***************************************************************************)
(* The text that stands for data on the line (isp_utils.c), and how many   *)
(* characters of it isp_read_memory waits for (isp_commands.c).  Bytes and *)
(* characters are numbers from 0 to 255.                                   *)
(***************************************************************************)
EXTENDS Integers, Sequences, SequencesExt

CONSTANTS
  LINE_DATA_LENGTH, \* bytes of a line, 45 in the code
  LINES_PER_BLOCK   \* 20 in the code

ASSUME UuAssumption ==
  /\ LINE_DATA_LENGTH \in 1 .. 63 /\ LINE_DATA_LENGTH % 3 = 0
  /\ LINES_PER_BLOCK \in Nat \ {0}

Bytes == 0 .. 255

UUENCODE_ADDED_VAL == 32
UUENCODE_ZERO == 96
CR == 13
LF == 10

Ceil(n, d) == (n + d - 1) \div d

(***************************************************************************)
(* Three bytes are four characters of six bits; a nul is not a space.      *)
(***************************************************************************)
Offset(v)   == IF v = 0 THEN UUENCODE_ZERO ELSE v + UUENCODE_ADDED_VAL
Unoffset(c) == (c - UUENCODE_ADDED_VAL) % 64

Quartet(b) ==
  LET t == b[1] * 65536 + b[2] * 256 + b[3]
  IN  << Offset(t \div 262144), Offset((t \div 4096) % 64),
         Offset((t \div 64) % 64), Offset(t % 64) >>

Triplet(c) ==
  LET t == Unoffset(c[1]) * 262144 + Unoffset(c[2]) * 4096 + Unoffset(c[3]) * 64 + Unoffset(c[4])
  IN  << t \div 65536, (t \div 256) % 256, t % 256 >>

(***************************************************************************)
(* isp_uu_encode.  The last triplet of a line always takes three bytes     *)
(* from where the data is, whatever follows the data there: the test that  *)
(* should stop it comes after the byte it should have kept out.            *)
(***************************************************************************)
Line(bytes, length) ==
  <<length + UUENCODE_ADDED_VAL>>
  \o FlattenSeq([k \in 1 .. Ceil(length, 3) |-> Quartet(SubSeq(bytes, 3 * k - 2, 3 * k))])
  \o <<CR, LF>>

isp_uu_encode(src, following) ==
  LET bytes == src \o following
      start(n) == (n - 1) * LINE_DATA_LENGTH
  IN  FlattenSeq(
        [n \in 1 .. Ceil(Len(src), LINE_DATA_LENGTH) |->
           Line(SubSeq(bytes, start(n) + 1, Len(bytes)),
                Min({Len(src) - start(n), LINE_DATA_LENGTH}))])

(***************************************************************************)
(* isp_uu_decode of text that begins with a line.  A line is read by its   *)
(* length, and the next one starts at the next character that is not a     *)
(* control one.                                                            *)
(***************************************************************************)
DataOf(text, at, length) ==
  SubSeq(FlattenSeq([k \in 1 .. Ceil(length, 3) |-> Triplet(SubSeq(text, at + 4 * k - 3, at + 4 * k))]),
         1, length)

LineStarts(text) == {p \in DOMAIN text : text[p] >= UUENCODE_ADDED_VAL} \cup {Len(text) + 1}

NextLine(text, from) == Min({p \in LineStarts(text) : p >= from} \cup {Len(text) + 1})

isp_uu_decode(text) ==
  LET decoded[at \in LineStarts(text)] ==
        IF at > Len(text) \/ text[at] = UUENCODE_ZERO THEN <<>>
        ELSE LET length == text[at] - UUENCODE_ADDED_VAL
             IN  DataOf(text, at, length) \o decoded[NextLine(text, at + 4 * Ceil(length, 3) + 1)]
  IN  decoded[1]

(***************************************************************************)
(* get_remaining_blocksize: the size of the text of the next block, when   *)
(* remain bytes are still to come.                                         *)
(***************************************************************************)
MAX_DATA_BLOCK_SIZE == LINES_PER_BLOCK * LINE_DATA_LENGTH
MAX_BYTES_PER_LINE  == 1 + (LINE_DATA_LENGTH \div 3) * 4 + 2

(* Mutant of get_remaining_blocksize: after full lines one more is counted.*)
get_remaining_blocksize_more(remain) ==
  IF remain >= MAX_DATA_BLOCK_SIZE THEN MAX_BYTES_PER_LINE * LINES_PER_BLOCK
  ELSE Ceil(remain, 3) * 4 + 3 * (remain \div LINE_DATA_LENGTH + 1)

get_remaining_blocksize(remain) ==
  IF remain >= MAX_DATA_BLOCK_SIZE THEN MAX_BYTES_PER_LINE * LINES_PER_BLOCK
  ELSE Ceil(remain, 3) * 4 + 3 * Ceil(remain, LINE_DATA_LENGTH)
=============================================================================
