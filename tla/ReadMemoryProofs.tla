-------------------------- MODULE ReadMemoryProofs ---------------------------
(***************************************************************************)
(* Theorems about ReadMemory, for every size of data and of blocks, any    *)
(* amount of noise, and however the text of a block is split.              *)
(***************************************************************************)
EXTENDS ReadMemory, SequenceTheorems, TLAPS

(***************************************************************************)
(* Blocks and bytes.                                                      *)
(***************************************************************************)
(* get_nb_blocks: the blocks cover the data, and the last one is needed.   *)
LEMMA BlocksCoverSize ==
  ASSUME NEW size \in Nat \ {0}
  PROVE  /\ get_nb_blocks(size) \in Nat \ {0}
         /\ size <= get_nb_blocks(size) * MAX_DATA_BLOCK_SIZE
         /\ \A n \in Nat : n < get_nb_blocks(size) => n * MAX_DATA_BLOCK_SIZE < size
<1> DEFINE M == MAX_DATA_BLOCK_SIZE
           q == size \div M
           r == size % M
<1>1. M \in Nat \ {0} BY BlockSizeAssumption
<1>2. q \in Nat /\ r \in 0 .. M - 1 /\ size = M * q + r
  BY <1>1
<1>3. get_nb_blocks(size) = q + (IF r > 0 THEN 1 ELSE 0)
  BY DEF get_nb_blocks
<1> HIDE DEF M, q, r
<1>4. \A n, m \in Nat : n <= m => n * M <= m * M
  BY <1>1
<1>5. CASE r = 0
  <2>1. get_nb_blocks(size) = q /\ size = q * M BY <1>1, <1>2, <1>3, <1>5
  <2>2. q # 0 BY <1>1, <2>1
  <2>3. ASSUME NEW n \in Nat, n < q PROVE n * M < size
    <3>1. (n + 1) * M <= q * M BY <1>2, <1>4, <2>3
    <3>2. (n + 1) * M = n * M + M /\ n * M \in Int BY <1>1
    <3> QED BY <1>1, <2>1, <3>1, <3>2
  <2> QED BY <1>2, <2>1, <2>2, <2>3 DEF M
<1>6. CASE r > 0
  <2>1. get_nb_blocks(size) = q + 1 BY <1>3, <1>6
  <2>2. (q + 1) * M = q * M + M /\ q * M \in Int /\ M * q = q * M BY <1>1, <1>2
  <2>3. size <= (q + 1) * M BY <1>1, <1>2, <2>2
  <2>4. ASSUME NEW n \in Nat, n < q + 1 PROVE n * M < size
    <3>1. n * M <= q * M /\ n * M \in Int BY <1>1, <1>2, <1>4, <2>4
    <3> QED BY <1>2, <1>6, <2>2, <3>1
  <2> QED BY <1>2, <2>1, <2>3, <2>4 DEF M
<1> QED BY <1>2, <1>5, <1>6

(* What a sequence of bytes is.                                            *)
LEMMA BytesAre ==
  ASSUME NEW x \in Nat, NEW y \in Nat, x <= y
  PROVE  /\ Bytes(x, y) \in Seq(Int) /\ Len(Bytes(x, y)) = y - x
         /\ \A n \in 1 .. y - x : Bytes(x, y)[n] = x + n - 1
BY DEF Bytes

(* Bytes from 0 to a, then from a to b, are the bytes from 0 to b.         *)
LEMMA BytesConcat ==
  ASSUME NEW a \in Nat, NEW b \in Nat, a <= b
  PROVE  Bytes(0, a) \o Bytes(a, b) = Bytes(0, b)
<1> DEFINE u == Bytes(0, a)
           v == Bytes(a, b)
           w == Bytes(0, b)
<1>1. u \in Seq(Int) /\ Len(u) = a /\ \A n \in 1 .. a : u[n] = n - 1
  <2>1. 0 \in Nat /\ 0 <= a /\ a - 0 = a BY SMT
  <2>2. u \in Seq(Int) /\ Len(u) = a - 0 /\ \A n \in 1 .. a - 0 : u[n] = 0 + n - 1
    BY <2>1, BytesAre
  <2> QED BY <2>1, <2>2
<1>2. w \in Seq(Int) /\ Len(w) = b /\ \A n \in 1 .. b : w[n] = n - 1
  <2>1. 0 \in Nat /\ 0 <= b /\ b - 0 = b BY SMT
  <2>2. w \in Seq(Int) /\ Len(w) = b - 0 /\ \A n \in 1 .. b - 0 : w[n] = 0 + n - 1
    BY <2>1, BytesAre
  <2> QED BY <2>1, <2>2
<1>3. v \in Seq(Int) /\ Len(v) = b - a /\ \A n \in 1 .. b - a : v[n] = a + n - 1
  BY BytesAre
<1> HIDE DEF u, v, w
<1>4. /\ u \o v \in Seq(Int) /\ Len(u \o v) = Len(u) + Len(v)
      /\ \A n \in 1 .. Len(u) + Len(v) :
           (u \o v)[n] = IF n <= Len(u) THEN u[n] ELSE v[n - Len(u)]
  BY <1>1, <1>3, ConcatProperties
<1>5. Len(u) + Len(v) = b BY <1>1, <1>3
<1>6. ASSUME NEW n \in 1 .. b PROVE (u \o v)[n] = w[n]
  <2>1. (u \o v)[n] = IF n <= a THEN u[n] ELSE v[n - a] BY <1>1, <1>4, <1>5
  <2>2. CASE n <= a BY <1>1, <1>2, <2>1, <2>2
  <2>3. CASE n > a
    <3>1. n - a \in 1 .. b - a BY <2>3
    <3>2. v[n - a] = a + (n - a) - 1 BY <1>3, <3>1
    <3> QED BY <1>2, <2>1, <2>3, <3>2
  <2>4. n <= a \/ n > a BY SMT
  <2> QED BY <2>2, <2>3, <2>4
<1>7. u \o v = w
  <2>1. Len(u \o v) = Len(w) BY <1>2, <1>4, <1>5
  <2>2. \A n \in 1 .. Len(u \o v) : (u \o v)[n] = w[n] BY <1>4, <1>5, <1>6
  <2> QED BY <1>2, <1>4, <2>1, <2>2, SeqEqual
<1> QED BY <1>7 DEF u, v, w

(***************************************************************************)
(* The inductive invariant.                                                *)
(***************************************************************************)
M == MAX_DATA_BLOCK_SIZE

(* The host is at the start of block i.                                    *)
AtBlock == total_bytes_received = MinOf(i * M, count)

(* The target is never ahead of the host: an "OK" that is lost leaves it   *)
(* behind.                                                                 *)
NotAhead == pos <= total_bytes_received

(* Of the block it sends the line has the whole text or nothing, and in    *)
(* front of it left-overs of text sent before, none of which is the lines  *)
(* of a block.                                                             *)
PieceType == [at : 0 .. count - 1, part : {"lines", "last", "digits", "rest"}, good : BOOLEAN]
LeftOver  == {p \in PieceType : p.part # "lines"}
Texts     == {<<>>, Text(pos, TRUE), Text(pos, FALSE)}
LineIs == \E s \in Seq(LeftOver), t \in Texts : line = s \o t

(* Unless an "OK" went astray the target sends the block the host waits    *)
(* for, or there is nothing more to accept.                                *)
Level ==
  pc = "read" /\ ~strayed =>
    \/ pos = total_bytes_received
    \/ line = <<>>
    \/ i = Blocks /\ line \in Seq(LeftOver)

(* The host refuses a block three times before it gives up.                *)
Patient == pc = "read" => resend_request_for_block <= 3

(* The rest of TypeOK: what the line brings follows from LineIs.           *)
IInv == TypeOK /\ AtBlock /\ NotAhead /\ LineIs /\ Level /\ Patient /\ ReceivedInPlace

(***************************************************************************)
(* The text of a block.                                                    *)
(***************************************************************************)

(* Only its first piece is the lines of the block.                         *)
LEMMA TextIs ==
  ASSUME NEW at \in 0 .. count - 1, NEW good \in BOOLEAN
  PROVE  /\ Text(at, good) \in Seq(PieceType) /\ Len(Text(at, good)) = 4
         /\ Text(at, good)[1] = Piece(at, "lines", good)
         /\ Text(at, good)[2] = Piece(at, "last", good)
         /\ Text(at, good)[3] = Piece(at, "digits", good)
         /\ Text(at, good)[4] = Piece(at, "rest", good)
<1>1. Text(at, good) = [n \in 1 .. 4 |-> Piece(at, Parts[n], good)] BY DEF Text
<1>2. Parts[1] = "lines" /\ Parts[2] = "last" /\ Parts[3] = "digits" /\ Parts[4] = "rest" BY DEF Parts
<1>3. \A n \in 1 .. 4 : Parts[n] \in {"lines", "last", "digits", "rest"}
  <2>1. \A n \in 1 .. 4 : n = 1 \/ n = 2 \/ n = 3 \/ n = 4 OBVIOUS
  <2> QED BY <1>2, <2>1
<1>4. \A n \in 1 .. 4 : Piece(at, Parts[n], good) \in PieceType BY <1>3 DEF Piece, PieceType
<1>5. 4 \in Nat OBVIOUS
<1>6. Text(at, good) \in Seq(PieceType) /\ Len(Text(at, good)) = 4
  BY <1>1, <1>4, <1>5
<1> QED BY <1>1, <1>2, <1>6

(* The texts that may be on the line.                                      *)
LEMMA TextsAre ==
  ASSUME pos \in 0 .. count - 1, NEW t \in Texts
  PROVE  /\ t \in Seq(PieceType) /\ Len(t) \in {0, 4}
         /\ \A n \in 1 .. Len(t) :
              /\ t[n].part = "lines" <=> n = 1
              /\ t[n].at = pos
         /\ t = <<>> \/ t = Text(pos, TRUE) \/ t = Text(pos, FALSE)
<1>1. CASE t = <<>>
  <2>1. <<>> \in Seq(PieceType) /\ Len(<<>>) = 0 OBVIOUS
  <2> QED BY <1>1, <2>1
<1>2. ASSUME NEW good \in BOOLEAN, t = Text(pos, good)
      PROVE  /\ t \in Seq(PieceType) /\ Len(t) \in {0, 4}
             /\ \A n \in 1 .. Len(t) :
                  /\ t[n].part = "lines" <=> n = 1
                  /\ t[n].at = pos
  <2>1. /\ t \in Seq(PieceType) /\ Len(t) = 4
        /\ t[1] = Piece(pos, "lines", good) /\ t[2] = Piece(pos, "last", good)
        /\ t[3] = Piece(pos, "digits", good) /\ t[4] = Piece(pos, "rest", good)
    BY <1>2, TextIs
  <2>2. \A n \in 1 .. 4 : n = 1 \/ n = 2 \/ n = 3 \/ n = 4 OBVIOUS
  <2> QED BY <2>1, <2>2 DEF Piece
<1> QED BY <1>1, <1>2 DEF Texts

(* The lines of a block come after the left-overs, at one place at most.   *)
LEMMA LineFacts ==
  ASSUME pos \in 0 .. count - 1, NEW s \in Seq(LeftOver), NEW t \in Texts, line = s \o t
  PROVE  /\ line \in Seq(PieceType) /\ Len(line) = Len(s) + Len(t) /\ Len(s) \in Nat /\ Len(t) \in {0, 4}
         /\ \A n \in 1 .. Len(line) : line[n].part = "lines" <=> n = Len(s) + 1
         /\ \A n \in 1 .. Len(line) : n > Len(s) => line[n].at = pos
<1>1. /\ t \in Seq(PieceType) /\ Len(t) \in {0, 4}
      /\ \A n \in 1 .. Len(t) : (t[n].part = "lines" <=> n = 1) /\ t[n].at = pos
  BY TextsAre
<1>2. s \in Seq(PieceType) /\ Len(s) \in Nat /\ \A n \in 1 .. Len(s) : s[n] \in LeftOver
  <2>1. LeftOver \subseteq PieceType BY DEF LeftOver
  <2> QED BY <2>1
<1>3. /\ line \in Seq(PieceType) /\ Len(line) = Len(s) + Len(t)
      /\ \A n \in 1 .. Len(s) + Len(t) : line[n] = IF n <= Len(s) THEN s[n] ELSE t[n - Len(s)]
  BY <1>1, <1>2, ConcatProperties
<1>4. ASSUME NEW n \in 1 .. Len(line)
      PROVE  (line[n].part = "lines" <=> n = Len(s) + 1) /\ (n > Len(s) => line[n].at = pos)
  <2>1. CASE n <= Len(s)
    <3>1. line[n] \in LeftOver BY <1>2, <1>3, <2>1
    <3> QED BY <1>2, <2>1, <3>1 DEF LeftOver
  <2>2. CASE n > Len(s)
    <3>1. n - Len(s) \in 1 .. Len(t) BY <1>1, <1>2, <1>3, <2>2
    <3>2. line[n] = t[n - Len(s)] BY <1>1, <1>2, <1>3, <2>2
    <3>3. n - Len(s) = 1 <=> n = Len(s) + 1 BY <1>2
    <3> QED BY <1>1, <3>1, <3>2, <3>3
  <2> QED BY <1>2, <2>1, <2>2
<1> QED BY <1>1, <1>2, <1>3, <1>4

(* What the window of a read is.                                           *)
LEMMA WindowIs ==
  ASSUME line \in Seq(PieceType), NEW n \in 1 .. Len(line)
  PROVE  /\ Window(n) \in Seq(PieceType) /\ Len(Window(n)) = n
         /\ \A k \in 1 .. n : Window(n)[k] = line[k]
         /\ Unread(n) \in Seq(PieceType) /\ Len(Unread(n)) = Len(line) - n
         /\ \A k \in 1 .. Len(line) - n : Unread(n)[k] = line[n + k]
<1>1. Len(line) \in Nat /\ n \in Nat /\ 1 <= n /\ n <= Len(line) OBVIOUS
<1>2. \A k \in 1 .. n : line[k] \in PieceType OBVIOUS
<1>3. Window(n) = [k \in 1 .. n |-> line[k]]
  <2>1. n + 1 - 1 = n BY <1>1
  <2> QED BY <1>1, <1>2 DEF Window
<1>4. \A k \in 1 .. Len(line) - n : line[n + k] \in PieceType
  <2>1. \A k \in 1 .. Len(line) - n : n + k \in 1 .. Len(line) BY <1>1
  <2> QED BY <2>1
<1>5. Unread(n) \in Seq(PieceType) /\ Len(Unread(n)) = Len(line) - n
      /\ \A k \in 1 .. Len(line) - n : Unread(n)[k] = line[n + k]
  <2>1. SubSeq(line, n + 1, Len(line)) \in Seq(PieceType) BY <1>1
  <2>2. Len(SubSeq(line, n + 1, Len(line))) = Len(line) - n BY <1>1
  <2>3. ASSUME NEW k \in 1 .. Len(line) - n PROVE SubSeq(line, n + 1, Len(line))[k] = line[n + k]
    <3>1. n + 1 + k - 1 = n + k BY <1>1
    <3> QED BY <1>1, <3>1
  <2> QED BY <2>1, <2>2, <2>3 DEF Unread
<1> QED BY <1>1, <1>2, <1>3, <1>5

(* A read takes the lines of the block off the line, or all there is: what *)
(* is left is left-overs.                                                  *)
LEMMA UnreadIs ==
  ASSUME pos \in 0 .. count - 1, LineIs, NEW n \in Windows
  PROVE  Unread(n) \in Seq(LeftOver) /\ n \in 1 .. Len(line) /\ line # <<>> /\ line \in Seq(PieceType)
<1>0. PICK s \in Seq(LeftOver), t \in Texts : line = s \o t BY DEF LineIs
<1>1. /\ line \in Seq(PieceType) /\ Len(line) = Len(s) + Len(t) /\ Len(s) \in Nat
      /\ \A k \in 1 .. Len(line) : line[k].part = "lines" <=> k = Len(s) + 1
  BY <1>0, LineFacts
<1>2. n \in 1 .. Len(line) BY DEF Windows
<1>3. line # <<>> BY <1>1, <1>2
<1>4. /\ Len(Window(n)) = n /\ \A k \in 1 .. n : Window(n)[k] = line[k]
      /\ Unread(n) \in Seq(PieceType) /\ Len(Unread(n)) = Len(line) - n
      /\ \A k \in 1 .. Len(line) - n : Unread(n)[k] = line[n + k]
  BY <1>1, <1>2, WindowIs
<1>5. n = Len(line) \/ \E k \in 1 .. n : line[k].part = "lines"
  <2>1. n = Len(line) \/ Full(Window(n)) BY DEF Windows, Window
  <2>2. Full(Window(n)) => \E k \in 1 .. n : Window(n)[k].part = "lines"
    <3>1. 1 \in 1 .. n /\ \A k \in 2 .. n : k \in 1 .. n BY <1>2
    <3> QED BY <1>4, <3>1 DEF Full, EndsWithDigits
  <2> QED BY <1>4, <2>1, <2>2
<1>6. ASSUME NEW k \in 1 .. Len(line) - n PROVE Unread(n)[k] \in LeftOver
  <2>1. Len(line) \in Nat /\ n \in Nat /\ n # Len(line) /\ n + k \in 1 .. Len(line) BY <1>1, <1>2, <1>6
  <2>2. PICK j \in 1 .. n : line[j].part = "lines" BY <1>5, <2>1
  <2>3. j = Len(s) + 1 /\ n + k # Len(s) + 1 BY <1>1, <1>2, <2>1, <2>2
  <2>4. line[n + k].part # "lines" BY <1>1, <2>1, <2>3
  <2>5. line[n + k] \in PieceType BY <1>1, <2>1
  <2> QED BY <1>4, <2>4, <2>5 DEF LeftOver
<1>7. Unread(n) \in Seq(LeftOver)
  <2>1. Len(Unread(n)) \in Nat /\ Unread(n) = [k \in 1 .. Len(Unread(n)) |-> Unread(n)[k]] BY <1>4
  <2>2. \A k \in 1 .. Len(Unread(n)) : Unread(n)[k] \in LeftOver BY <1>4, <1>6
  <2> QED BY <2>1, <2>2
<1> QED BY <1>1, <1>2, <1>3, <1>7

(* A block that passes is the one the target has sent last.                *)
LEMMA PassedBlock ==
  ASSUME pos \in 0 .. count - 1, LineIs, NEW n \in Windows, Passes(Window(n))
  PROVE  Window(n)[1].at = pos
<1>0. PICK s \in Seq(LeftOver), t \in Texts : line = s \o t BY DEF LineIs
<1>1. /\ line \in Seq(PieceType) /\ Len(s) \in Nat
      /\ \A k \in 1 .. Len(line) : line[k].part = "lines" <=> k = Len(s) + 1
      /\ \A k \in 1 .. Len(line) : k > Len(s) => line[k].at = pos
  BY <1>0, LineFacts
<1>2. n \in 1 .. Len(line) /\ 1 \in 1 .. n /\ 1 \in 1 .. Len(line) BY <1>1 DEF Windows
<1>3. Window(n)[1] = line[1] BY <1>1, <1>2, WindowIs
<1>4. Window(n)[1].part = "lines" BY DEF Passes, Piece, Parts
<1>5. Len(s) = 0 BY <1>1, <1>2, <1>3, <1>4
<1> QED BY <1>1, <1>2, <1>3, <1>5

(* What the target sends follows what was not read.                        *)
LEMMA TextSent ==
  ASSUME TypeOK, UNCHANGED count, NEW unread \in Seq(LeftOver), NEW from \in 0 .. count - 1,
         SendText(unread, from)
  PROVE  /\ pos' = from /\ sends' \in Nat /\ noise' \in 0 .. MaxNoise /\ LineIs'
<1>1. LeftOver' = LeftOver BY DEF LeftOver, PieceType
<1>2. pos' = from /\ sends' \in Nat BY DEF SendText, TypeOK
<1>3. noise' \in 0 .. MaxNoise
  <2>1. noise \in 0 .. MaxNoise /\ MaxNoise \in Nat BY TransferAssumption DEF TypeOK
  <2>2. noise' = noise \/ (noise < MaxNoise /\ noise' = noise + 1) BY DEF SendText
  <2> QED BY <2>1, <2>2
<1>4. unread \o <<>> = unread BY ConcatEmptySeq
<1>5. \E t \in {<<>>, Text(from, TRUE), Text(from, FALSE)} : line' = unread \o t
  BY <1>4 DEF SendText
<1>6. Texts' = {<<>>, Text(from, TRUE), Text(from, FALSE)} BY <1>2 DEF Texts, Text
<1> QED BY <1>1, <1>2, <1>3, <1>5, <1>6 DEF LineIs

(* When nothing is sent, what was not read is left.                        *)
LEMMA NothingSent ==
  ASSUME UNCHANGED count, NEW unread \in Seq(LeftOver), line' = unread
  PROVE  LineIs'
<1>1. LeftOver' = LeftOver BY DEF LeftOver, PieceType
<1>2. unread \o <<>> = unread BY ConcatEmptySeq
<1>3. <<>> \in Texts' BY DEF Texts
<1> QED BY <1>1, <1>2, <1>3 DEF LineIs

(* The line brings pieces of text.                                         *)
LEMMA LineTyped ==
  ASSUME pos \in 0 .. count - 1, LineIs
  PROVE  line \in Seq(PieceType)
<1>1. PICK s \in Seq(LeftOver), t \in Texts : line = s \o t BY DEF LineIs
<1> QED BY <1>1, LineFacts

(***************************************************************************)
(* Every step keeps the invariant.                                         *)
(***************************************************************************)

(* What holds of the current block while there is one, and of the block    *)
(* the target sends.                                                       *)
LEMMA BlockFacts ==
  ASSUME TypeOK, AtBlock, NotAhead, i < Blocks
  PROVE  /\ count \in Nat \ {0} /\ i + 1 \in 0 .. Blocks /\ i # Blocks
         /\ total_bytes_received \in 0 .. count - 1 /\ Size(total_bytes_received) \in Nat \ {0}
         /\ total_bytes_received + Size(total_bytes_received) = MinOf((i + 1) * M, count)
         /\ total_bytes_received + Size(total_bytes_received) <= count
         /\ total_bytes_received + Size(total_bytes_received) = count => i + 1 = Blocks
         /\ pos \in 0 .. count - 1 /\ Size(pos) \in Nat \ {0}
         /\ pos + Size(pos) <= total_bytes_received + Size(total_bytes_received)
         /\ pos + Size(total_bytes_received) <= count
<1> DEFINE T == total_bytes_received
<1>1. count \in Nat \ {0} /\ M \in Nat \ {0}
  BY TransferAssumption, BlockSizeAssumption DEF TypeOK, M
<1>2. /\ Blocks \in Nat \ {0} /\ count <= Blocks * M
      /\ \A n \in Nat : n < Blocks => n * M < count
  BY <1>1, BlocksCoverSize DEF Blocks, M
<1>3. i \in Nat /\ i + 1 \in 0 .. Blocks BY <1>2 DEF TypeOK
<1>4. i * M \in Nat /\ i * M < count /\ (i + 1) * M = i * M + M BY <1>1, <1>2, <1>3
<1>5. T = i * M BY <1>1, <1>4 DEF AtBlock, MinOf
<1>6. Size(T) = (IF count - T <= M THEN count - T ELSE M) BY DEF Size, MinOf, M
<1>7. MinOf((i + 1) * M, count) = (IF i * M + M <= count THEN i * M + M ELSE count) BY <1>4 DEF MinOf
<1>8. pos \in 0 .. count - 1 /\ pos <= T BY DEF TypeOK, NotAhead
<1>9. Size(pos) = (IF count - pos <= M THEN count - pos ELSE M) BY DEF Size, MinOf, M
<1>10. i # Blocks BY <1>2, <1>3
<1>11. T + Size(T) = count => i + 1 = Blocks
  <2>1. T + Size(T) = count => ~(i * M + M < count) BY <1>1, <1>4, <1>5, <1>6
  <2>2. i + 1 < Blocks => i * M + M < count BY <1>2, <1>3, <1>4
  <2> QED BY <1>3, <2>1, <2>2, <1>2
<1> HIDE DEF T
<1>12. T \in 0 .. count - 1 /\ Size(T) \in Nat \ {0} /\ T + Size(T) = MinOf((i + 1) * M, count)
       /\ T + Size(T) <= count
  BY <1>1, <1>4, <1>5, <1>6, <1>7
<1>13. Size(pos) \in Nat \ {0} /\ pos + Size(pos) <= T + Size(T) /\ pos + Size(T) <= count
  BY <1>1, <1>4, <1>5, <1>6, <1>8, <1>9
<1> QED BY <1>1, <1>3, <1>8, <1>10, <1>11, <1>12, <1>13 DEF T

(* Sequences of offsets.                                                   *)
LEMMA ReceivedTyped ==
  ASSUME NEW c \in Nat, NEW a \in Nat, NEW b \in Nat, a <= b, b <= c, NEW d \in Seq(0 .. c - 1)
  PROVE  d \o Bytes(a, b) \in Seq(0 .. c - 1)
<1>1. \A n \in 1 .. b - a : a + n - 1 \in 0 .. c - 1 BY SMT
<1>2. b - a \in Nat BY SMT
<1>3. Bytes(a, b) \in Seq(0 .. c - 1)
  <2>1. Bytes(a, b) = [n \in 1 .. b - a |-> a + n - 1] BY DEF Bytes
  <2> QED BY <1>1, <1>2, <2>1
<1> QED BY <1>3

(* A block is accepted.                                                    *)
LEMMA AcceptKeeps ==
  ASSUME IInv, AcceptBlock
  PROVE  IInv'
<1> DEFINE T == total_bytes_received
<1>0. pc = "read" /\ i < Blocks
  <2>1. Reading BY DEF AcceptBlock
  <2> QED BY <2>1 DEF Reading
<1>1. PICK n \in Windows :
        Passes(Window(n)) /\ data' = Received(Window(n)) /\ HearOk(Unread(n))
  BY DEF AcceptBlock
<1>2. /\ UNCHANGED <<count, pc, ret>> /\ resend_request_for_block' = 0 /\ i' = i + 1
      /\ T' = T + Size(T)
  BY DEF AcceptBlock
<1>3. /\ count \in Nat \ {0} /\ i + 1 \in 0 .. Blocks /\ T \in 0 .. count - 1 /\ Size(T) \in Nat \ {0}
      /\ T + Size(T) = MinOf((i + 1) * M, count) /\ T + Size(T) <= count
      /\ T + Size(T) = count => i + 1 = Blocks
      /\ pos \in 0 .. count - 1 /\ Size(pos) \in Nat \ {0} /\ pos <= T
      /\ pos + Size(pos) <= T + Size(T) /\ pos + Size(T) <= count
  BY <1>0, BlockFacts DEF IInv, NotAhead
<1>4. LineIs /\ Unread(n) \in Seq(LeftOver) /\ line # <<>> BY <1>3, UnreadIs DEF IInv
<1>5. Window(n)[1].at = pos BY <1>1, <1>3, <1>4, PassedBlock
<1>6. data' = data \o Bytes(pos, pos + Size(T)) BY <1>1, <1>5 DEF Received
<1>7. ~strayed => pos = T /\ data = Bytes(0, T)
  <2>1. i # Blocks BY <1>0, BlockFacts DEF IInv
  <2> QED BY <1>0, <1>4, <2>1 DEF IInv, Level, ReceivedInPlace
<1> HIDE DEF T
<1>8. data' \in Seq(0 .. count - 1)
  <2>1. data \in Seq(0 .. count - 1) BY DEF IInv, TypeOK
  <2>2. pos + Size(T) \in Nat /\ pos <= pos + Size(T) /\ pos \in Nat /\ count \in Nat BY <1>3
  <2> QED BY <1>3, <1>6, <2>1, <2>2, ReceivedTyped
<1>9. ~strayed => data' = Bytes(0, T + Size(T))
  <2>1. T \in Nat /\ T + Size(T) \in Nat /\ T <= T + Size(T) BY <1>3
  <2> QED BY <1>6, <1>7, <2>1, BytesConcat
<1>10. Blocks' = Blocks BY <1>2 DEF Blocks
<1>11. /\ pos' \in 0 .. count - 1 /\ sends' \in Nat /\ noise' \in 0 .. MaxNoise /\ strayed' \in BOOLEAN
       /\ LineIs' /\ pos' <= T + Size(T) /\ (strayed => strayed')
       /\ \/ pos' = pos + Size(pos)
          \/ pos + Size(pos) >= count /\ pos' = pos /\ line' = Unread(n)
          \/ pos' = pos /\ line' = Unread(n) /\ (~strayed' => line' = <<>>)
  <2>0. TypeOK BY DEF IInv
  <2>1. /\ noise \in 0 .. MaxNoise /\ MaxNoise \in Nat /\ sends \in Nat /\ strayed \in BOOLEAN
    BY <2>0, TransferAssumption DEF TypeOK
  <2>2. CASE /\ pos + Size(pos) < count /\ SendText(Unread(n), pos + Size(pos)) /\ UNCHANGED strayed
    <3>1. pos + Size(pos) \in 0 .. count - 1 BY <1>3, <2>2
    <3>2. pos' = pos + Size(pos) /\ sends' \in Nat /\ noise' \in 0 .. MaxNoise /\ LineIs'
      BY <1>2, <1>4, <2>0, <2>2, <3>1, TextSent
    <3> QED BY <1>3, <2>1, <2>2, <3>1, <3>2
  <2>3. CASE /\ pos + Size(pos) >= count /\ Silent(Unread(n)) /\ UNCHANGED <<noise, strayed>>
    <3>1. line' = Unread(n) /\ UNCHANGED <<pos, sends, noise, strayed>> BY <2>3 DEF Silent
    <3>2. LineIs' BY <1>2, <1>4, <3>1, NothingSent
    <3>3. pos <= T + Size(T) BY <1>3
    <3> QED BY <1>3, <2>1, <2>3, <3>1, <3>2, <3>3
  <2>4. CASE /\ noise < MaxNoise /\ noise' = noise + 1 /\ Silent(Unread(n))
             /\ strayed' = (strayed \/ Unread(n) # <<>>)
    <3>1. line' = Unread(n) /\ UNCHANGED <<pos, sends>> BY <2>4 DEF Silent
    <3>2. LineIs' BY <1>2, <1>4, <3>1, NothingSent
    <3>3. pos <= T + Size(T) /\ noise' \in 0 .. MaxNoise BY <1>3, <2>1, <2>4
    <3>4. strayed' \in BOOLEAN /\ (strayed => strayed') /\ (~strayed' => Unread(n) = <<>>) BY <2>4
    <3> QED BY <1>3, <2>1, <3>1, <3>2, <3>3, <3>4
  <2> QED BY <1>1, <2>2, <2>3, <2>4 DEF HearOk
<1>12. Level'
  <2> SUFFICES ASSUME ~strayed'
               PROVE  \/ pos' = T'
                      \/ line' = <<>>
                      \/ i' = Blocks' /\ line' \in Seq(LeftOver')
    BY DEF Level, T
  <2>1. pos = T BY <1>7, <1>11
  <2>2. LeftOver' = LeftOver BY <1>2 DEF LeftOver, PieceType
  <2>3. T' = T + Size(T) BY <1>2 DEF T
  <2>4. CASE pos' = pos + Size(pos) BY <2>1, <2>3, <2>4
  <2>5. CASE pos + Size(pos) >= count /\ pos' = pos /\ line' = Unread(n)
    <3>1. T + Size(T) = count BY <1>3, <2>1, <2>5
    <3> QED BY <1>2, <1>3, <1>4, <1>10, <2>2, <2>5, <3>1
  <2>6. CASE pos' = pos /\ line' = Unread(n) /\ (~strayed' => line' = <<>>) BY <2>6
  <2> QED BY <1>11, <2>4, <2>5, <2>6
<1>13. TypeOK'
  <2>1. (line \in Seq(PieceType))'
    <3>1. LineIs' /\ (pos \in 0 .. count - 1)' BY <1>2, <1>11
    <3>2. (pos \in 0 .. count - 1 /\ LineIs => line \in Seq(PieceType))' BY LineTyped, PTL
    <3> QED BY <3>1, <3>2
  <2>2. (i \in 0 .. Blocks)' BY <1>2, <1>3, <1>10
  <2>3. (total_bytes_received \in 0 .. count)' BY <1>2, <1>3 DEF T
  <2> QED BY <1>2, <1>8, <1>11, <2>1, <2>2, <2>3 DEF IInv, TypeOK, PieceType
<1>14. AtBlock' /\ NotAhead' BY <1>2, <1>3, <1>11 DEF AtBlock, NotAhead, T
<1>15. Patient' BY <1>2 DEF Patient
<1>16. ReceivedInPlace' BY <1>2, <1>9, <1>11 DEF ReceivedInPlace, T
<1> QED BY <1>11, <1>12, <1>13, <1>14, <1>15, <1>16 DEF IInv

(* A block is refused, and asked for again.                                *)
LEMMA RejectKeeps ==
  ASSUME IInv, RejectBlock
  PROVE  IInv'
<1>0. TypeOK /\ LineIs /\ pos \in 0 .. count - 1 /\ count \in Nat \ {0} /\ noise \in 0 .. MaxNoise
      /\ MaxNoise \in Nat /\ resend_request_for_block \in 0 .. 4
  BY TransferAssumption DEF IInv, TypeOK
<1>1. /\ pc = "read" /\ i < Blocks /\ ~TooOften /\ resend_request_for_block' = resend_request_for_block + 1
      /\ UNCHANGED <<count, pc, i, total_bytes_received, data, ret, strayed>>
  <2>1. Reading BY DEF RejectBlock
  <2> QED BY <2>1 DEF Reading, RejectBlock
<1>2. PICK n \in Windows : HearResend(Unread(n)) BY DEF RejectBlock
<1>3. Unread(n) \in Seq(LeftOver) /\ line # <<>> BY <1>0, UnreadIs
<1>4. UNCHANGED pos /\ sends' \in Nat /\ noise' \in 0 .. MaxNoise /\ LineIs'
  <2>1. CASE SendText(Unread(n), pos) BY <1>0, <1>1, <1>3, <2>1, TextSent
  <2>2. CASE noise < MaxNoise /\ noise' = noise + 1 /\ Silent(Unread(n))
    <3>1. line' = Unread(n) /\ UNCHANGED <<pos, sends>> BY <2>2 DEF Silent
    <3>2. LineIs' BY <1>1, <1>3, <3>1, NothingSent
    <3> QED BY <1>0, <2>2, <3>1, <3>2 DEF TypeOK
  <2> QED BY <1>2, <2>1, <2>2 DEF HearResend
<1>5. resend_request_for_block' \in 0 .. 3 BY <1>0, <1>1 DEF TooOften
<1>6. Blocks' = Blocks BY <1>1 DEF Blocks
<1>7. TypeOK'
  <2>1. (line \in Seq(PieceType))'
    <3>1. LineIs' /\ (pos \in 0 .. count - 1)' BY <1>0, <1>1, <1>4
    <3>2. (pos \in 0 .. count - 1 /\ LineIs => line \in Seq(PieceType))' BY LineTyped, PTL
    <3> QED BY <3>1, <3>2
  <2>2. (resend_request_for_block \in 0 .. 4)' BY <1>5
  <2> QED BY <1>0, <1>1, <1>4, <1>6, <2>1, <2>2 DEF TypeOK, PieceType
<1>8. AtBlock' /\ NotAhead' /\ ReceivedInPlace' BY <1>1, <1>4 DEF IInv, AtBlock, NotAhead, ReceivedInPlace
<1>9. Level'
  <2>1. i # Blocks BY <1>1, BlockFacts DEF IInv
  <2> QED BY <1>1, <1>3, <1>4, <2>1 DEF IInv, Level
<1>10. Patient' BY <1>5 DEF Patient
<1> QED BY <1>4, <1>7, <1>8, <1>9, <1>10 DEF IInv

(* The function returns, or the specification stutters.                    *)
LEMMA ReturnKeeps ==
  ASSUME IInv, AcceptFails \/ RejectFails \/ GiveUp \/ ReadNothing \/ LoopEnds
  PROVE  IInv'
<1>0. TypeOK /\ LineIs /\ pos \in 0 .. count - 1 BY DEF IInv, TypeOK
<1>1. /\ pc = "read" /\ pc' = "done" /\ ret' \in {0, -1, -2, -4, -6}
      /\ UNCHANGED <<count, i, total_bytes_received, data, pos, sends, noise, strayed>>
      /\ line' = line \/ \E n \in Windows : line' = Unread(n)
  BY DEF AcceptFails, RejectFails, GiveUp, ReadNothing, LoopEnds, Return, Reading
<1>2. resend_request_for_block' \in 0 .. 4
  <2>1. resend_request_for_block \in 0 .. 3 BY <1>1 DEF IInv, TypeOK, Patient
  <2>2. resend_request_for_block' \in {0, resend_request_for_block, resend_request_for_block + 1}
    BY DEF AcceptFails, RejectFails, GiveUp, ReadNothing, LoopEnds
  <2> QED BY <2>1, <2>2
<1>3. LineIs'
  <2>1. CASE line' = line
    <3>1. LeftOver' = LeftOver /\ Texts' = Texts BY <1>1 DEF LeftOver, PieceType, Texts, Text
    <3> QED BY <1>0, <2>1, <3>1 DEF LineIs
  <2>2. ASSUME NEW n \in Windows, line' = Unread(n) PROVE LineIs'
    <3>1. Unread(n) \in Seq(LeftOver) BY <1>0, UnreadIs
    <3> QED BY <1>1, <2>2, <3>1, NothingSent
  <2> QED BY <1>1, <2>1, <2>2
<1>4. (line \in Seq(PieceType))'
  <2>1. LineIs' /\ (pos \in 0 .. count - 1)' BY <1>0, <1>1, <1>3
  <2>2. (pos \in 0 .. count - 1 /\ LineIs => line \in Seq(PieceType))' BY LineTyped, PTL
  <2> QED BY <2>1, <2>2
<1>5. Blocks' = Blocks BY <1>1 DEF Blocks
<1>6. TypeOK' BY <1>0, <1>1, <1>2, <1>4, <1>5 DEF TypeOK, PieceType
<1>7. AtBlock' /\ NotAhead' /\ ReceivedInPlace' BY <1>1 DEF IInv, AtBlock, NotAhead, ReceivedInPlace
<1>8. Level' /\ Patient' BY <1>1 DEF Level, Patient
<1> QED BY <1>3, <1>6, <1>7, <1>8 DEF IInv

(* The invariant is inductive.                                             *)
LEMMA Inductive ==
  ASSUME IInv, [Next]_vars
  PROVE  IInv'
<1>1. CASE AcceptBlock BY <1>1, AcceptKeeps
<1>2. CASE RejectBlock BY <1>2, RejectKeeps
<1>3. CASE AcceptFails \/ RejectFails \/ GiveUp \/ ReadNothing \/ LoopEnds BY <1>3, ReturnKeeps
<1>4. CASE UNCHANGED vars
  <2>1. UNCHANGED <<count, pc, i, total_bytes_received, data, resend_request_for_block, ret, pos, sends, line, noise,
                    strayed>>
    BY <1>4 DEF vars, host
  <2>2. UNCHANGED <<Blocks, LeftOver, Texts>> BY <2>1 DEF Blocks, LeftOver, PieceType, Texts, Text
  <2> QED
    BY <2>1, <2>2 DEF IInv, TypeOK, AtBlock, NotAhead, LineIs, Level, Patient, ReceivedInPlace
<1> QED BY <1>1, <1>2, <1>3, <1>4 DEF Next

(* It holds when the target has sent the first block, well or badly.       *)
LEMMA Initially ==
  ASSUME Init
  PROVE  IInv
<1>1. count \in Nat \ {0} /\ MaxNoise \in Nat BY TransferAssumption DEF Init
<1>2. pos = 0 /\ pos \in 0 .. count - 1 /\ noise \in 0 .. MaxNoise
  <2>1. pos = 0 /\ (noise = 0 \/ (MaxNoise > 0 /\ noise = 1)) BY DEF Init
  <2> QED BY <1>1, <2>1
<1>3. LineIs
  <2>1. line \in Texts BY <1>2 DEF Init, Texts
  <2>2. line \in Seq(PieceType) BY <1>2, <2>1, TextsAre
  <2>3. <<>> \o line = line /\ <<>> \in Seq(LeftOver) BY <2>2, ConcatEmptySeq
  <2> QED BY <2>1, <2>3 DEF LineIs
<1>4. 0 \in 0 .. Blocks /\ 0 \in 0 .. count /\ 0 * M = 0
  <2>1. Blocks \in Nat BY <1>1, BlocksCoverSize DEF Blocks
  <2>2. M \in Nat BY BlockSizeAssumption DEF M
  <2> QED BY <1>1, <2>1, <2>2
<1>5. TypeOK
  <2>1. line \in Seq(PieceType) BY <1>2, <1>3, LineTyped
  <2>2. <<>> \in Seq(0 .. count - 1) OBVIOUS
  <2>3. /\ count \in Counts /\ pc = "read" /\ i = 0 /\ total_bytes_received = 0 /\ data = <<>>
        /\ resend_request_for_block = 0 /\ ret = 0 /\ sends = 1 /\ strayed = FALSE
    BY DEF Init
  <2>4. i \in 0 .. Blocks /\ total_bytes_received \in 0 .. count BY <1>4, <2>3
  <2>5. data \in Seq(0 .. count - 1) BY <2>2, <2>3
  <2>6. /\ line \in Seq([at: 0 .. count - 1, part: {"lines", "last", "digits", "rest"}, good: BOOLEAN])
        /\ pos \in 0 .. count - 1 /\ noise \in 0 .. MaxNoise
    BY <1>2, <2>1 DEF PieceType
  <2>7. resend_request_for_block \in 0 .. 4 /\ sends \in Nat BY <2>3
  <2> QED BY <2>3, <2>4, <2>5, <2>6, <2>7 DEF TypeOK
<1>6. AtBlock /\ NotAhead /\ Level /\ Patient
  BY <1>1, <1>4 DEF Init, AtBlock, NotAhead, Level, Patient, MinOf
<1>7. ReceivedInPlace
  <2>1. Bytes(0, 0) = <<>>
    <3>1. Bytes(0, 0) \in Seq(Int) /\ Len(Bytes(0, 0)) = 0 BY BytesAre
    <3> QED BY <3>1, EmptySeq
  <2> QED BY <2>1 DEF Init, ReceivedInPlace
<1> QED BY <1>3, <1>5, <1>6, <1>7 DEF IInv

(* The invariant always holds.                                             *)
LEMMA Invariance == Spec => []IInv
<1>1. Init => IInv BY Initially
<1>2. IInv /\ [Next]_vars => IInv' BY Inductive
<1> QED BY <1>1, <1>2, PTL DEF Spec

(***************************************************************************)
(* What follows from it.                                                   *)
(***************************************************************************)

(* Every variable of isp_read_memory and of the target keeps its type.     *)
THEOREM TypeCorrect == Spec => []TypeOK
<1>1. IInv => TypeOK BY DEF IInv
<1> QED BY <1>1, Invariance, PTL

(* The bytes counted as received are the data from its start, each once    *)
(* and in its place, unless an "OK" went astray before the end of its      *)
(* block was read.                                                         *)
THEOREM ReceivedInPlaceCorrect == Spec => []ReceivedInPlace
<1>1. IInv => ReceivedInPlace BY DEF IInv
<1> QED BY <1>1, Invariance, PTL

(* Whatever block the line brings is the one the host waits for.           *)
THEOREM SameBlockCorrect == Spec => []SameBlock
<1>1. IInv => SameBlock
  <2> SUFFICES ASSUME IInv, ~strayed, pc = "read", NEW n \in 1 .. Len(line), line[n].part = "lines"
               PROVE  line[n].at = total_bytes_received
    BY DEF SameBlock
  <2>1. pos \in 0 .. count - 1 /\ LineIs BY DEF IInv, TypeOK
  <2>2. PICK s \in Seq(LeftOver), t \in Texts : line = s \o t BY <2>1 DEF LineIs
  <2>3. /\ line \in Seq(PieceType) /\ Len(s) \in Nat
        /\ line[n].part = "lines" <=> n = Len(s) + 1
        /\ n > Len(s) => line[n].at = pos
    BY <2>1, <2>2, LineFacts
  <2>4. line[n].at = pos BY <2>3
  <2>5. line # <<>> BY <2>3
  <2>6. line \notin Seq(LeftOver)
    <3>1. line \in Seq(LeftOver) => line[n] \in LeftOver OBVIOUS
    <3> QED BY <3>1 DEF LeftOver
  <2> QED BY <2>4, <2>5, <2>6 DEF IInv, Level
<1> QED BY <1>1, Invariance, PTL
=============================================================================
