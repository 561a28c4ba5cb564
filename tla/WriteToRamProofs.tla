-------------------------- MODULE WriteToRamProofs --------------------------
(***************************************************************************)
(* Theorems about WriteToRam, for every size of data and of blocks and any *)
(* amount of noise: of replies read in one piece, and, in the last         *)
(* section, however they are split.                                        *)
(***************************************************************************)
EXTENDS WriteToRam, SequenceTheorems, TLAPS

(***************************************************************************)
(* Blocks and bytes.                                                      *)
(***************************************************************************)
(* get_nb_blocks: the blocks cover the data, and the last one is needed.   *)
LEMMA BlocksCoverSize ==
  ASSUME NEW size \in Nat \ {0}
  PROVE  /\ get_nb_blocks(size) \in Nat \ {0}
         /\ size <= get_nb_blocks(size) * MAX_DATA_BLOCK_SIZE
         /\ \A n \in Nat : n < get_nb_blocks(size) => n * MAX_DATA_BLOCK_SIZE < size
<1> DEFINE M == MAX_DATA_BLOCK_SIZE
           q == size \div M
           r == size % M
<1>1. M \in Nat \ {0} BY BlockSizeAssumption
<1>2. q \in Nat /\ r \in 0 .. M - 1 /\ size = M * q + r
  BY <1>1
<1>3. get_nb_blocks(size) = q + (IF r > 0 THEN 1 ELSE 0)
  BY DEF get_nb_blocks
<1> HIDE DEF M, q, r
<1>4. \A n, m \in Nat : n <= m => n * M <= m * M
  BY <1>1
<1>5. CASE r = 0
  <2>1. get_nb_blocks(size) = q /\ size = q * M BY <1>1, <1>2, <1>3, <1>5
  <2>2. q # 0 BY <1>1, <2>1
  <2>3. ASSUME NEW n \in Nat, n < q PROVE n * M < size
    <3>1. (n + 1) * M <= q * M BY <1>2, <1>4, <2>3
    <3>2. (n + 1) * M = n * M + M /\ n * M \in Int BY <1>1
    <3> QED BY <1>1, <2>1, <3>1, <3>2
  <2> QED BY <1>2, <2>1, <2>2, <2>3 DEF M
<1>6. CASE r > 0
  <2>1. get_nb_blocks(size) = q + 1 BY <1>3, <1>6
  <2>2. (q + 1) * M = q * M + M /\ q * M \in Int /\ M * q = q * M BY <1>1, <1>2
  <2>3. size <= (q + 1) * M BY <1>1, <1>2, <2>2
  <2>4. ASSUME NEW n \in Nat, n < q + 1 PROVE n * M < size
    <3>1. n * M <= q * M /\ n * M \in Int BY <1>1, <1>2, <1>4, <2>4
    <3> QED BY <1>2, <1>6, <2>2, <3>1
  <2> QED BY <1>2, <2>1, <2>3, <2>4 DEF M
<1> QED BY <1>2, <1>5, <1>6

(* What a sequence of bytes is.                                            *)
LEMMA BytesAre ==
  ASSUME NEW x \in Nat, NEW y \in Nat, x <= y
  PROVE  /\ Bytes(x, y) \in Seq(Int) /\ Len(Bytes(x, y)) = y - x
         /\ \A n \in 1 .. y - x : Bytes(x, y)[n] = x + n - 1
BY DEF Bytes

(* Bytes from 0 to a, then from a to b, are the bytes from 0 to b.         *)
LEMMA BytesConcat ==
  ASSUME NEW a \in Nat, NEW b \in Nat, a <= b
  PROVE  Bytes(0, a) \o Bytes(a, b) = Bytes(0, b)
<1> DEFINE u == Bytes(0, a)
           v == Bytes(a, b)
           w == Bytes(0, b)
<1>1. u \in Seq(Int) /\ Len(u) = a /\ \A n \in 1 .. a : u[n] = n - 1
  <2>1. 0 \in Nat /\ 0 <= a /\ a - 0 = a BY SMT
  <2>2. u \in Seq(Int) /\ Len(u) = a - 0 /\ \A n \in 1 .. a - 0 : u[n] = 0 + n - 1
    BY <2>1, BytesAre
  <2> QED BY <2>1, <2>2
<1>2. w \in Seq(Int) /\ Len(w) = b /\ \A n \in 1 .. b : w[n] = n - 1
  <2>1. 0 \in Nat /\ 0 <= b /\ b - 0 = b BY SMT
  <2>2. w \in Seq(Int) /\ Len(w) = b - 0 /\ \A n \in 1 .. b - 0 : w[n] = 0 + n - 1
    BY <2>1, BytesAre
  <2> QED BY <2>1, <2>2
<1>3. v \in Seq(Int) /\ Len(v) = b - a /\ \A n \in 1 .. b - a : v[n] = a + n - 1
  BY BytesAre
<1> HIDE DEF u, v, w
<1>4. /\ u \o v \in Seq(Int) /\ Len(u \o v) = Len(u) + Len(v)
      /\ \A n \in 1 .. Len(u) + Len(v) :
           (u \o v)[n] = IF n <= Len(u) THEN u[n] ELSE v[n - Len(u)]
  BY <1>1, <1>3, ConcatProperties
<1>5. Len(u) + Len(v) = b BY <1>1, <1>3
<1>6. ASSUME NEW n \in 1 .. b PROVE (u \o v)[n] = w[n]
  <2>1. (u \o v)[n] = IF n <= a THEN u[n] ELSE v[n - a] BY <1>1, <1>4, <1>5
  <2>2. CASE n <= a BY <1>1, <1>2, <2>1, <2>2
  <2>3. CASE n > a
    <3>1. n - a \in 1 .. b - a BY <2>3
    <3>2. v[n - a] = a + (n - a) - 1 BY <1>3, <3>1
    <3> QED BY <1>2, <2>1, <2>3, <3>2
  <2>4. n <= a \/ n > a BY SMT
  <2> QED BY <2>2, <2>3, <2>4
<1>7. u \o v = w
  <2>1. Len(u \o v) = Len(w) BY <1>2, <1>4, <1>5
  <2>2. \A n \in 1 .. Len(u \o v) : (u \o v)[n] = w[n] BY <1>4, <1>5, <1>6
  <2> QED BY <1>2, <1>4, <2>1, <2>2, SeqEqual
<1> QED BY <1>7 DEF u, v, w

(* A prefix of the data is a sequence of offsets.                          *)
LEMMA PrefixType ==
  ASSUME NEW n \in Nat, NEW c \in Nat, n <= c
  PROVE  Bytes(0, n) \in Seq(0 .. c - 1)
<1>1. n - 0 = n BY SMT
<1>2. \A k \in 1 .. n : 0 + k - 1 \in 0 .. c - 1 BY SMT
<1>3. Bytes(0, n) = [k \in 1 .. n |-> 0 + k - 1] BY <1>1 DEF Bytes
<1> QED BY <1>2, <1>3
(***************************************************************************)
(* The inductive invariant.                                                *)
(***************************************************************************)
M == MAX_DATA_BLOCK_SIZE

(* Both ends are before byte n, and count the same refusals.               *)
Level(n) == due = count - n /\ ram = Bytes(0, n)

(* The host is at the start of block i.                                    *)
AtBlock == total_bytes_sent = MinOf(i * M, count)

(* Before a block is sent the line is empty, the target stands where the   *)
(* host does and the host has counted every refusal.                       *)
Aligned ==
  pc = "send" =>
    /\ replies = <<>> /\ Level(total_bytes_sent)
    /\ resend_requested_for_block <= 2 /\ refused = resend_requested_for_block

(* While it waits, the one thing on the line is the answer to the block.   *)
Answered ==
  pc = "ack" =>
    /\ i < Blocks /\ resend_requested_for_block <= 2
    /\ \/ replies = <<>> /\ Level(total_bytes_sent)
       \/ /\ replies = Resend /\ Level(total_bytes_sent)
          /\ refused = resend_requested_for_block + 1
       \/ replies = <<"OK">> /\ Level(total_bytes_sent + datasize) /\ refused = 0

IInv == TypeOK /\ AtBlock /\ Aligned /\ Answered /\ DeliveredWhole /\ GivesUpForRefusals

(* The blocks cover the data, and each of them is needed.                  *)
LEMMA BlocksCover ==
  ASSUME count \in Nat \ {0}
  PROVE  /\ Blocks \in Nat \ {0}
         /\ count <= Blocks * MAX_DATA_BLOCK_SIZE
         /\ \A n \in Nat : n < Blocks => n * MAX_DATA_BLOCK_SIZE < count
  BY BlocksCoverSize DEF Blocks

(* What holds of the current block while there is one.                     *)
LEMMA BlockFacts ==
  ASSUME TypeOK, AtBlock, i < Blocks
  PROVE  /\ count \in Nat \ {0} /\ i \in Nat /\ i + 1 \in 0 .. Blocks
         /\ total_bytes_sent \in Nat /\ datasize \in Nat \ {0}
         /\ total_bytes_sent + datasize <= count
         /\ total_bytes_sent + datasize = MinOf((i + 1) * M, count)
<1>1. count \in Nat \ {0} /\ M \in Nat \ {0} BY TransferAssumption, BlockSizeAssumption DEF TypeOK, M
<1>2. Blocks \in Nat \ {0} /\ i * M < count /\ i \in Nat
  <2>1. Blocks \in Nat \ {0} BY <1>1, BlocksCover
  <2>2. i \in Nat BY <2>1 DEF TypeOK
  <2>3. \A n \in Nat : n < Blocks => n * MAX_DATA_BLOCK_SIZE < count BY <1>1, BlocksCover
  <2> QED BY <2>1, <2>2, <2>3 DEF M
<1>3. i * M \in Nat /\ (i + 1) * M = i * M + M BY <1>1, <1>2
<1>4. total_bytes_sent = i * M BY <1>1, <1>2, <1>3 DEF AtBlock, MinOf
<1>5. datasize = IF count - total_bytes_sent <= M THEN count - total_bytes_sent ELSE M
  BY DEF datasize, MinOf, M
<1>6. MinOf((i + 1) * M, count) = IF i * M + M <= count THEN i * M + M ELSE count
  BY <1>3 DEF MinOf
<1> QED BY <1>1, <1>2, <1>3, <1>4, <1>5, <1>6

(* A block sent before it is due whole is accepted or refused whole.       *)
LEMMA SentBlock ==
  ASSUME TypeOK, AtBlock, Aligned, SendBlock
  PROVE  /\ i < Blocks /\ refused \in 0 .. 3
         /\ \/ UNCHANGED target
            \/ Refuse
            \/ Accept(datasize)
<1>1. i < Blocks /\ pc = "send" BY DEF SendBlock
<1>2. /\ count \in Nat \ {0} /\ total_bytes_sent \in Nat /\ datasize \in Nat \ {0}
      /\ total_bytes_sent + datasize <= count
  BY <1>1, BlockFacts
<1>3. due = count - total_bytes_sent BY <1>1 DEF Aligned, Level
<1>4. datasize <= due /\ due > 0 /\ ~(datasize > due) /\ ~(due = 0) BY <1>2, <1>3
<1>5. refused \in 0 .. 3 BY DEF TypeOK
<1>7. Hear \/ HearAltered \/ UNCHANGED target BY DEF SendBlock
<1> QED BY <1>1, <1>4, <1>5, <1>7 DEF Hear, HearAltered

(* Read in one piece, an answer is read whole.                             *)
LEMMA ReadWhole ==
  ASSUME TypeOK, Answered, ~split, Read
  PROVE  /\ replies' = <<>> /\ i < Blocks /\ resend_requested_for_block <= 2
         /\ UNCHANGED <<count, split, due, ram, refused>>
         /\ \/ /\ Head(replies) # "OK" /\ Level(total_bytes_sent)
               /\ refused = resend_requested_for_block + 1
            \/ /\ Head(replies) = "OK" /\ Level(total_bytes_sent + datasize)
               /\ refused = 0
<1>1. pc = "ack" /\ replies # <<>> BY DEF Read
<1>2. replies = Resend \/ replies = <<"OK">> BY <1>1 DEF Answered
<1>3. Taken = {Len(replies)} BY DEF Taken
<1>4. replies' = SubSeq(replies, Len(replies) + 1, Len(replies)) BY <1>3 DEF Read
<1>5. replies' = <<>> BY <1>2, <1>4 DEF Resend
<1>6. replies = Resend => Head(replies) # "OK" BY DEF Resend
<1>7. replies = <<"OK">> => Head(replies) = "OK" OBVIOUS
<1>8. Resend # <<"OK">> BY DEF Resend
<1>9. UNCHANGED <<count, split, due, ram, refused>> BY DEF Read
<1> QED BY <1>1, <1>2, <1>5, <1>6, <1>7, <1>8, <1>9 DEF Answered

(* What the two ends are, level at n.                                      *)
LEMMA LevelType ==
  ASSUME count \in Nat, NEW n \in 0 .. count, Level(n)
  PROVE  due \in 0 .. count /\ ram \in Seq(0 .. count - 1)
<1>1. ram \in Seq(0 .. count - 1) BY PrefixType DEF Level
<1>2. due \in 0 .. count BY DEF Level
<1> QED BY <1>1, <1>2

(* No step of the host or of the target breaks the invariant, as long as a *)
(* read takes a whole reply.                                               *)
LEMMA Inductive ==
  ASSUME ~split, IInv, [Next]_vars
  PROVE  IInv'
<1> USE DEF IInv
<1>0. /\ count \in Nat \ {0} /\ Blocks \in Nat \ {0}
      /\ resend_requested_for_block \in 0 .. 3
  <2>1. count \in Nat \ {0} BY TransferAssumption, BlockSizeAssumption DEF TypeOK
  <2>2. Blocks \in Nat \ {0} BY <2>1, BlocksCover
  <2> QED BY <2>1, <2>2 DEF TypeOK
<1>1. CASE SendBlock
  <2> USE <1>1
  <2>1. /\ UNCHANGED <<count, split, i, total_bytes_sent, resend_requested_for_block, ret>>
        /\ pc = "send" /\ pc' = "ack"
    BY DEF SendBlock
  <2>2. UNCHANGED <<Blocks, datasize>> BY <2>1 DEF Blocks, datasize
  <2>3. /\ i < Blocks /\ refused \in 0 .. 3
        /\ UNCHANGED target \/ Refuse \/ Accept(datasize)
    BY SentBlock
  <2>4. /\ count \in Nat \ {0} /\ total_bytes_sent \in Nat /\ datasize \in Nat \ {0}
        /\ total_bytes_sent + datasize <= count
    BY <2>3, BlockFacts
  <2>5. /\ replies = <<>> /\ Level(total_bytes_sent)
        /\ resend_requested_for_block <= 2 /\ refused = resend_requested_for_block
    BY <2>1 DEF Aligned
  <2>6. /\ \/ replies' = <<>> /\ Level(total_bytes_sent)'
           \/ /\ replies' = Resend /\ Level(total_bytes_sent)'
              /\ refused' = resend_requested_for_block' + 1
           \/ replies' = <<"OK">> /\ Level(total_bytes_sent + datasize)' /\ refused' = 0
        /\ refused' \in 0 .. 3 /\ due' \in 0 .. count /\ ram' \in Seq(0 .. count - 1)
    <3>1. due \in 0 .. count /\ ram \in Seq(0 .. count - 1) BY DEF TypeOK
    <3>2. CASE UNCHANGED target
      BY <2>1, <2>3, <2>5, <3>1, <3>2 DEF target, Level
    <3>3. CASE Refuse
      <4>1. replies' = Resend BY <2>5, <3>3 DEF Refuse, Resend
      <4>2. Level(total_bytes_sent)' /\ due' = due /\ ram' = ram
        BY <2>1, <2>5, <3>3 DEF Refuse, Level
      <4>3. refused' = resend_requested_for_block' + 1 /\ refused' \in 0 .. 3
        BY <1>0, <2>1, <2>3, <2>5, <3>3 DEF Refuse, MinOf
      <4> QED BY <3>1, <4>1, <4>2, <4>3
    <3>4. CASE Accept(datasize)
      <4> DEFINE n == total_bytes_sent + datasize
      <4>1. replies' = <<"OK">> /\ refused' = 0 BY <2>5, <3>4 DEF Accept
      <4>2. n \in Nat /\ n <= count /\ total_bytes_sent <= n BY <2>4
      <4>3. ram' = Bytes(0, n)
        <5>1. ram' = Bytes(0, total_bytes_sent) \o Bytes(total_bytes_sent, n)
          BY <2>5, <3>4 DEF Accept, Level
        <5> QED BY <2>4, <4>2, <5>1, BytesConcat
      <4>4. due' = count - n BY <2>4, <2>5, <3>4 DEF Accept, Level
      <4>5. Level(total_bytes_sent + datasize)' BY <2>1, <2>2, <4>3, <4>4 DEF Level
      <4>6. due' \in 0 .. count BY <2>4, <4>2, <4>4
      <4>7. ram' \in Seq(0 .. count - 1) BY <2>4, <4>2, <4>3, PrefixType
      <4> QED BY <4>1, <4>5, <4>6, <4>7
    <3> QED BY <2>3, <3>2, <3>3, <3>4
  <2>7. replies' \in Seq(Pieces)
    <3>1. Resend \in Seq(Pieces) BY DEF Resend, Pieces
    <3>2. <<"OK">> \in Seq(Pieces) BY DEF Pieces
    <3>3. <<>> \in Seq(Pieces) OBVIOUS
    <3> QED BY <2>6, <3>1, <3>2, <3>3
  <2>8. TypeOK' BY <2>1, <2>2, <2>3, <2>6, <2>7 DEF TypeOK
  <2>9. AtBlock' BY <2>1 DEF AtBlock
  <2>10. Aligned' /\ DeliveredWhole' /\ GivesUpForRefusals'
    BY <2>1 DEF Aligned, DeliveredWhole, GivesUpForRefusals, GivesUpAfterThree
  <2>11. Answered' BY <2>1, <2>2, <2>3, <2>5, <2>6 DEF Answered
  <2> QED BY <2>8, <2>9, <2>10, <2>11
<1>2. CASE ReadOk
  <2> USE <1>2
  <2>1. /\ Read /\ Head(replies) = "OK" /\ pc = "ack"
        /\ total_bytes_sent' = total_bytes_sent + datasize
        /\ resend_requested_for_block' = 0 /\ i' = i + 1
        /\ pc' = "send" /\ ret' = ret
    BY DEF ReadOk, Read
  <2>2. /\ replies' = <<>> /\ i < Blocks
        /\ UNCHANGED <<count, split, due, ram, refused>>
        /\ Level(total_bytes_sent + datasize) /\ refused = 0
    BY <2>1, ReadWhole
  <2>3. /\ i + 1 \in 0 .. Blocks /\ total_bytes_sent + datasize <= count
        /\ total_bytes_sent \in Nat /\ datasize \in Nat \ {0}
        /\ total_bytes_sent + datasize = MinOf((i + 1) * M, count)
    BY <2>2, BlockFacts
  <2>4. Blocks' = Blocks BY <2>2 DEF Blocks
  <2>5. <<>> \in Seq(Pieces) OBVIOUS
  <2>6. TypeOK'
    <3>1. /\ (count \in Counts)' /\ (pc \in {"send", "ack", "done"})'
          /\ (ret \in {0, -2, -5, -6})'
      BY <2>1, <2>2 DEF TypeOK
    <3>2. (i \in 0 .. Blocks)' BY <2>1, <2>3, <2>4
    <3>3. (total_bytes_sent \in 0 .. count)' BY <1>0, <2>1, <2>2, <2>3
    <3>4. (resend_requested_for_block \in 0 .. 3)' BY <2>1
    <3>5. (due \in 0 .. count)' /\ (ram \in Seq(0 .. count - 1))' /\ (refused \in 0 .. 3)'
      BY <2>2 DEF TypeOK
    <3>6. (replies \in Seq(Pieces))' /\ (split \in BOOLEAN)'
      BY <2>2, <2>5 DEF TypeOK
    <3> QED BY <3>1, <3>2, <3>3, <3>4, <3>5, <3>6 DEF TypeOK
  <2>7. AtBlock' BY <2>1, <2>2, <2>3 DEF AtBlock
  <2>8. Aligned' BY <2>1, <2>2 DEF Aligned, Level
  <2>9. Answered' /\ DeliveredWhole' /\ GivesUpForRefusals'
    BY <2>1 DEF Answered, DeliveredWhole, GivesUpForRefusals, GivesUpAfterThree
  <2> QED BY <2>6, <2>7, <2>8, <2>9
<1>3. CASE ReadOther
  <2> USE <1>3
  <2>1. /\ Read /\ Head(replies) # "OK" /\ pc = "ack"
        /\ resend_requested_for_block' = resend_requested_for_block + 1
        /\ UNCHANGED <<i, total_bytes_sent>>
        /\ \/ resend_requested_for_block' >= 3 /\ pc' = "done" /\ ret' = -2
           \/ resend_requested_for_block' < 3 /\ pc' = "send" /\ ret' = ret
    <3>1. Read /\ Head(replies) # "OK" BY DEF ReadOther
    <3>2. pc = "ack" BY <3>1 DEF Read
    <3>3. /\ resend_requested_for_block' = resend_requested_for_block + 1
          /\ UNCHANGED <<i, total_bytes_sent>>
      BY DEF ReadOther
    <3>4. IF resend_requested_for_block' >= 3 THEN pc' = "done" /\ ret' = -2
          ELSE pc' = "send" /\ ret' = ret
      BY DEF ReadOther, Return
    <3>5. resend_requested_for_block' \in Int BY <1>0, <3>3
    <3> QED BY <3>1, <3>2, <3>3, <3>4, <3>5
  <2>2. /\ replies' = <<>> /\ resend_requested_for_block <= 2
        /\ UNCHANGED <<count, split, due, ram, refused>>
        /\ Level(total_bytes_sent) /\ refused = resend_requested_for_block + 1
    BY <2>1, ReadWhole
  <2>3. Blocks' = Blocks BY <2>2 DEF Blocks
  <2>4. <<>> \in Seq(Pieces) OBVIOUS
  <2>5. TypeOK'
    <3>1. (count \in Counts)' /\ (total_bytes_sent \in 0 .. count)'
      BY <2>1, <2>2 DEF TypeOK
    <3>2. (pc \in {"send", "ack", "done"})' /\ (ret \in {0, -2, -5, -6})'
      BY <2>1 DEF TypeOK
    <3>3. (i \in 0 .. Blocks)' BY <2>1, <2>3 DEF TypeOK
    <3>4. (resend_requested_for_block \in 0 .. 3)' BY <1>0, <2>1, <2>2
    <3>5. (due \in 0 .. count)' /\ (ram \in Seq(0 .. count - 1))' /\ (refused \in 0 .. 3)'
      BY <2>2 DEF TypeOK
    <3>6. (replies \in Seq(Pieces))' /\ (split \in BOOLEAN)'
      BY <2>2, <2>4 DEF TypeOK
    <3> QED BY <3>1, <3>2, <3>3, <3>4, <3>5, <3>6 DEF TypeOK
  <2>6. AtBlock' BY <2>1, <2>2 DEF AtBlock
  <2>7. Aligned' BY <1>0, <2>1, <2>2 DEF Aligned, Level
  <2>8. Answered' BY <2>1 DEF Answered
  <2>9. DeliveredWhole' BY <2>1 DEF DeliveredWhole
  <2>10. GivesUpForRefusals' BY <2>1, <2>2 DEF GivesUpForRefusals, GivesUpAfterThree
  <2> QED BY <2>5, <2>6, <2>7, <2>8, <2>9, <2>10
<1>4. CASE SendBroken \/ ReadNothing \/ LoopEnds
  <2> USE <1>4
  <2>1. /\ UNCHANGED <<count, split, i, total_bytes_sent, resend_requested_for_block, target>>
        /\ pc' = "done" /\ ret' \in {0, -5, -6}
    BY DEF SendBroken, ReadNothing, LoopEnds, Return
  <2>2. Blocks' = Blocks BY <2>1 DEF Blocks
  <2>3. UNCHANGED <<due, ram, refused, replies>> BY <2>1 DEF target
  <2>4. TypeOK' BY <2>1, <2>2, <2>3 DEF TypeOK
  <2>5. AtBlock' BY <2>1 DEF AtBlock
  <2>6. Aligned' /\ Answered' /\ GivesUpForRefusals'
    BY <2>1 DEF Aligned, Answered, GivesUpForRefusals, GivesUpAfterThree
  <2>7. DeliveredWhole'
    <3>1. SUFFICES ASSUME ret' = 0 PROVE (ram = Bytes(0, count) /\ due = 0 /\ replies = <<>>)'
      BY DEF DeliveredWhole
    <3>2. LoopEnds BY <3>1 DEF SendBroken, ReadNothing, Return
    <3>3. pc = "send" /\ i = Blocks BY <3>2 DEF LoopEnds
    <3>4. total_bytes_sent = count
      <4>1. count <= Blocks * M BY <1>0, BlocksCover DEF M
      <4>2. M \in Nat BY TransferAssumption, BlockSizeAssumption DEF M
      <4>3. Blocks * M \in Nat BY <1>0, <4>2
      <4> QED BY <1>0, <3>3, <4>1, <4>3 DEF AtBlock, MinOf
    <3>5. replies = <<>> /\ Level(count) BY <3>3, <3>4 DEF Aligned
    <3> QED BY <1>0, <2>1, <2>3, <3>5 DEF Level
  <2> QED BY <2>4, <2>5, <2>6, <2>7
<1>5. CASE UNCHANGED vars
  <2>1. /\ UNCHANGED <<count, split, pc, i, total_bytes_sent, resend_requested_for_block, ret>>
        /\ UNCHANGED <<due, ram, refused, replies>>
    BY <1>5 DEF vars, host, target
  <2>2. Blocks' = Blocks /\ datasize' = datasize BY <2>1 DEF Blocks, datasize
  <2>3. TypeOK' BY <2>1, <2>2 DEF TypeOK
  <2>4. AtBlock' BY <2>1 DEF AtBlock
  <2>5. Aligned' BY <2>1 DEF Aligned, Level
  <2>6. Answered' BY <2>1, <2>2 DEF Answered, Level
  <2>7. DeliveredWhole' /\ GivesUpForRefusals' BY <2>1 DEF DeliveredWhole, GivesUpForRefusals, GivesUpAfterThree
  <2> QED BY <2>3, <2>4, <2>5, <2>6, <2>7
<1> QED BY <1>1, <1>2, <1>3, <1>4, <1>5 DEF Next

(* The call begins with both ends before the first byte.                   *)
LEMMA Initially == ASSUME Init PROVE IInv
<1>1. count \in Nat \ {0} /\ count \in Counts BY TransferAssumption, BlockSizeAssumption DEF Init
<1>2. Blocks \in Nat \ {0} BY <1>1, BlocksCover
<1>3. <<>> \in Seq(Pieces) /\ <<>> \in Seq(0 .. count - 1) OBVIOUS
<1>4. M \in Nat BY TransferAssumption, BlockSizeAssumption DEF M
<1>5. TypeOK BY <1>1, <1>2, <1>3, <1>4 DEF Init, TypeOK
<1>6. AtBlock BY <1>1, <1>4 DEF Init, AtBlock, MinOf
<1>7. Bytes(0, 0) = <<>> BY DEF Bytes
<1>8. Aligned BY <1>1, <1>7 DEF Init, Aligned, Level
<1>9. Answered /\ DeliveredWhole /\ GivesUpForRefusals
  BY DEF Init, Answered, DeliveredWhole, GivesUpForRefusals, GivesUpAfterThree
<1> QED BY <1>5, <1>6, <1>8, <1>9 DEF IInv

(* So it holds of every transfer whose replies come in one piece.          *)
LEMMA Invariance == Spec => [](~split => IInv)
<1> DEFINE J == ~split => IInv
<1>1. Init => J BY Initially
<1>2. J /\ [Next]_vars => J'
  <2> SUFFICES ASSUME J, [Next]_vars, ~split' PROVE IInv' OBVIOUS
  <2>1. split' = split
    BY DEF Next, SendBlock, SendBroken, ReadOk, ReadOther, Read, ReadNothing, LoopEnds, vars
  <2> QED BY <2>1, Inductive
<1>3. Spec => []J BY <1>1, <1>2, PTL DEF Spec
<1> QED BY <1>3

(***************************************************************************)
(* The theorems.                                                           *)
(***************************************************************************)

(* When replies are read whole, isp_send_buf_to_ram returns 0 only when    *)
(* all the data is in RAM, each byte once and in place, and nothing is     *)
(* left on the line.                                                       *)
THEOREM DeliveredWholeCorrect == Spec => []DeliveredWhole
<1>1. (~split => IInv) => DeliveredWhole BY DEF IInv, DeliveredWhole
<1> QED BY <1>1, Invariance, PTL

(* When replies are read whole, the ends agree on the next block whenever  *)
(* one is sent.                                                            *)
THEOREM InStepCorrect == Spec => []InStep
<1>1. (~split => IInv) => InStep
  <2> SUFFICES ASSUME IInv, pc = "send"
               PROVE  total_bytes_sent = count - due /\ ram = Bytes(0, total_bytes_sent)
    BY DEF InStep
  <2>1. due = count - total_bytes_sent /\ ram = Bytes(0, total_bytes_sent)
    BY DEF IInv, Aligned, Level
  <2>2. count \in Nat /\ total_bytes_sent \in Nat
    BY TransferAssumption, BlockSizeAssumption DEF IInv, TypeOK
  <2> QED BY <2>1, <2>2
<1> QED BY <1>1, Invariance, PTL

(* When replies are read whole, the transfer is given up for refusals only *)
(* after three of one block.                                               *)
THEOREM GivesUpCorrect == Spec => []GivesUpForRefusals
<1>1. (~split => IInv) => GivesUpForRefusals BY DEF IInv, GivesUpForRefusals
<1> QED BY <1>1, Invariance, PTL

(***************************************************************************)
(* The transfer implements DataTransfer.                                   *)
(***************************************************************************)
LEMMA Refines ==
  ASSUME ~split, IInv, [Next]_vars
  PROVE  [DT!Next]_DT!vars
<1> USE DEF IInv
<1>0. split' = split
  BY DEF Next, SendBlock, SendBroken, ReadOk, ReadOther, Read, ReadNothing, LoopEnds, vars
<1>1. CASE SendBlock
  <2> USE <1>1
  <2>1. pc = "send" /\ pc' = "ack" /\ count' = count BY DEF SendBlock
  <2>2. Result = "busy" /\ Result' = "busy" BY <2>1 DEF Result
  <2>3. i < Blocks /\ (UNCHANGED target \/ Refuse \/ Accept(datasize)) BY SentBlock
  <2>4. CASE UNCHANGED target \/ Refuse
    <3>1. ram' = ram BY <2>4 DEF target, Refuse
    <3> QED BY <1>0, <2>1, <2>2, <3>1 DEF DT!vars
  <2>5. CASE Accept(datasize)
    <3>1. /\ count \in Nat \ {0} /\ total_bytes_sent \in Nat /\ datasize \in Nat \ {0}
          /\ total_bytes_sent + datasize <= count
      BY <2>3, BlockFacts
    <3>2. Len(ram) = total_bytes_sent
      <4>1. ram = Bytes(0, total_bytes_sent) BY <2>1 DEF Aligned, Level
      <4>2. total_bytes_sent - 0 = total_bytes_sent /\ 0 <= total_bytes_sent BY <3>1
      <4> QED BY <3>1, <4>1, <4>2, BytesAre
    <3>3. ram' = ram \o Bytes(total_bytes_sent, total_bytes_sent + datasize)
      BY <2>5 DEF Accept
    <3>4. DT!Copy(datasize) BY <1>0, <2>1, <2>2, <3>2, <3>3 DEF DT!Copy, DT!Bytes, Bytes
    <3>5. datasize \in 1 .. count - Len(IF split THEN <<>> ELSE ram) BY <3>1, <3>2
    <3> QED BY <3>4, <3>5 DEF DT!Next
  <2> QED BY <2>3, <2>4, <2>5
<1>2. CASE ReadOk \/ ReadOther
  <2>1. ram' = ram /\ count' = count /\ pc = "ack" BY <1>2 DEF ReadOk, ReadOther, Read
  <2>2. Result = "busy" BY <2>1 DEF Result
  <2>3. pc' = "send" \/ (pc' = "done" /\ ret' = -2)
    BY <1>2 DEF ReadOk, ReadOther, Return
  <2>4. Result' = "busy" \/ Result' = "failed" BY <2>3 DEF Result
  <2> QED BY <1>0, <2>1, <2>2, <2>4 DEF DT!Next, DT!Fail, DT!vars
<1>3. CASE SendBroken \/ ReadNothing
  <2>1. ram' = ram /\ count' = count /\ pc # "done" /\ pc' = "done" /\ ret' # 0
    BY <1>3 DEF SendBroken, ReadNothing, Return, target
  <2>2. Result = "busy" /\ Result' = "failed" BY <2>1 DEF Result
  <2> QED BY <1>0, <2>1, <2>2 DEF DT!Next, DT!Fail
<1>4. CASE LoopEnds
  <2>1. /\ ram' = ram /\ count' = count /\ pc = "send" /\ i = Blocks
        /\ pc' = "done" /\ ret' = 0
    BY <1>4 DEF LoopEnds, Return, target
  <2>2. count \in Nat \ {0} /\ M \in Nat BY TransferAssumption, BlockSizeAssumption DEF TypeOK, M
  <2>3. Blocks \in Nat /\ count <= Blocks * M BY <2>2, BlocksCover DEF M
  <2>4. Blocks * M \in Nat BY <2>2, <2>3
  <2>5. total_bytes_sent = count BY <2>1, <2>2, <2>3, <2>4 DEF AtBlock, MinOf
  <2>6. ram = Bytes(0, count) BY <2>1, <2>5 DEF Aligned, Level
  <2>7. Len(ram) = count
    <3>1. count - 0 = count /\ 0 <= count BY <2>2
    <3> QED BY <2>2, <2>6, <3>1, BytesAre
  <2>8. Result = "busy" /\ Result' = "whole" BY <2>1 DEF Result
  <2> QED BY <1>0, <2>1, <2>7, <2>8 DEF DT!Next, DT!Succeed
<1>5. CASE UNCHANGED vars
  BY <1>5 DEF vars, host, target, DT!vars, Result
<1> QED BY <1>1, <1>2, <1>3, <1>4, <1>5 DEF Next

(* Every transfer whose replies are read whole is a run of DataTransfer:   *)
(* what is in RAM is always a prefix of the data, and success means all of *)
(* it.                                                                     *)
THEOREM Implementation == Spec => ImplementsDataTransfer
<1>1. Init => DT!Init
  <2> SUFFICES ASSUME Init PROVE DT!Init OBVIOUS
  <2>1. count \in Nat \ {0} /\ ram = <<>> BY TransferAssumption, BlockSizeAssumption DEF Init
  <2>2. Result = "busy" BY DEF Init, Result
  <2> QED BY <2>1, <2>2 DEF DT!Init
<1>2. (~split => IInv) /\ [Next]_vars => [DT!Next]_DT!vars
  <2> SUFFICES ASSUME ~split => IInv, [Next]_vars PROVE [DT!Next]_DT!vars OBVIOUS
  <2>1. CASE split
    <3>1. split' = split /\ count' = count
      BY DEF Next, SendBlock, SendBroken, ReadOk, ReadOther, Read, ReadNothing, LoopEnds, vars
    <3> QED BY <2>1, <3>1 DEF DT!vars
  <2>2. CASE ~split BY <2>2, Refines
  <2> QED BY <2>1, <2>2
<1> QED BY <1>1, <1>2, Invariance, PTL DEF Spec, DT!Spec, ImplementsDataTransfer

(***************************************************************************)
(* However the replies are split: the end of a "RESEND" read on its own is *)
(* taken for one more request, so that the host falls behind the target    *)
(* and several answers wait on the line.                                   *)
(***************************************************************************)

(* The host counts j blocks, the target k: every "OK" in r, not read yet,  *)
(* is for a block of its own in between.  c[n] is how many blocks the      *)
(* target had taken once it sent the n-th answer.                          *)
Books(r, j, k) ==
  \E c \in [0 .. Len(r) -> 0 .. k] :
    /\ j <= c[0]
    /\ \A m, n \in 0 .. Len(r) : m <= n => c[m] <= c[n]
    /\ \A n \in 1 .. Len(r) : r[n] = "OK" => c[n - 1] < c[n]

(* A target that still waits for data has taken whole blocks, and never    *)
(* fewer than the host counts.                                             *)
Ahead == due = 0 \/ \E k \in Nat : count - due = k * M /\ Books(replies, i, k)

(* The inductive invariant, whatever split is.                             *)
Booked ==
  /\ TypeOK /\ AtBlock /\ NeverShort
  /\ pc = "ack" => i < Blocks
  /\ pc # "done" => resend_requested_for_block <= 2 /\ Ahead

(* With nothing on the line the host may count all the target took.        *)
LEMMA BooksOpen ==
  ASSUME NEW k \in Nat
  PROVE  Books(<<>>, k, k)
<1> DEFINE c == [n \in 0 .. Len(<<>>) |-> k]
<1>1. c \in [0 .. Len(<<>>) -> 0 .. k] OBVIOUS
<1>2. k <= c[0] /\ \A m, n \in 0 .. Len(<<>>) : m <= n => c[m] <= c[n] OBVIOUS
<1>3. \A n \in 1 .. Len(<<>>) : <<>>[n] = "OK" => c[n - 1] < c[n] OBVIOUS
<1> HIDE DEF c
<1> QED BY <1>1, <1>2, <1>3 DEF Books

(* The host never counts more than the target took.                        *)
LEMMA BooksOrder ==
  ASSUME NEW r \in Seq(Pieces), NEW j \in Nat, NEW k \in Nat, Books(r, j, k)
  PROVE  j <= k
<1>1. PICK c \in [0 .. Len(r) -> 0 .. k] : j <= c[0] BY DEF Books
<1>2. 0 \in 0 .. Len(r) OBVIOUS
<1>3. c[0] \in 0 .. k BY <1>1, <1>2
<1> QED BY <1>1, <1>3

(* An answer that is no "OK" is for no block, an "OK" for a new one.       *)
LEMMA BooksGrow ==
  ASSUME NEW r \in Seq(Pieces), NEW t \in Seq(Pieces), NEW j \in Nat, NEW k \in Nat,
         NEW k2 \in Nat, k <= k2, Books(r, j, k),
         \A n \in 1 .. Len(t) : t[n] = "OK" => Len(t) = 1 /\ k < k2
  PROVE  Books(r \o t, j, k2)
<1>1. PICK c \in [0 .. Len(r) -> 0 .. k] :
        /\ j <= c[0]
        /\ \A m, n \in 0 .. Len(r) : m <= n => c[m] <= c[n]
        /\ \A n \in 1 .. Len(r) : r[n] = "OK" => c[n - 1] < c[n]
  BY DEF Books
<1> DEFINE s == r \o t
           d == [n \in 0 .. Len(s) |-> IF n <= Len(r) THEN c[n] ELSE k2]
<1>2. /\ Len(r) \in Nat /\ Len(t) \in Nat /\ Len(s) = Len(r) + Len(t)
      /\ \A n \in 1 .. Len(s) : s[n] = IF n <= Len(r) THEN r[n] ELSE t[n - Len(r)]
  BY ConcatProperties
<1>3. \A n \in 0 .. Len(r) : c[n] \in 0 .. k BY <1>1
<1>4. d \in [0 .. Len(s) -> 0 .. k2] BY <1>2, <1>3
<1>5. j <= d[0] BY <1>1, <1>2
<1> HIDE DEF s
<1>6. ASSUME NEW m \in 0 .. Len(s), NEW n \in 0 .. Len(s), m <= n PROVE d[m] <= d[n]
  <2>1. CASE n <= Len(r) BY <1>1, <1>2, <1>6, <2>1
  <2>2. CASE n > Len(r) BY <1>2, <1>3, <1>6, <2>2
  <2> QED BY <1>2, <2>1, <2>2
<1>7. ASSUME NEW n \in 1 .. Len(s), s[n] = "OK" PROVE d[n - 1] < d[n]
  <2>1. CASE n <= Len(r) BY <1>1, <1>2, <1>7, <2>1
  <2>2. CASE n > Len(r)
    <3>1. n - Len(r) \in 1 .. Len(t) /\ t[n - Len(r)] = "OK" BY <1>2, <1>7, <2>2
    <3>2. Len(t) = 1 /\ k < k2 BY <3>1
    <3>3. n - 1 = Len(r) BY <1>2, <3>1, <3>2
    <3>4. c[n - 1] \in 0 .. k BY <1>2, <1>3, <3>3
    <3> QED BY <1>2, <2>2, <3>2, <3>3, <3>4
  <2> QED BY <1>2, <2>1, <2>2
<1> HIDE DEF d
<1> QED BY <1>4, <1>5, <1>6, <1>7 DEF Books, s

(* What a read takes off the line counts for one block if it begins with   *)
(* an "OK", else for none.                                                 *)
LEMMA BooksRead ==
  ASSUME NEW r \in Seq(Pieces), NEW p \in 1 .. Len(r), NEW j \in Nat, NEW k \in Nat, Books(r, j, k)
  PROVE  LET s == SubSeq(r, p + 1, Len(r)) IN
         s \in Seq(Pieces) /\ Books(s, j, k) /\ (Head(r) = "OK" => Books(s, j + 1, k))
<1>1. PICK c \in [0 .. Len(r) -> 0 .. k] :
        /\ j <= c[0]
        /\ \A m, n \in 0 .. Len(r) : m <= n => c[m] <= c[n]
        /\ \A n \in 1 .. Len(r) : r[n] = "OK" => c[n - 1] < c[n]
  BY DEF Books
<1> DEFINE s == SubSeq(r, p + 1, Len(r))
           d == [n \in 0 .. Len(s) |-> c[n + p]]
<1>2. Len(r) \in Nat /\ p \in Nat /\ p >= 1 /\ p <= Len(r) OBVIOUS
<1>3. /\ s \in Seq(Pieces) /\ Len(s) = Len(r) - p
      /\ \A n \in 1 .. Len(s) : s[n] = r[n + p]
  <2>1. p + 1 \in 1 .. Len(r) + 1 /\ Len(r) \in p .. Len(r) BY <1>2
  <2>2. /\ Len(s) = IF p + 1 <= Len(r) THEN Len(r) - (p + 1) + 1 ELSE 0
        /\ \A n \in 1 .. Len(r) - (p + 1) + 1 : s[n] = r[p + 1 + n - 1]
    BY <1>2, SubSeqProperties
  <2>3. Len(s) = Len(r) - p BY <1>2, <2>2
  <2>4. \A n \in 1 .. Len(s) : n \in 1 .. Len(r) - (p + 1) + 1 /\ p + 1 + n - 1 = n + p BY <1>2, <2>3
  <2>5. \A n \in 1 .. Len(s) : s[n] = r[n + p] BY <2>2, <2>4
  <2>6. s \in Seq(Pieces) BY <1>2, SubSeqProperties
  <2> QED BY <2>3, <2>5, <2>6
<1>4. \A n \in 0 .. Len(s) : n + p \in 0 .. Len(r) BY <1>2, <1>3
<1>5. \A n \in 0 .. Len(r) : c[n] \in 0 .. k BY <1>1
<1>6. d \in [0 .. Len(s) -> 0 .. k] BY <1>4, <1>5
<1>7. 0 \in 0 .. Len(s) /\ d[0] = c[p] BY <1>2, <1>3
<1> HIDE DEF s
<1>8. \A m, n \in 0 .. Len(s) : m <= n => d[m] <= d[n]
  <2>1. ASSUME NEW m \in 0 .. Len(s), NEW n \in 0 .. Len(s), m <= n PROVE d[m] <= d[n]
    <3>1. m + p \in 0 .. Len(r) /\ n + p \in 0 .. Len(r) /\ m + p <= n + p BY <1>2, <1>4, <2>1
    <3> QED BY <1>1, <3>1
  <2> QED BY <2>1
<1>9. \A n \in 1 .. Len(s) : s[n] = "OK" => d[n - 1] < d[n]
  <2>1. ASSUME NEW n \in 1 .. Len(s), s[n] = "OK" PROVE d[n - 1] < d[n]
    <3>1. n + p \in 1 .. Len(r) /\ n - 1 \in 0 .. Len(s) /\ n \in 0 .. Len(s) BY <1>2, <1>3
    <3>2. r[n + p] = "OK" /\ (n - 1) + p = (n + p) - 1 BY <1>2, <1>3, <2>1
    <3> QED BY <1>1, <3>1, <3>2
  <2> QED BY <2>1
<1>10. c[0] <= c[p] /\ c[0] \in Nat /\ c[p] \in Nat BY <1>1, <1>2, <1>5
<1>11. Head(r) = "OK" => j + 1 <= c[p]
  <2>1. Head(r) = r[1] /\ 1 \in 1 .. Len(r) /\ 1 \in 0 .. Len(r) /\ p \in 0 .. Len(r) /\ 1 - 1 = 0 BY <1>2
  <2>2. c[1] <= c[p] /\ c[1] \in Nat BY <1>1, <1>2, <1>5, <2>1
  <2>3. Head(r) = "OK" => c[0] < c[1] BY <1>1, <2>1
  <2> QED BY <1>1, <1>10, <2>2, <2>3
<1> HIDE DEF d
<1>12. j <= d[0] BY <1>1, <1>7, <1>10
<1>13. Head(r) = "OK" => j + 1 <= d[0] BY <1>7, <1>11
<1> QED BY <1>3, <1>6, <1>8, <1>9, <1>12, <1>13 DEF Books, s

(* A block sent takes the target one block further, or to the end, or      *)
(* leaves it where it is.                                                  *)
LEMMA SendBooked ==
  ASSUME Booked, SendBlock
  PROVE  Booked'
<1>1. /\ UNCHANGED <<count, split, i, total_bytes_sent, resend_requested_for_block, ret>>
      /\ pc = "send" /\ pc' = "ack" /\ i < Blocks
  BY DEF SendBlock
<1>2. TypeOK /\ AtBlock /\ Ahead /\ resend_requested_for_block <= 2 BY <1>1 DEF Booked
<1>3. Blocks' = Blocks BY <1>1 DEF Blocks
<1>4. /\ count \in Nat \ {0} /\ i \in Nat /\ total_bytes_sent \in Nat /\ datasize \in Nat \ {0}
      /\ total_bytes_sent + datasize <= count
  BY <1>1, <1>2, BlockFacts
<1>5. M \in Nat \ {0} BY TransferAssumption, BlockSizeAssumption DEF M
<1>6. /\ due \in 0 .. count /\ ram \in Seq(0 .. count - 1) /\ refused \in 0 .. 3
      /\ replies \in Seq(Pieces)
  BY <1>2 DEF TypeOK
<1>8. \/ UNCHANGED target
      \/ Refuse
      \/ due = 0 /\ Misread
      \/ datasize <= due /\ Accept(datasize)
      \/ datasize > due /\ due > 0 /\ Accept(due)
  BY DEF SendBlock, Hear, HearAltered
<1>9. <<"OK">> \in Seq(Pieces) /\ Resend \in Seq(Pieces) /\ <<"error">> \in Seq(Pieces)
  BY DEF Pieces, Resend
<1>10. ASSUME NEW size \in Nat, size <= due, total_bytes_sent + size <= count
       PROVE  ram \o Bytes(total_bytes_sent, total_bytes_sent + size) \in Seq(0 .. count - 1)
  <2> DEFINE t == total_bytes_sent
             b == Bytes(t, t + size)
  <2>1. t \in Nat /\ t + size \in Nat /\ t <= t + size /\ t + size - t = size BY <1>4, <1>10
  <2>2. b = [n \in 1 .. size |-> t + n - 1] BY <2>1 DEF Bytes
  <2>3. \A n \in 1 .. size : t + n - 1 \in 0 .. count - 1 BY <1>4, <1>10, <2>1
  <2>4. [n \in 1 .. size |-> t + n - 1] \in Seq(0 .. count - 1)
    <3> DEFINE S == 0 .. count - 1
    <3> HIDE DEF S
    <3>1. \A n \in 1 .. size : t + n - 1 \in S BY <2>3 DEF S
    <3> QED BY <1>10, <3>1 DEF S
  <2>5. b \in Seq(0 .. count - 1) BY <2>2, <2>4
  <2> HIDE DEF b
  <2> QED BY <1>6, <2>5, ConcatProperties DEF b
<1>11. /\ due' \in 0 .. count /\ ram' \in Seq(0 .. count - 1) /\ refused' \in 0 .. 3
       /\ replies' \in Seq(Pieces)
  <2>1. CASE UNCHANGED target BY <1>6, <2>1 DEF target
  <2>2. CASE Refuse
    <3>1. replies' = replies \o Resend /\ refused' \in 0 .. 3 /\ due' = due /\ ram' = ram
      BY <1>6, <2>2 DEF Refuse, MinOf
    <3> QED BY <1>6, <1>9, <3>1, ConcatProperties
  <2>3. CASE Misread BY <1>6, <2>3 DEF Misread, Pieces
  <2>4. CASE datasize <= due /\ Accept(datasize)
    <3>1. ram' \in Seq(0 .. count - 1) BY <1>4, <1>10, <2>4 DEF Accept
    <3> QED BY <1>4, <1>6, <2>4, <3>1 DEF Accept, Pieces
  <2>5. CASE datasize > due /\ Accept(due)
    <3>1. total_bytes_sent + due <= count /\ due \in Nat /\ due <= due BY <1>4, <1>6, <2>5
    <3>2. ram' \in Seq(0 .. count - 1) BY <1>10, <2>5, <3>1 DEF Accept
    <3> QED BY <1>4, <1>6, <2>5, <3>2 DEF Accept, Pieces
  <2> QED BY <1>8, <2>1, <2>2, <2>3, <2>4, <2>5
<1>12. TypeOK' BY <1>1, <1>2, <1>3, <1>11 DEF TypeOK
<1>13. AtBlock' BY <1>1, <1>2 DEF AtBlock
<1>14. Ahead'
  <2>1. CASE due = 0
    <3>1. due' = 0 BY <1>4, <1>8, <2>1 DEF Refuse, Misread, target
    <3> QED BY <3>1 DEF Ahead
  <2>2. CASE due # 0
    <3>1. PICK k \in Nat : count - due = k * M /\ Books(replies, i, k) BY <1>2, <2>2 DEF Ahead
    <3>2. i <= k BY <1>4, <1>6, <3>1, BooksOrder
    <3>3. CASE UNCHANGED target BY <1>1, <3>1, <3>3 DEF target, Ahead
    <3>4. CASE Refuse
      <4>1. replies' = replies \o Resend /\ due' = due BY <3>4 DEF Refuse
      <4>2. \A n \in 1 .. Len(Resend) : Resend[n] # "OK" BY DEF Resend
      <4>3. Books(replies', i, k) BY <1>4, <1>6, <1>9, <3>1, <4>1, <4>2, BooksGrow
      <4> QED BY <1>1, <3>1, <4>1, <4>3 DEF Ahead
    <3>5. CASE datasize <= due /\ Accept(datasize)
      <4>1. replies' = replies \o <<"OK">> /\ due' = due - datasize BY <1>6, <3>5 DEF Accept
      <4>2. CASE datasize = M
        <5>1. k + 1 \in Nat /\ k <= k + 1 /\ k < k + 1 /\ Len(<<"OK">>) = 1 OBVIOUS
        <5>2. Books(replies', i, k + 1) BY <1>4, <1>6, <1>9, <3>1, <4>1, <5>1, BooksGrow
        <5>3. k * M \in Nat /\ (k + 1) * M = k * M + M BY <1>5
        <5>4. count - due' = (k + 1) * M BY <1>4, <1>5, <1>6, <3>1, <4>1, <4>2, <5>3
        <5> QED BY <1>1, <5>1, <5>2, <5>4 DEF Ahead
      <4>3. CASE datasize # M
        <5>1. datasize = count - total_bytes_sent
          BY <4>3 DEF datasize, MinOf, M
        <5>2. total_bytes_sent = i * M \/ total_bytes_sent = count
          BY <1>2 DEF AtBlock, MinOf
        <5> DEFINE host_at == i * M
                   target_at == k * M
        <5>3. host_at \in Nat /\ target_at \in Nat /\ host_at <= target_at BY <1>4, <1>5, <3>2
        <5>4. (total_bytes_sent = host_at \/ total_bytes_sent = count) /\ count - due = target_at
          BY <3>1, <5>2
        <5> HIDE DEF host_at, target_at
        <5>5. due' = 0 BY <1>4, <1>6, <3>5, <4>1, <5>1, <5>3, <5>4
        <5> QED BY <5>5 DEF Ahead
      <4> QED BY <4>2, <4>3
    <3>6. CASE Accept(due)
      <4>1. due' = 0 BY <1>6, <3>6 DEF Accept
      <4> QED BY <4>1 DEF Ahead
    <3> QED BY <1>8, <2>2, <3>3, <3>4, <3>5, <3>6
  <2> QED BY <2>1, <2>2
<1> QED BY <1>1, <1>2, <1>3, <1>12, <1>13, <1>14 DEF Booked, NeverShort

(* A read takes at most the blocks it accounts for off the books.          *)
LEMMA ReadBooked ==
  ASSUME Booked, ReadOk \/ ReadOther
  PROVE  Booked'
<1>1. /\ pc = "ack" /\ replies # <<>> /\ UNCHANGED <<count, split, due, ram, refused>>
      /\ \E n \in 1 .. Len(replies) : replies' = SubSeq(replies, n + 1, Len(replies))
  <2>1. Read BY DEF ReadOk, ReadOther
  <2>2. PICK n \in Taken : replies' = SubSeq(replies, n + 1, Len(replies)) BY <2>1 DEF Read
  <2>3. replies \in Seq(Pieces) /\ replies # <<>> BY <2>1 DEF Read, Booked, TypeOK
  <2>4. Len(replies) \in 1 .. Len(replies) BY <2>3
  <2>5. n \in 1 .. Len(replies) BY <2>2, <2>4 DEF Taken
  <2> QED BY <2>1, <2>2, <2>5 DEF Read
<1>2. TypeOK /\ AtBlock /\ Ahead /\ i < Blocks /\ resend_requested_for_block <= 2
  BY <1>1 DEF Booked
<1>3. /\ count \in Nat \ {0} /\ i \in Nat /\ i + 1 \in 0 .. Blocks
      /\ total_bytes_sent \in Nat /\ datasize \in Nat \ {0}
      /\ total_bytes_sent + datasize <= count
      /\ total_bytes_sent + datasize = MinOf((i + 1) * M, count)
  BY <1>2, BlockFacts
<1>4. Blocks' = Blocks BY <1>1 DEF Blocks
<1>5. PICK n \in 1 .. Len(replies) : replies' = SubSeq(replies, n + 1, Len(replies)) BY <1>1
<1>6. /\ replies \in Seq(Pieces) /\ replies' \in Seq(Pieces)
      /\ \A k \in Nat : Books(replies, i, k) =>
           Books(replies', i, k) /\ (Head(replies) = "OK" => Books(replies', i + 1, k))
  <2>1. replies \in Seq(Pieces) BY <1>2 DEF TypeOK
  <2>2. replies' \in Seq(Pieces) BY <1>5, <2>1
  <2>3. ASSUME NEW k \in Nat, Books(replies, i, k)
        PROVE  Books(replies', i, k) /\ (Head(replies) = "OK" => Books(replies', i + 1, k))
    BY <1>3, <1>5, <2>1, <2>3, BooksRead
  <2> QED BY <2>1, <2>2, <2>3
<1>7. resend_requested_for_block \in 0 .. 2 BY <1>2 DEF TypeOK
<1>8. CASE ReadOk
  <2>1. /\ total_bytes_sent' = total_bytes_sent + datasize /\ resend_requested_for_block' = 0
        /\ i' = i + 1 /\ pc' = "send" /\ ret' = ret /\ Head(replies) = "OK"
    BY <1>8 DEF ReadOk
  <2>2. TypeOK'
    <3>1. (total_bytes_sent \in 0 .. count)' BY <1>1, <1>3, <2>1
    <3>2. (i \in 0 .. Blocks)' BY <1>3, <1>4, <2>1
    <3> QED BY <1>1, <1>2, <1>6, <2>1, <3>1, <3>2 DEF TypeOK
  <2>3. AtBlock' BY <1>1, <1>3, <2>1 DEF AtBlock
  <2>4. Ahead' BY <1>1, <1>2, <1>6, <2>1 DEF Ahead
  <2> QED BY <2>1, <2>2, <2>3, <2>4 DEF Booked, NeverShort
<1>9. CASE ReadOther
  <2>1. /\ resend_requested_for_block' = resend_requested_for_block + 1
        /\ UNCHANGED <<i, total_bytes_sent>>
        /\ IF resend_requested_for_block' >= 3 THEN pc' = "done" /\ ret' = -2
           ELSE pc' = "send" /\ ret' = ret
    BY <1>9 DEF ReadOther, Return
  <2>2. resend_requested_for_block' \in 1 .. 3 BY <1>7, <2>1
  <2>3. \/ pc' = "done" /\ ret' = -2
        \/ pc' = "send" /\ ret' = ret /\ resend_requested_for_block' <= 2
    BY <2>1, <2>2
  <2>4. TypeOK' BY <1>1, <1>2, <1>4, <1>6, <2>1, <2>2, <2>3 DEF TypeOK
  <2>5. AtBlock' BY <1>1, <1>2, <2>1 DEF AtBlock
  <2>6. Ahead' BY <1>1, <1>2, <1>6, <2>1 DEF Ahead
  <2> QED BY <2>3, <2>4, <2>5, <2>6 DEF Booked, NeverShort
<1> QED BY <1>8, <1>9

(* Every step keeps the books, whatever piece of a reply a read takes.     *)
LEMMA BookedStep ==
  ASSUME Booked, [Next]_vars
  PROVE  Booked'
<1>1. CASE SendBroken \/ ReadNothing \/ LoopEnds
  <2>1. /\ UNCHANGED <<count, split, i, total_bytes_sent, resend_requested_for_block, target>>
        /\ pc # "done" /\ pc' = "done" /\ ret' \in {0, -5, -6} /\ (ret' = 0 => i = Blocks)
    BY <1>1 DEF SendBroken, ReadNothing, LoopEnds, Return
  <2>2. TypeOK /\ AtBlock /\ Ahead BY <2>1 DEF Booked
  <2>3. Blocks' = Blocks BY <2>1 DEF Blocks
  <2>4. TypeOK' /\ AtBlock' BY <2>1, <2>2, <2>3 DEF TypeOK, AtBlock, target
  <2>5. NeverShort'
    <3> SUFFICES ASSUME ret' = 0, due # 0 PROVE FALSE BY <2>1 DEF NeverShort, target
    <3>1. i = Blocks BY <2>1
    <3>2. count \in Nat \ {0} /\ M \in Nat \ {0} BY <2>2, TransferAssumption, BlockSizeAssumption DEF TypeOK, M
    <3>3. Blocks \in Nat /\ count <= Blocks * M BY <3>2, BlocksCover DEF M
    <3>4. PICK k \in Nat : count - due = k * M /\ Books(replies, i, k) BY <2>2 DEF Ahead
    <3>5. replies \in Seq(Pieces) /\ due \in 0 .. count BY <2>2 DEF TypeOK
    <3>6. i <= k BY <3>1, <3>3, <3>4, <3>5, BooksOrder
    <3>7. Blocks * M <= k * M /\ Blocks * M \in Nat /\ k * M \in Nat BY <3>1, <3>2, <3>3, <3>6
    <3> QED BY <3>2, <3>3, <3>4, <3>5, <3>7
  <2> QED BY <2>1, <2>4, <2>5 DEF Booked
<1>2. CASE UNCHANGED vars
  <2>1. /\ UNCHANGED <<count, split, pc, i, total_bytes_sent, resend_requested_for_block, ret>>
        /\ UNCHANGED <<due, ram, refused, replies>>
    BY <1>2 DEF vars, host, target
  <2>2. Blocks' = Blocks BY <2>1 DEF Blocks
  <2>3. TypeOK' /\ AtBlock' /\ NeverShort' BY <2>1, <2>2 DEF Booked, TypeOK, AtBlock, NeverShort
  <2>4. Ahead => Ahead' BY <2>1 DEF Ahead
  <2> QED BY <2>1, <2>2, <2>3, <2>4 DEF Booked
<1> QED BY <1>1, <1>2, SendBooked, ReadBooked DEF Next

(* So they are kept throughout every transfer.                             *)
LEMMA BookedAlways == Spec => []Booked
<1>1. Init => Booked
  <2> SUFFICES ASSUME Init PROVE Booked OBVIOUS
  <2>1. TypeOK /\ AtBlock BY Initially DEF IInv
  <2>2. count \in Nat \ {0} /\ M \in Nat BY TransferAssumption, BlockSizeAssumption DEF Init, M
  <2>3. count - due = 0 * M /\ replies = <<>> /\ i = 0 BY <2>2 DEF Init
  <2>4. Ahead BY <2>3, BooksOpen DEF Ahead
  <2> QED BY <2>1, <2>4 DEF Init, Booked, NeverShort
<1> QED BY <1>1, BookedStep, PTL DEF Spec

(* Every variable keeps its type, for every size of data and of blocks.    *)
THEOREM TypeCorrect == Spec => []TypeOK
<1>1. Booked => TypeOK BY DEF Booked
<1> QED BY <1>1, BookedAlways, PTL

(* However its replies are split, the target has as many bytes as were to  *)
(* be sent when isp_send_buf_to_ram returns 0.                             *)
THEOREM NeverShortCorrect == Spec => []NeverShort
<1>1. Booked => NeverShort BY DEF Booked
<1> QED BY <1>1, BookedAlways, PTL
=============================================================================
