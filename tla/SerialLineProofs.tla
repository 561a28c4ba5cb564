-------------------------- MODULE SerialLineProofs --------------------------
(***************************************************************************)
(* The serial line for every text, every block and every size of the       *)
(* driver's buffer: what isp_serial_read hands over, what                  *)
(* isp_serial_empty_buffer throws away, when a call gives up, and what a   *)
(* block that was read decodes to.                                         *)
(***************************************************************************)
EXTENDS SerialLine, SequenceTheorems, WellFoundedInduction, TLAPS

(***************************************************************************)
(* Sequences put together from pieces.                                     *)
(***************************************************************************)

(* A set of numbers has a least one.                                       *)
LEMMA Least ==
  ASSUME NEW T \in SUBSET Nat, T # {}
  PROVE  \E n \in T : \A m \in T : n <= m
<1> DEFINE R == OpToRel(<, Nat)
<1>1. IsWellFoundedOn(R, Nat) BY NatLessThanWellFounded
<1>2. \A a, b \in Nat : <<a, b>> \in R <=> a < b BY DEF OpToRel
<1> HIDE DEF R
<1>3. PICK x \in T : \A y \in T : ~ (<<y, x>> \in R) BY <1>1, WFMin
<1>4. \A y \in T : ~(y < x) BY <1>2, <1>3
<1> QED BY <1>4

(* A set of numbers that holds 0 and with each number the next holds them  *)
(* all.                                                                    *)
LEMMA Induction ==
  ASSUME NEW T, 0 \in T, \A n \in Nat : n \in T => n + 1 \in T
  PROVE  Nat \subseteq T
<1> SUFFICES ASSUME Nat \ T # {} PROVE FALSE OBVIOUS
<1>1. PICK n \in Nat \ T : \A m \in Nat \ T : n <= m BY Least
<1>2. n # 0 OBVIOUS
<1>3. n - 1 \in Nat /\ n - 1 \in T BY <1>1, <1>2
<1>4. n - 1 + 1 = n OBVIOUS
<1> QED BY <1>3, <1>4

Ascending(f, S, N, first, step) ==
  /\ f \in [1 .. N -> S]
  /\ \A n \in 1 .. N : f[n] = IF n = 1 THEN first ELSE step[n][f[n - 1]]

(* A function defined by what precedes each of its values exists.          *)
LEMMA Ascent ==
  ASSUME NEW S, NEW N \in Nat \ {0}, NEW first \in S, NEW step \in [1 .. N -> [S -> S]]
  PROVE  \E f : Ascending(f, S, N, first, step)
<1> DEFINE Is(f, m) == \A n \in 1 .. m : f[n] = IF n = 1 THEN first ELSE step[n][f[n - 1]]
           T == {k \in Nat : k + 1 <= N => \E f \in [1 .. k + 1 -> S] : Is(f, k + 1)}
<1>1. 0 \in T
  <2> DEFINE g == [n \in 1 .. 1 |-> first]
  <2>1. g \in [1 .. 0 + 1 -> S] /\ Is(g, 0 + 1) OBVIOUS
  <2> QED BY <2>1
<1>2. ASSUME NEW k \in Nat, k \in T, k + 1 + 1 <= N PROVE \E f \in [1 .. k + 1 + 1 -> S] : Is(f, k + 1 + 1)
  <2>1. PICK f \in [1 .. k + 1 -> S] : Is(f, k + 1) BY <1>2
  <2> DEFINE g == [n \in 1 .. k + 2 |-> IF n <= k + 1 THEN f[n] ELSE step[k + 2][f[k + 1]]]
  <2>2. g \in [1 .. k + 2 -> S]
    <3>1. k + 1 \in 1 .. k + 1 /\ k + 2 \in 1 .. N BY <1>2
    <3>2. f[k + 1] \in S /\ step[k + 2] \in [S -> S] BY <3>1
    <3>3. step[k + 2][f[k + 1]] \in S BY <3>2
    <3>4. \A n \in 1 .. k + 2 : n <= k + 1 => f[n] \in S OBVIOUS
    <3> QED BY <3>3, <3>4
  <2>3. \A n \in 1 .. k + 2 : n <= k + 1 => g[n] = f[n] /\ (n # 1 => n - 1 \in 1 .. k + 2 /\ g[n - 1] = f[n - 1]) OBVIOUS
  <2>4. g[k + 2] = step[k + 2][f[k + 1]] OBVIOUS
  <2>5. g[k + 1] = f[k + 1] OBVIOUS
  <2> HIDE DEF g
  <2>6. Is(g, k + 2)
    <3> SUFFICES ASSUME NEW n \in 1 .. k + 2 PROVE g[n] = IF n = 1 THEN first ELSE step[n][g[n - 1]] OBVIOUS
    <3>1. CASE n <= k + 1 BY <2>1, <2>3, <3>1
    <3>2. CASE n = k + 2 BY <2>4, <2>5, <3>2
    <3> QED BY <3>1, <3>2
  <2>7. k + 1 + 1 = k + 2 OBVIOUS
  <2> QED BY <2>2, <2>6, <2>7
<1>3. ASSUME NEW k \in Nat, k \in T PROVE k + 1 \in T
  <2>1. k + 1 + 1 <= N => \E f \in [1 .. k + 1 + 1 -> S] : Is(f, k + 1 + 1) BY <1>2, <1>3
  <2> HIDE DEF Is
  <2> QED BY <2>1
<1> HIDE DEF T
<1>4. Nat \subseteq T BY <1>1, <1>3, Induction
<1>5. N - 1 \in T /\ N - 1 + 1 = N BY <1>4
<1> QED BY <1>5 DEF T, Ascending

(* FlattenSeq, through the function that appends one piece after the       *)
(* other.                                                                  *)
LEMMA FlattenFunction ==
  ASSUME NEW S, NEW seqs \in Seq(Seq(S)), seqs # <<>>
  PROVE  \E f \in [1 .. Len(seqs) -> Seq(S)] :
           /\ \A i \in 1 .. Len(seqs) : f[i] = IF i = 1 THEN seqs[1] ELSE f[i - 1] \o seqs[i]
           /\ FlattenSeq(seqs) = f[Len(seqs)]
<1> DEFINE N == Len(seqs)
           Def(f) == [i \in 1 .. N |-> IF i = 1 THEN seqs[i] ELSE f[i - 1] \o seqs[i]]
           step == [i \in 1 .. N |-> [s \in Seq(S) |-> s \o seqs[i]]]
<1>1. N \in Nat \ {0} /\ \A i \in 1 .. N : seqs[i] \in Seq(S) OBVIOUS
<1>2. step \in [1 .. N -> [Seq(S) -> Seq(S)]] BY <1>1
<1>3. PICK g \in [1 .. N -> Seq(S)] : \A n \in 1 .. N : g[n] = IF n = 1 THEN seqs[1] ELSE step[n][g[n - 1]]
  <2>1. seqs[1] \in Seq(S) /\ N \in Nat \ {0} BY <1>1
  <2> HIDE DEF step, N
  <2>2. \E g : Ascending(g, Seq(S), N, seqs[1], step) BY <1>2, <2>1, Ascent
  <2> QED BY <2>2 DEF Ascending
<1>4. g = Def(g)
  <2>1. \A i \in 1 .. N : i # 1 => i - 1 \in 1 .. N BY <1>1
  <2>2. \A i \in 1 .. N : i # 1 => g[i - 1] \in Seq(S) BY <2>1
  <2>3. \A i \in 1 .. N : g[i] = IF i = 1 THEN seqs[i] ELSE g[i - 1] \o seqs[i] BY <1>3, <2>2
  <2> QED BY <2>3
<1> DEFINE flatten == CHOOSE f : f = Def(f)
<1>5. flatten = Def(flatten)
  <2> HIDE DEF Def
  <2> QED BY <1>4
<1>6. FlattenSeq(seqs) = flatten[N]
  BY <1>1 DEF FlattenSeq
<1> HIDE DEF flatten
<1>7. \A i \in 1 .. N : flatten[i] = IF i = 1 THEN seqs[1] ELSE flatten[i - 1] \o seqs[i]
  BY <1>5
<1> DEFINE T == {k \in Nat : k + 1 <= N => flatten[k + 1] \in Seq(S)}
<1>8. 0 \in T
  <2>1. 1 \in 1 .. N BY <1>1
  <2>2. flatten[0 + 1] = seqs[1] BY <1>7, <2>1
  <2> QED BY <1>1, <2>1, <2>2
<1>9. ASSUME NEW k \in Nat, k \in T PROVE k + 1 \in T
  <2> SUFFICES ASSUME k + 1 + 1 <= N PROVE flatten[k + 1 + 1] \in Seq(S) OBVIOUS
  <2>1. k + 2 \in 1 .. N /\ k + 2 # 1 /\ k + 2 - 1 = k + 1 /\ k + 1 + 1 = k + 2 BY <1>1
  <2>2. flatten[k + 2] = flatten[k + 1] \o seqs[k + 2]
    <3> DEFINE j == k + 2
    <3>1. j \in 1 .. N /\ j # 1 /\ j - 1 = k + 1 BY <2>1
    <3> HIDE DEF j, N
    <3>2. flatten[j] = flatten[j - 1] \o seqs[j] BY <1>7, <3>1
    <3>3. flatten[j] = flatten[k + 1] \o seqs[j] BY <3>1, <3>2
    <3> QED BY <3>3 DEF j
  <2>3. flatten[k + 1] \in Seq(S) /\ seqs[k + 2] \in Seq(S) BY <1>1, <1>9, <2>1
  <2>4. flatten[k + 1] \o seqs[k + 2] \in Seq(S) BY <2>3, ConcatProperties
  <2> QED BY <2>1, <2>2, <2>4
<1>10. Nat \subseteq T
  <2> HIDE DEF T
  <2> QED BY <1>8, <1>9, Induction
<1>11. ASSUME NEW i \in 1 .. N PROVE flatten[i] \in Seq(S)
  <2>1. i - 1 \in Nat /\ i - 1 + 1 = i /\ i <= N BY <1>1
  <2>2. i - 1 \in T
    <3> HIDE DEF T
    <3> QED BY <1>10, <2>1
  <2> QED BY <2>1, <2>2
<1>12. flatten \in [1 .. N -> Seq(S)] BY <1>5, <1>11
<1> QED BY <1>6, <1>7, <1>12

SameLength(seqs, n, L) == \A i \in 1 .. n : Len(seqs[i]) = L
Placed(s, seqs, L) ==
  \A i \in 1 .. Len(seqs) : \A j \in 1 .. Len(seqs[i]) : s[(i - 1) * L + j] = seqs[i][j]

(* One piece after the other: each is found where those before it end.     *)
LEMMA FlattenPieces ==
  ASSUME NEW S, NEW L \in Nat, NEW seqs \in Seq(Seq(S)), seqs # <<>>,
         SameLength(seqs, Len(seqs) - 1, L)
  PROVE  /\ FlattenSeq(seqs) \in Seq(S)
         /\ Len(FlattenSeq(seqs)) = (Len(seqs) - 1) * L + Len(seqs[Len(seqs)])
         /\ Placed(FlattenSeq(seqs), seqs, L)
<1> USE DEF SameLength, Placed
<1> DEFINE N == Len(seqs)
<1>1. N \in Nat \ {0} /\ \A i \in 1 .. N : seqs[i] \in Seq(S) OBVIOUS
<1>2. PICK f \in [1 .. N -> Seq(S)] :
        /\ \A i \in 1 .. N : f[i] = IF i = 1 THEN seqs[1] ELSE f[i - 1] \o seqs[i]
        /\ FlattenSeq(seqs) = f[N]
  BY FlattenFunction
<1> DEFINE Is(k) == /\ Len(f[k]) = (k - 1) * L + Len(seqs[k])
                    /\ \A i \in 1 .. k : \A j \in 1 .. Len(seqs[i]) : f[k][(i - 1) * L + j] = seqs[i][j]
           T == {k \in Nat : k + 1 <= N => Is(k + 1)}
<1> HIDE DEF N
<1>3. 0 \in T
  <2>1. 1 \in 1 .. N BY <1>1
  <2>2. f[1] = seqs[1] /\ seqs[1] \in Seq(S) BY <1>1, <1>2, <2>1
  <2>3. 0 * L = 0 OBVIOUS
  <2>4. Is(1)
    <3>1. Len(f[1]) = (1 - 1) * L + Len(seqs[1])
      <4>1. Len(seqs[1]) \in Nat BY <2>2
      <4>0. \A n \in Nat : (1 - 1) * L + n = n OBVIOUS
      <4>2. (1 - 1) * L + Len(seqs[1]) = Len(seqs[1]) BY <4>0, <4>1, Zenon
      <4>3. Len(f[1]) = Len(seqs[1]) BY <2>2
      <4> QED BY <4>2, <4>3, Zenon
    <3>2. ASSUME NEW i \in 1 .. 1, NEW j \in 1 .. Len(seqs[i]) PROVE f[1][(i - 1) * L + j] = seqs[i][j]
      <4>1. i = 1 OBVIOUS
      <4>2. j \in Nat /\ (i - 1) * L + j = j BY <2>2, <2>3, <4>1
      <4> QED BY <2>2, <4>1, <4>2
    <3> QED BY <3>1, <3>2
  <2> HIDE DEF Is
  <2> QED BY <2>4
<1>4. ASSUME NEW k \in Nat, k \in T PROVE k + 1 \in T
  <2> SUFFICES ASSUME k + 2 <= N PROVE Is(k + 2)
    <3>1. k + 1 + 1 = k + 2 OBVIOUS
    <3> HIDE DEF Is
    <3> QED BY <3>1
  <2> DEFINE a == f[k + 1]
             b == seqs[k + 2]
  <2>1. k + 1 \in 1 .. N /\ k + 2 \in 1 .. N /\ k + 2 # 1 /\ k + 2 - 1 = k + 1 BY <1>1
  <2>2. f[k + 2] = a \o b
    <3> DEFINE j == k + 2
    <3>1. j \in 1 .. N /\ j # 1 /\ j - 1 = k + 1 BY <2>1
    <3> HIDE DEF j
    <3>2. f[j] = f[j - 1] \o seqs[j] BY <1>2, <3>1
    <3>3. f[j] = f[k + 1] \o seqs[j] BY <3>1, <3>2
    <3> QED BY <3>3 DEF j
  <2>3. a \in Seq(S) /\ b \in Seq(S) BY <1>1, <1>2, <2>1
  <2>4. Is(k + 1)
    <3>1. k + 1 <= N BY <2>1
    <3> HIDE DEF Is
    <3> QED BY <1>4, <3>1
  <2>5. Len(a) = (k + 1) * L
    <3>1. Len(seqs[k + 1]) = L BY <1>1, <2>1 DEF N
    <3>2. Len(a) = (k + 1 - 1) * L + L BY <2>4, <3>1
    <3> QED BY <3>2
  <2>6. /\ Len(a \o b) = Len(a) + Len(b)
        /\ \A n \in 1 .. Len(a) + Len(b) : (a \o b)[n] = IF n <= Len(a) THEN a[n] ELSE b[n - Len(a)]
        /\ Len(a) \in Nat /\ Len(b) \in Nat
    <3> HIDE DEF a, b
    <3> QED BY <2>3, ConcatProperties
  <2>7. Len(f[k + 2]) = (k + 2 - 1) * L + Len(seqs[k + 2])
    BY <2>1, <2>2, <2>5, <2>6
  <2>8. ASSUME NEW i \in 1 .. k + 2, NEW j \in 1 .. Len(seqs[i])
        PROVE  f[k + 2][(i - 1) * L + j] = seqs[i][j]
    <3>1. i \in 1 .. N /\ seqs[i] \in Seq(S) /\ Len(seqs[i]) \in Nat BY <1>1, <2>1
    <3>2. (i - 1) * L \in Nat BY <3>1
    <3>3. CASE i = k + 2
      <4>1. (i - 1) * L = Len(a) BY <2>5, <3>3
      <4>2. seqs[i] = b BY <3>3
      <4> HIDE DEF a, b
      <4>3. Len(a) + j \in 1 .. Len(a) + Len(b) /\ ~(Len(a) + j <= Len(a)) /\ Len(a) + j - Len(a) = j
        BY <2>6, <4>2
      <4>4. (a \o b)[Len(a) + j] = b[j] BY <2>6, <4>3
      <4> QED BY <2>2, <4>1, <4>2, <4>4
    <3>4. CASE i # k + 2
      <4>1. i \in 1 .. k + 1 /\ Len(seqs[i]) = L BY <1>1, <2>1, <3>1, <3>4 DEF N
      <4>2. a[(i - 1) * L + j] = seqs[i][j] BY <2>4, <4>1
      <4>3. (i - 1) * L + j <= (k + 1) * L
        <5> DEFINE p == (i - 1) * L
                   q == (k + 1) * L
                   r == i * L
        <5>1. p \in Int /\ q \in Int /\ r \in Int /\ r <= q /\ p + L = r BY <4>1
        <5>2. j \in Int /\ j <= L BY <4>1
        <5> HIDE DEF p, q, r
        <5>3. p + j <= q BY <5>1, <5>2
        <5> QED BY <5>3 DEF p, q
      <4> HIDE DEF a, b
      <4>4. (i - 1) * L + j \in 1 .. Len(a) + Len(b) /\ (i - 1) * L + j <= Len(a)
        <5>1. j \in Nat \ {0} BY <3>1
        <5> DEFINE p == (i - 1) * L
        <5>2. p \in Nat /\ p + j <= Len(a) BY <2>5, <3>2, <4>3
        <5> HIDE DEF p
        <5>3. p + j \in 1 .. Len(a) + Len(b) /\ p + j <= Len(a) BY <2>6, <5>1, <5>2
        <5> QED BY <5>3 DEF p
      <4>5. (a \o b)[(i - 1) * L + j] = a[(i - 1) * L + j] BY <2>6, <4>4
      <4> QED BY <2>2, <4>2, <4>5
    <3> QED BY <3>3, <3>4
  <2> QED BY <2>7, <2>8
<1>5. Is(N)
  <2>1. Nat \subseteq T
    <3> HIDE DEF T
    <3> QED BY <1>3, <1>4, Induction
  <2>2. N - 1 \in Nat /\ N - 1 + 1 = N BY <1>1
  <2>3. N - 1 \in T
    <3> HIDE DEF T
    <3> QED BY <2>1, <2>2
  <2> HIDE DEF Is
  <2> QED BY <2>2, <2>3
<1>6. N \in 1 .. N BY <1>1
<1> QED BY <1>2, <1>5, <1>6 DEF N

(* The first piece, then the rest of them.                                 *)
LEMMA FlattenHead ==
  ASSUME NEW S, NEW seqs \in Seq(Seq(S)), seqs # <<>>
  PROVE  FlattenSeq(seqs) \in Seq(S) /\ FlattenSeq(Tail(seqs)) \in Seq(S) /\ FlattenSeq(seqs) = seqs[1] \o FlattenSeq(Tail(seqs))
<1> DEFINE N == Len(seqs)
           t == Tail(seqs)
<1>1. N \in Nat \ {0} /\ \A i \in 1 .. N : seqs[i] \in Seq(S) OBVIOUS
<1>2. t \in Seq(Seq(S)) /\ Len(t) = N - 1 /\ \A i \in 1 .. N - 1 : t[i] = seqs[i + 1]
  BY HeadTailProperties
<1>3. PICK f \in [1 .. N -> Seq(S)] :
        /\ \A i \in 1 .. N : f[i] = IF i = 1 THEN seqs[1] ELSE f[i - 1] \o seqs[i]
        /\ FlattenSeq(seqs) = f[N]
  BY FlattenFunction
<1> HIDE DEF N, t
<1>4. FlattenSeq(seqs) \in Seq(S)
  <2>1. N \in 1 .. N BY <1>1
  <2> QED BY <1>3, <2>1
<1>5. CASE N = 1
  <2>1. t = <<>> BY <1>2, <1>5
  <2>2. FlattenSeq(t) = <<>> BY <2>1 DEF FlattenSeq
  <2>3. FlattenSeq(seqs) = seqs[1] /\ seqs[1] \in Seq(S) BY <1>1, <1>3, <1>5
  <2>4. seqs[1] \o <<>> = seqs[1] /\ <<>> \in Seq(S) BY <2>3, ConcatEmptySeq
  <2> QED BY <1>4, <2>2, <2>3, <2>4 DEF t
<1>6. CASE N # 1
  <2>1. t # <<>> BY <1>1, <1>2, <1>6
  <2>2. PICK g \in [1 .. Len(t) -> Seq(S)] :
          /\ \A i \in 1 .. Len(t) : g[i] = IF i = 1 THEN t[1] ELSE g[i - 1] \o t[i]
          /\ FlattenSeq(t) = g[Len(t)]
    BY <1>2, <2>1, FlattenFunction
  <2> DEFINE P(k) == k + 2 <= N => f[k + 2] = seqs[1] \o g[k + 1]
             T == {k \in Nat : P(k)}
  <2>3. 1 \in 1 .. N - 1 /\ 1 \in 1 .. N /\ 2 \in 1 .. N /\ 2 # 1 /\ 2 - 1 = 1 BY <1>1, <1>6
  <2>4. 0 \in T
    <3>1. f[2] = f[1] \o seqs[2] /\ f[1] = seqs[1]
      <4> DEFINE j == 2
      <4>1. j \in 1 .. N /\ j # 1 /\ j - 1 = 1 BY <2>3
      <4> HIDE DEF j
      <4>2. f[j] = f[j - 1] \o seqs[j] BY <1>3, <4>1
      <4>3. f[1] = seqs[1] BY <1>3, <2>3
      <4> QED BY <4>1, <4>2, <4>3 DEF j
    <3>2. g[1] = t[1] BY <1>2, <2>2, <2>3
    <3>3. t[1] = seqs[2]
      <4> DEFINE j == 1
      <4>1. j \in 1 .. N - 1 /\ j + 1 = 2 BY <2>3
      <4> HIDE DEF j
      <4>2. t[j] = seqs[j + 1] BY <1>2, <4>1
      <4> QED BY <4>1, <4>2 DEF j
    <3>4. f[2] = seqs[1] \o g[1] BY <3>1, <3>2, <3>3, Zenon
    <3>5. 0 + 2 = 2 /\ 0 + 1 = 1 OBVIOUS
    <3>6. P(0) BY <3>4, <3>5, Zenon
    <3> HIDE DEF P
    <3> QED BY <3>6
  <2>5. ASSUME NEW k \in Nat, k \in T PROVE k + 1 \in T
    <3>0. P(k)
      <4> HIDE DEF P
      <4> QED BY <2>5
    <3> SUFFICES ASSUME k + 3 <= N PROVE f[k + 3] = seqs[1] \o g[k + 2]
      <4>1. k + 1 + 2 = k + 3 /\ k + 1 + 1 = k + 2 OBVIOUS
      <4>2. P(k + 1) BY <4>1, Zenon
      <4> HIDE DEF P
      <4> QED BY <4>2
    <3> DEFINE j == k + 3
               i == k + 2
    <3>1. /\ j \in 1 .. N /\ j # 1 /\ j - 1 = i
          /\ i \in 1 .. N - 1 /\ i # 1 /\ i - 1 = k + 1 /\ i + 1 = j /\ k + 1 \in 1 .. N - 1
      BY <1>1
    <3>2. f[i] = seqs[1] \o g[k + 1]
      <4>1. k + 2 <= N BY <1>1
      <4> QED BY <3>0, <4>1, Zenon
    <3> HIDE DEF i, j, T, P
    <3>3. f[j] = f[i] \o seqs[j] BY <1>3, <3>1
    <3>4. g[i] = g[i - 1] \o t[i] BY <1>2, <2>2, <3>1
    <3>5. g[i] = g[k + 1] \o seqs[j] BY <1>2, <3>1, <3>4
    <3>6. g[k + 1] \in Seq(S) /\ seqs[j] \in Seq(S) /\ seqs[1] \in Seq(S)
      <4>1. k + 1 \in 1 .. Len(t) BY <1>2, <3>1
      <4>2. g[k + 1] \in Seq(S) BY <2>2, <4>1
      <4> QED BY <1>1, <2>3, <3>1, <4>2
    <3>7. (seqs[1] \o g[k + 1]) \o seqs[j] = seqs[1] \o (g[k + 1] \o seqs[j])
      <4> DEFINE a == seqs[1]
                 b == g[k + 1]
                 c == seqs[j]
      <4>1. a \in Seq(S) /\ b \in Seq(S) /\ c \in Seq(S) BY <3>6
      <4> HIDE DEF a, b, c
      <4>2. (a \o b) \o c = a \o (b \o c) BY ONLY <4>1, ConcatAssociative
      <4> QED BY <4>2 DEF a, b, c
    <3> QED BY <3>2, <3>3, <3>5, <3>7, Zenon DEF i, j
  <2>6. Nat \subseteq T
    <3> HIDE DEF T
    <3> QED BY <2>4, <2>5, Induction
  <2>7. N - 2 \in Nat /\ N - 2 + 2 = N /\ N - 2 + 1 = N - 1 /\ N - 1 \in 1 .. N - 1 BY <1>1, <1>6
  <2>8. P(N - 2)
    <3> HIDE DEF P
    <3> QED BY <2>6, <2>7
  <2>9. f[N] = seqs[1] \o g[N - 1]
    <3>1. N - 2 + 2 <= N BY <1>1, <2>7
    <3> QED BY <2>7, <2>8, <3>1, Zenon
  <2>10. FlattenSeq(t) = g[N - 1] /\ g[N - 1] \in Seq(S) BY <1>2, <2>2, <2>7
  <2> QED BY <1>3, <1>4, <2>9, <2>10 DEF t
<1> QED BY <1>5, <1>6

(***************************************************************************)
(* The encoding, from triplets to lines.                                   *)
(***************************************************************************)

(* Whole lines and a last one.                                             *)
LEMMA CeilSplit ==
  ASSUME NEW n \in Nat \ {0}, NEW d \in Nat \ {0}
  PROVE  /\ Ceil(n, d) \in Nat \ {0}
         /\ n - (Ceil(n, d) - 1) * d \in 1 .. d
<1> DEFINE x == n + d - 1
           q == x \div d
           r == x % d
<1>1. x \in Nat /\ x >= d OBVIOUS
<1>2. q \in Int /\ r \in 0 .. d - 1 /\ x = d * q + r
  <2> HIDE DEF x
  <2> QED BY <1>1
<1>3. Ceil(n, d) = q BY DEF Ceil
<1> HIDE DEF q, r
<1>4. q >= 1
  <2> SUFFICES ASSUME q <= 0 PROVE FALSE BY <1>2
  <2>1. d * q <= 0 BY <1>2
  <2> QED BY <1>1, <1>2, <2>1
<1>5. (q - 1) * d = d * q - d /\ d * q \in Int BY <1>2
<1>6. n - (q - 1) * d = r + 1
  <2> DEFINE p == d * q
             s == (q - 1) * d
  <2>1. p \in Int /\ s = p - d BY <1>5
  <2>2. n + d - 1 = p + r BY <1>2
  <2> HIDE DEF p, s
  <2>3. n - s = r + 1 BY <1>2, <2>1, <2>2
  <2> QED BY <2>3 DEF s
<1> QED BY <1>2, <1>3, <1>4, <1>6

(* Sixty-four values, and what stands for each on the line.                *)
LEMMA OffsetInverse ==
  ASSUME NEW v \in 0 .. 63
  PROVE  Offset(v) \in 33 .. 96 /\ Unoffset(Offset(v)) = v
<1>1. CASE v = 0
  <2>1. Offset(v) = 96 BY <1>1 DEF Offset, UUENCODE_ZERO
  <2>2. (96 - 32) % 64 = 0 OBVIOUS
  <2> QED BY <1>1, <2>1, <2>2 DEF Unoffset, UUENCODE_ADDED_VAL
<1>2. CASE v # 0
  <2>1. Offset(v) = v + 32 BY <1>2 DEF Offset, UUENCODE_ADDED_VAL
  <2>2. (v + 32 - 32) % 64 = v OBVIOUS
  <2> QED BY <1>2, <2>1, <2>2 DEF Unoffset, UUENCODE_ADDED_VAL
<1> QED BY <1>1, <1>2

(* A triplet from its six-bit parts, and a number from its bytes.          *)
LEMMA SixBits ==
  ASSUME NEW t \in Nat, t < 16777216
  PROVE  /\ t \div 262144 \in 0 .. 63 /\ (t \div 4096) % 64 \in 0 .. 63
         /\ (t \div 64) % 64 \in 0 .. 63 /\ t % 64 \in 0 .. 63
         /\ t = (t \div 262144) * 262144 + ((t \div 4096) % 64) * 4096 + ((t \div 64) % 64) * 64 + (t % 64)
BY SMT

(* A number is what its three bytes make.                                  *)
LEMMA EightBits ==
  ASSUME NEW x \in Bytes, NEW y \in Bytes, NEW z \in Bytes
  PROVE  LET t == x * 65536 + y * 256 + z
         IN  /\ t \in Nat /\ t < 16777216
             /\ t \div 65536 = x /\ (t \div 256) % 256 = y /\ t % 256 = z
BY SMT DEF Bytes

(* isp_uu_decode takes from four characters the three bytes isp_uu_encode  *)
(* made them of.                                                           *)
LEMMA TripletOfQuartet ==
  ASSUME NEW b, b[1] \in Bytes, b[2] \in Bytes, b[3] \in Bytes,
         NEW c, \A j \in 1 .. 4 : c[j] = Quartet(b)[j]
  PROVE  /\ Quartet(b) \in Seq(33 .. 96) /\ Len(Quartet(b)) = 4
         /\ Triplet(c) = <<b[1], b[2], b[3]>>
<1> DEFINE t == b[1] * 65536 + b[2] * 256 + b[3]
           d1 == t \div 262144
           d2 == (t \div 4096) % 64
           d3 == (t \div 64) % 64
           d4 == t % 64
<1>1. /\ t \in Nat /\ t < 16777216
      /\ t \div 65536 = b[1] /\ (t \div 256) % 256 = b[2] /\ t % 256 = b[3]
  <2> DEFINE x == b[1]
             y == b[2]
             z == b[3]
  <2>1. x \in Bytes /\ y \in Bytes /\ z \in Bytes OBVIOUS
  <2> HIDE DEF x, y, z
  <2>2. LET s == x * 65536 + y * 256 + z
        IN  /\ s \in Nat /\ s < 16777216
            /\ s \div 65536 = x /\ (s \div 256) % 256 = y /\ s % 256 = z
    BY ONLY <2>1, EightBits, SMT
  <2> QED BY <2>2, SMT DEF x, y, z
<1>2. Quartet(b) = <<Offset(d1), Offset(d2), Offset(d3), Offset(d4)>> BY SMT DEF Quartet
<1> HIDE DEF t
<1>9. d1 \in 0 .. 63 /\ d2 \in 0 .. 63 /\ d3 \in 0 .. 63 /\ d4 \in 0 .. 63
  BY <1>1, SixBits, SMT
<1>3. t = d1 * 262144 + d2 * 4096 + d3 * 64 + d4
  BY <1>1, SixBits, SMT
<1> HIDE DEF d1, d2, d3, d4
<1>4. /\ Offset(d1) \in 33 .. 96 /\ Offset(d2) \in 33 .. 96
      /\ Offset(d3) \in 33 .. 96 /\ Offset(d4) \in 33 .. 96
      /\ Unoffset(Offset(d1)) = d1 /\ Unoffset(Offset(d2)) = d2
      /\ Unoffset(Offset(d3)) = d3 /\ Unoffset(Offset(d4)) = d4
  <2>1. \A v \in 0 .. 63 : Offset(v) \in 33 .. 96 /\ Unoffset(Offset(v)) = v BY OffsetInverse
  <2> QED BY <1>9, <2>1, Zenon
<1>5. Quartet(b) \in Seq(33 .. 96) /\ Len(Quartet(b)) = 4 BY <1>2, <1>4
<1>6. c[1] = Offset(d1) /\ c[2] = Offset(d2) /\ c[3] = Offset(d3) /\ c[4] = Offset(d4) BY <1>2
<1>7. Unoffset(c[1]) * 262144 + Unoffset(c[2]) * 4096 + Unoffset(c[3]) * 64 + Unoffset(c[4]) = t
  BY <1>3, <1>4, <1>6, SMT
<1>8. Triplet(c) = <<t \div 65536, (t \div 256) % 256, t % 256>> BY <1>7, SMT DEF Triplet
<1> QED BY <1>1, <1>5, <1>8, SMT

Spaced(s, p, N, L) == \A i \in 1 .. N : \A j \in 1 .. L : s[(i - 1) * L + j] = p[i][j]

(* Pieces of one length.                                                   *)
LEMMA FlattenEqual ==
  ASSUME NEW S, NEW L \in Nat, NEW N \in Nat, NEW p \in [1 .. N -> Seq(S)],
         SameLength(p, N, L)
  PROVE  /\ FlattenSeq(p) \in Seq(S) /\ Len(FlattenSeq(p)) = N * L
         /\ Spaced(FlattenSeq(p), p, N, L)
<1> USE DEF Spaced
<1>1. p \in Seq(Seq(S)) /\ Len(p) = N OBVIOUS
<1>2. CASE N = 0
  <2>1. p = <<>> BY <1>1, <1>2
  <2>2. FlattenSeq(p) = <<>> BY <2>1 DEF FlattenSeq
  <2>3. Len(<<>>) = 0 /\ <<>> \in Seq(S) OBVIOUS
  <2>4. N * L = 0 BY <1>2
  <2> QED BY <1>2, <2>2, <2>3, <2>4
<1>3. CASE N # 0
  <2>1. p # <<>> BY <1>1, <1>3
  <2>2. SameLength(p, Len(p) - 1, L) BY <1>1 DEF SameLength
  <2>3. /\ FlattenSeq(p) \in Seq(S)
        /\ Len(FlattenSeq(p)) = (Len(p) - 1) * L + Len(p[Len(p)])
        /\ Placed(FlattenSeq(p), p, L)
    <3>1. p \in Seq(Seq(S)) /\ L \in Nat BY <1>1
    <3> QED BY ONLY <2>1, <2>2, <3>1, FlattenPieces
  <2>4. Len(p[N]) = L BY <1>3 DEF SameLength
  <2>5. (N - 1) * L + L = N * L OBVIOUS
  <2>6. Len(FlattenSeq(p)) = N * L BY <1>1, <2>3, <2>4, <2>5, Zenon
  <2>7. \A i \in 1 .. N : Len(p[i]) = L BY DEF SameLength
  <2> QED BY <1>1, <2>3, <2>6, <2>7, Zenon DEF Placed
<1> QED BY <1>2, <1>3

(* One line of text stands for the first l of the bytes.                   *)
LineAt(text, at, bytes, l) ==
  /\ text[at] = l + UUENCODE_ADDED_VAL
  /\ \A k \in 1 .. Ceil(l, 3) : \A j \in 1 .. 4 :
       text[at + (k - 1) * 4 + j] = Quartet(SubSeq(bytes, 3 * k - 2, 3 * k))[j]
  /\ text[at + 4 * Ceil(l, 3) + 1] = CR
  /\ text[at + 4 * Ceil(l, 3) + 2] = LF

(* Triplets hold the bytes of a line and at most two more.                 *)
LEMMA CeilThree ==
  ASSUME NEW l \in Nat \ {0}
  PROVE  Ceil(l, 3) \in Nat \ {0} /\ l <= 3 * Ceil(l, 3) /\ 3 * Ceil(l, 3) <= l + 2
BY DEF Ceil

(* The bytes of a triplet.                                                 *)
LEMMA TripletBytes ==
  ASSUME NEW bytes \in Seq(Bytes), NEW k \in Nat \ {0}, 3 * k <= Len(bytes)
  PROVE  LET b == SubSeq(bytes, 3 * k - 2, 3 * k)
         IN  /\ b[1] = bytes[3 * k - 2] /\ b[2] = bytes[3 * k - 1] /\ b[3] = bytes[3 * k]
             /\ b[1] \in Bytes /\ b[2] \in Bytes /\ b[3] \in Bytes
<1> DEFINE m == 3 * k - 2
           n == 3 * k
           b == SubSeq(bytes, m, n)
<1>1. m \in Int /\ n \in Int /\ m >= 1 /\ n <= Len(bytes) /\ n = m + 2 OBVIOUS
<1>2. \A i \in 1 .. Len(bytes) : bytes[i] \in Bytes OBVIOUS
<1> HIDE DEF m, n
<1>3. \A i \in m .. n : bytes[i] \in Bytes
  <2>1. Len(bytes) \in Nat OBVIOUS
  <2> QED BY <1>1, <1>2, <2>1
<1>4. \A i \in 1 .. n - m + 1 : SubSeq(bytes, m, n)[i] = bytes[m + i - 1] BY <1>1, <1>3, SubSeqProperties
<1>5. n - m + 1 = 3 BY <1>1
<1>6. b[1] = bytes[m + 1 - 1] /\ b[2] = bytes[m + 2 - 1] /\ b[3] = bytes[m + 3 - 1] 
  <2>1. \A i \in 1 .. 3 : b[i] = bytes[m + i - 1] BY <1>4, <1>5
  <2> HIDE DEF b
  <2> QED BY <2>1
<1>7. m + 1 - 1 = m /\ m + 2 - 1 = m + 1 /\ m + 3 - 1 = n BY <1>1
<1>8. b[1] = bytes[m] /\ b[2] = bytes[m + 1] /\ b[3] = bytes[n] BY <1>6, <1>7
<1>9. bytes[m] \in Bytes /\ bytes[m + 1] \in Bytes /\ bytes[n] \in Bytes BY <1>1, <1>3
<1>10. m + 1 = 3 * k - 1 BY DEF m
<1> QED BY <1>8, <1>9, <1>10 DEF m, n, b

(* The characters isp_uu_encode makes: none that the driver keeps.         *)
Printed == {CR, LF} \cup 33 .. 96

(* They are characters the line can carry.                                 *)
LEMMA PrintedChars ==
  ASSUME NEW s \in Seq(Printed)
  PROVE  s \in Seq(Chars)
<1>1. Printed \subseteq Chars BY DEF Printed, Chars, CR, LF
<1> QED BY <1>1, SeqMonotonic

(* Line is laid out as LineAt says, from its first character.              *)
LEMMA LineLayout ==
  ASSUME NEW bytes \in Seq(Bytes), NEW l \in 1 .. 63, 3 * Ceil(l, 3) <= Len(bytes)
  PROVE  /\ Line(bytes, l) \in Seq(Printed) /\ Len(Line(bytes, l)) = 4 * Ceil(l, 3) + 3
         /\ LineAt(Line(bytes, l), 1, bytes, l)
<1> DEFINE q == Ceil(l, 3)
           p == [k \in 1 .. q |-> Quartet(SubSeq(bytes, 3 * k - 2, 3 * k))]
           F == FlattenSeq(p)
           h == <<l + UUENCODE_ADDED_VAL>>
           e == <<CR, LF>>
           w == h \o F
<1>1. q \in Nat \ {0}
  <2>1. l \in Nat \ {0} OBVIOUS
  <2> QED BY ONLY <2>1, CeilThree
<1>2. h \in Seq(Printed) /\ Len(h) = 1 /\ h[1] = l + UUENCODE_ADDED_VAL BY DEF Printed, UUENCODE_ADDED_VAL
<1>3. e \in Seq(Printed) /\ Len(e) = 2 /\ e[1] = CR /\ e[2] = LF BY DEF Printed, CR, LF
<1>4. ASSUME NEW k \in 1 .. q
      PROVE  /\ Quartet(SubSeq(bytes, 3 * k - 2, 3 * k)) \in Seq(Printed)
             /\ Len(Quartet(SubSeq(bytes, 3 * k - 2, 3 * k))) = 4
  <2> DEFINE b == SubSeq(bytes, 3 * k - 2, 3 * k)
  <2>1. k \in Nat \ {0} /\ 3 * k <= Len(bytes)
    <3>1. Len(bytes) \in Nat /\ 3 * q <= Len(bytes) OBVIOUS
    <3> HIDE DEF q
    <3> QED BY <1>1, <3>1
  <2>2. b[1] \in Bytes /\ b[2] \in Bytes /\ b[3] \in Bytes BY <2>1, TripletBytes
  <2> HIDE DEF b
  <2>3. Quartet(b) \in Seq(33 .. 96) /\ Len(Quartet(b)) = 4
    <3>1. \E c : \A j \in 1 .. 4 : c[j] = Quartet(b)[j] OBVIOUS
    <3> QED BY <2>2, <3>1, TripletOfQuartet
  <2>4. Quartet(b) \in Seq(Printed)
    <3>1. 33 .. 96 \subseteq Printed BY DEF Printed
    <3> QED BY <2>3, <3>1, SeqMonotonic
  <2> QED BY <2>3, <2>4 DEF b
<1>5. p \in [1 .. q -> Seq(Printed)] /\ \A k \in 1 .. q : Len(p[k]) = 4 /\ p[k] = Quartet(SubSeq(bytes, 3 * k - 2, 3 * k)) BY <1>4
<1>6. Line(bytes, l) = (h \o F) \o e BY Zenon DEF Line
<1> HIDE DEF p, q
<1>7. F \in Seq(Printed) /\ Len(F) = q * 4 /\ Spaced(F, p, q, 4)
  <2>1. 4 \in Nat /\ q \in Nat BY <1>1
  <2>2. p \in [1 .. q -> Seq(Printed)] /\ SameLength(p, q, 4) BY <1>5 DEF SameLength
  <2> QED BY ONLY <2>1, <2>2, FlattenEqual
<1> HIDE DEF h, e, F
<1>8. /\ w \in Seq(Printed) /\ Len(w) = Len(h) + Len(F)
      /\ \A i \in 1 .. Len(h) + Len(F) : w[i] = IF i <= Len(h) THEN h[i] ELSE F[i - Len(h)]
  <2>1. h \in Seq(Printed) /\ F \in Seq(Printed) BY <1>2, <1>7
  <2> QED BY ONLY <2>1, ConcatProperties
<1> HIDE DEF w
<1>9. /\ w \o e \in Seq(Printed) /\ Len(w \o e) = Len(w) + Len(e)
      /\ \A i \in 1 .. Len(w) + Len(e) : (w \o e)[i] = IF i <= Len(w) THEN w[i] ELSE e[i - Len(w)]
  <2>1. w \in Seq(Printed) /\ e \in Seq(Printed) BY <1>3, <1>8
  <2> QED BY ONLY <2>1, ConcatProperties
<1> DEFINE u == w \o e
<1>10. u = Line(bytes, l) BY <1>6 DEF w
<1>11. Len(w) = 1 + 4 * q /\ Len(u) = 4 * q + 3 BY <1>1, <1>2, <1>3, <1>7, <1>8, <1>9
<1> HIDE DEF u
<1>12. u[1] = l + UUENCODE_ADDED_VAL
  <2>1. u[1] = w[1] /\ w[1] = h[1] BY <1>1, <1>2, <1>3, <1>7, <1>8, <1>9, <1>11 DEF u
  <2> QED BY <1>2, <2>1
<1>13. u[1 + 4 * q + 1] = CR /\ u[1 + 4 * q + 2] = LF
  <2> DEFINE x == Len(w)
  <2>1. x \in Nat /\ x = 1 + 4 * q BY <1>1, <1>11
  <2>2. \A i \in 1 .. x + 2 : u[i] = IF i <= x THEN w[i] ELSE e[i - x] BY <1>3, <1>9 DEF u
  <2> HIDE DEF x
  <2>3. u[x + 1] = e[1] /\ u[x + 2] = e[2] BY <2>1, <2>2
  <2> QED BY <1>3, <2>1, <2>3
<1>14. ASSUME NEW k \in 1 .. q, NEW j \in 1 .. 4
       PROVE  u[1 + (k - 1) * 4 + j] = Quartet(SubSeq(bytes, 3 * k - 2, 3 * k))[j]
  <2> DEFINE i == (k - 1) * 4 + j
             x == Len(w)
  <2>1. i \in 1 .. 4 * q /\ x = 1 + 4 * q /\ 1 + (k - 1) * 4 + j = 1 + i BY <1>1, <1>11
  <2>2. F[i] = p[k][j] BY <1>7 DEF Spaced
  <2>3. \A n \in 1 .. x + 2 : u[n] = IF n <= x THEN w[n] ELSE e[n - x] BY <1>3, <1>9 DEF u
  <2>4. \A n \in 1 .. 1 + 4 * q : w[n] = IF n <= 1 THEN h[n] ELSE F[n - 1]
    <3>1. Len(h) + Len(F) = 1 + 4 * q BY <1>1, <1>2, <1>7
    <3>2. \A n \in 1 .. 1 + 4 * q : w[n] = IF n <= Len(h) THEN h[n] ELSE F[n - Len(h)] BY <1>8, <3>1, Zenon
    <3> QED BY <1>2, <3>2, Zenon
  <2> HIDE DEF i, x
  <2>5. u[1 + i] = w[1 + i] BY <1>1, <2>1, <2>3
  <2>6. w[1 + i] = F[i] BY <1>1, <2>1, <2>4
  <2>7. p[k][j] = Quartet(SubSeq(bytes, 3 * k - 2, 3 * k))[j] BY <1>5
  <2> QED BY <2>1, <2>2, <2>5, <2>6, <2>7
<1>15. LineAt(u, 1, bytes, l) BY <1>12, <1>13, <1>14 DEF LineAt, q
<1> QED BY <1>9, <1>10, <1>11, <1>15 DEF u, q

(* A line stays one where it is copied to.                                 *)
LEMMA LineShift ==
  ASSUME NEW s, NEW t, NEW p \in Nat, NEW bytes, NEW l \in 1 .. 63, LineAt(s, 1, bytes, l),
         \A i \in 1 .. 4 * Ceil(l, 3) + 3 : t[p + i] = s[i]
  PROVE  LineAt(t, p + 1, bytes, l)
<1> DEFINE q == Ceil(l, 3)
<1>1. q \in Nat \ {0}
  <2>1. l \in Nat \ {0} OBVIOUS
  <2> QED BY ONLY <2>1, CeilThree
<1>2. /\ s[1] = l + UUENCODE_ADDED_VAL /\ s[1 + 4 * q + 1] = CR /\ s[1 + 4 * q + 2] = LF
      /\ \A k \in 1 .. q : \A j \in 1 .. 4 : s[1 + (k - 1) * 4 + j] = Quartet(SubSeq(bytes, 3 * k - 2, 3 * k))[j]
  BY DEF LineAt
<1>3. \A i \in 1 .. 4 * q + 3 : t[p + i] = s[i] OBVIOUS
<1> HIDE DEF q
<1>4. t[p + 1] = s[1] BY <1>1, <1>3
<1>5. t[p + 1 + 4 * q + 1] = s[1 + 4 * q + 1] /\ t[p + 1 + 4 * q + 2] = s[1 + 4 * q + 2]
  <2> DEFINE x == 1 + 4 * q + 1
             y == 1 + 4 * q + 2
  <2>1. x \in 1 .. 4 * q + 3 /\ y \in 1 .. 4 * q + 3 /\ p + x = p + 1 + 4 * q + 1 /\ p + y = p + 1 + 4 * q + 2 BY <1>1
  <2> HIDE DEF x, y
  <2>2. t[p + x] = s[x] /\ t[p + y] = s[y] BY <1>3, <2>1
  <2> QED BY <2>1, <2>2 DEF x, y
<1>6. ASSUME NEW k \in 1 .. q, NEW j \in 1 .. 4
      PROVE  t[p + 1 + (k - 1) * 4 + j] = Quartet(SubSeq(bytes, 3 * k - 2, 3 * k))[j]
  <2> DEFINE i == 1 + (k - 1) * 4 + j
  <2>1. i \in 1 .. 4 * q + 3 /\ p + i = p + 1 + (k - 1) * 4 + j BY <1>1
  <2>2. s[i] = Quartet(SubSeq(bytes, 3 * k - 2, 3 * k))[j] BY <1>2
  <2> HIDE DEF i
  <2>3. t[p + i] = s[i] BY <1>3, <2>1
  <2> QED BY <2>1, <2>2, <2>3
<1> QED BY <1>2, <1>4, <1>5, <1>6, Zenon DEF LineAt, q

(* isp_uu_decode of one line.                                              *)
LEMMA DataOfLine ==
  ASSUME NEW text \in Seq(Chars), NEW at \in Nat \ {0}, NEW bytes \in Seq(Bytes), NEW l \in 1 .. 63,
         3 * Ceil(l, 3) <= Len(bytes), at + 4 * Ceil(l, 3) + 2 <= Len(text), LineAt(text, at, bytes, l)
  PROVE  DataOf(text, at, l) = SubSeq(bytes, 1, l)
<1> DEFINE q == Ceil(l, 3)
           p == [k \in 1 .. q |-> Triplet(SubSeq(text, at + 4 * k - 3, at + 4 * k))]
           F == FlattenSeq(p)
<1>1. q \in Nat \ {0} /\ l <= 3 * q /\ l \in Nat \ {0}
  <2>1. l \in Nat \ {0} OBVIOUS
  <2> QED BY ONLY <2>1, CeilThree
<1>2. 3 * q <= Len(bytes) /\ at + 4 * q + 2 <= Len(text) OBVIOUS
<1>3. \A k \in 1 .. q : \A j \in 1 .. 4 : text[at + (k - 1) * 4 + j] = Quartet(SubSeq(bytes, 3 * k - 2, 3 * k))[j]
  BY DEF LineAt
<1>4. DataOf(text, at, l) = SubSeq(F, 1, l) BY Zenon DEF DataOf
<1> HIDE DEF q
<1>5. ASSUME NEW k \in 1 .. q
      PROVE  /\ Triplet(SubSeq(text, at + 4 * k - 3, at + 4 * k)) = <<bytes[3 * k - 2], bytes[3 * k - 1], bytes[3 * k]>>
             /\ bytes[3 * k - 2] \in Bytes /\ bytes[3 * k - 1] \in Bytes /\ bytes[3 * k] \in Bytes
  <2> DEFINE b == SubSeq(bytes, 3 * k - 2, 3 * k)
             m == at + 4 * k - 3
             n == at + 4 * k
             c == SubSeq(text, m, n)
  <2>1. k \in Nat \ {0} /\ 3 * k <= Len(bytes)
    <3>1. Len(bytes) \in Nat OBVIOUS
    <3> QED BY <1>1, <1>2, <3>1
  <2>2. /\ b[1] = bytes[3 * k - 2] /\ b[2] = bytes[3 * k - 1] /\ b[3] = bytes[3 * k]
        /\ b[1] \in Bytes /\ b[2] \in Bytes /\ b[3] \in Bytes
    BY <2>1, TripletBytes
  <2>3. m \in Int /\ n \in Int /\ m >= 1 /\ n <= Len(text) /\ n = m + 3 /\ m = at + (k - 1) * 4 + 1
    <3>1. Len(text) \in Nat OBVIOUS
    <3> QED BY <1>1, <1>2, <3>1
  <2> HIDE DEF m, n, b
  <2>4. \A j \in 1 .. 4 : c[j] = text[m + j - 1]
    <3>1. \A i \in m .. n : text[i] \in Chars
      <4>1. Len(text) \in Nat /\ \A i \in 1 .. Len(text) : text[i] \in Chars OBVIOUS
      <4> QED BY <2>3, <4>1
    <3>2. \A i \in 1 .. n - m + 1 : SubSeq(text, m, n)[i] = text[m + i - 1] BY <2>3, <3>1, SubSeqProperties
    <3>3. n - m + 1 = 4 BY <2>3
    <3> QED BY <3>2, <3>3
  <2> HIDE DEF c
  <2>5. ASSUME NEW j \in 1 .. 4 PROVE c[j] = Quartet(b)[j]
    <3>1. c[j] = text[m + j - 1] BY <2>4
    <3>2. m + j - 1 = at + (k - 1) * 4 + j BY <2>3
    <3>3. text[at + (k - 1) * 4 + j] = Quartet(b)[j] BY <1>3 DEF b
    <3> QED BY <3>1, <3>2, <3>3
  <2>6. Triplet(c) = <<b[1], b[2], b[3]>> BY <2>2, <2>5, TripletOfQuartet
  <2> QED BY <2>2, <2>6 DEF c, m, n
<1>6. /\ p \in [1 .. q -> Seq(Bytes)] /\ SameLength(p, q, 3)
      /\ \A k \in 1 .. q : p[k] = <<bytes[3 * k - 2], bytes[3 * k - 1], bytes[3 * k]>>
  <2> DEFINE e(k) == Triplet(SubSeq(text, at + 4 * k - 3, at + 4 * k))
  <2>1. ASSUME NEW k \in 1 .. q
        PROVE  e(k) \in Seq(Bytes) /\ Len(e(k)) = 3 /\ e(k) = <<bytes[3 * k - 2], bytes[3 * k - 1], bytes[3 * k]>>
    <3>1. \A x, y, z \in Bytes : <<x, y, z>> \in Seq(Bytes) /\ Len(<<x, y, z>>) = 3 OBVIOUS
    <3> QED BY <1>5, <3>1, Zenon
  <2>2. p = [k \in 1 .. q |-> e(k)] OBVIOUS
  <2> HIDE DEF e, p
  <2> QED BY <2>1, <2>2 DEF SameLength
<1> HIDE DEF p
<1>7. F \in Seq(Bytes) /\ Len(F) = q * 3 /\ Spaced(F, p, q, 3)
  <2>1. 3 \in Nat /\ q \in Nat BY <1>1
  <2>2. p \in [1 .. q -> Seq(Bytes)] /\ SameLength(p, q, 3) BY <1>6
  <2> QED BY ONLY <2>1, <2>2, FlattenEqual
<1> HIDE DEF F
<1>8. ASSUME NEW i \in 1 .. 3 * q PROVE F[i] = bytes[i]
  <2> DEFINE k == (i + 2) \div 3
             j == i - (k - 1) * 3
  <2>1. k \in 1 .. q /\ j \in 1 .. 3 /\ (k - 1) * 3 + j = i BY <1>1
  <2> HIDE DEF k, j
  <2>2. F[i] = p[k][j] BY <1>7, <2>1 DEF Spaced
  <2>3. p[k] = <<bytes[3 * k - 2], bytes[3 * k - 1], bytes[3 * k]>> BY <1>6, <2>1
  <2>4. CASE j = 1
    <3>1. i = 3 * k - 2 BY <2>1, <2>4
    <3> QED BY <2>2, <2>3, <2>4, <3>1
  <2>5. CASE j = 2
    <3>1. i = 3 * k - 1 BY <2>1, <2>5
    <3> QED BY <2>2, <2>3, <2>5, <3>1
  <2>6. CASE j = 3
    <3>1. i = 3 * k BY <2>1, <2>6
    <3> QED BY <2>2, <2>3, <2>6, <3>1
  <2> QED BY <2>1, <2>4, <2>5, <2>6
<1> DEFINE u == SubSeq(F, 1, l)
           v == SubSeq(bytes, 1, l)
<1>9. u \in Seq(Bytes) /\ Len(u) = l /\ \A i \in 1 .. l : u[i] = F[i]
  <2>1. \A i \in 1 .. l : F[i] \in Bytes BY <1>1, <1>7
  <2>2. 1 \in Int /\ l \in Int /\ 1 <= l /\ l - 1 + 1 = l /\ \A i \in 1 .. l : 1 + i - 1 = i BY <1>1
  <2>3. /\ u \in Seq(Bytes) /\ Len(u) = IF 1 <= l THEN l - 1 + 1 ELSE 0
        /\ \A i \in 1 .. l - 1 + 1 : u[i] = F[1 + i - 1]
    BY ONLY <2>1, <2>2, SubSeqProperties
  <2> QED BY <2>2, <2>3, Zenon
<1>10. v \in Seq(Bytes) /\ Len(v) = l /\ \A i \in 1 .. l : v[i] = bytes[i]
  <2>1. \A i \in 1 .. l : bytes[i] \in Bytes
    <3>1. Len(bytes) \in Nat /\ \A i \in 1 .. Len(bytes) : bytes[i] \in Bytes OBVIOUS
    <3> QED BY <1>1, <1>2, <3>1
  <2>2. 1 \in Int /\ l \in Int /\ 1 <= l /\ l - 1 + 1 = l /\ \A i \in 1 .. l : 1 + i - 1 = i BY <1>1
  <2>3. /\ v \in Seq(Bytes) /\ Len(v) = IF 1 <= l THEN l - 1 + 1 ELSE 0
        /\ \A i \in 1 .. l - 1 + 1 : v[i] = bytes[1 + i - 1]
    BY ONLY <2>1, <2>2, SubSeqProperties
  <2> QED BY <2>2, <2>3, Zenon
<1> HIDE DEF u, v
<1>11. \A i \in 1 .. l : u[i] = v[i] BY <1>1, <1>8, <1>9, <1>10
<1>12. u = v BY <1>9, <1>10, <1>11, SeqEqual
<1> QED BY <1>4, <1>12 DEF u, v

(* The smaller of two numbers.                                             *)
LEMMA MinOfTwo ==
  ASSUME NEW a \in Int, NEW b \in Int
  PROVE  Min({a, b}) = IF a <= b THEN a ELSE b
BY DEF Min

(* The lines of a block: where the data of one begins, and its length.     *)
Before(n) == (n - 1) * LINE_DATA_LENGTH
LengthOf(bulk, n) == Min({bulk - Before(n), LINE_DATA_LENGTH})
Lines(bulk) == Ceil(bulk, LINE_DATA_LENGTH)
LineOf(src, following, n) == SubSeq(src \o following, Before(n) + 1, Len(src \o following))
PosOf(n) == (n - 1) * MAX_BYTES_PER_LINE + 1

(* Every line of a block but the last is whole.                            *)
LEMMA LineLengths ==
  ASSUME NEW bulk \in Nat \ {0}
  PROVE  /\ LINE_DATA_LENGTH \in 1 .. 63 /\ Lines(bulk) \in Nat \ {0}
         /\ \A n \in 1 .. Lines(bulk) : /\ Before(n) \in Nat /\ LengthOf(bulk, n) \in 1 .. 63
                                        /\ Before(n) + LengthOf(bulk, n) <= bulk
                                        /\ n # Lines(bulk) => LengthOf(bulk, n) = LINE_DATA_LENGTH
                                        /\ n = Lines(bulk) => Before(n) + LengthOf(bulk, n) = bulk
<1> DEFINE M == Lines(bulk)
           d == LINE_DATA_LENGTH
<1>1. d \in 1 .. 63 BY UuAssumption
<1>2. M \in Nat \ {0} /\ bulk - (M - 1) * d \in 1 .. d
  <2>1. d \in Nat \ {0} BY <1>1
  <2> QED BY <2>1, CeilSplit DEF Lines
<1> HIDE DEF M
<1>3. ASSUME NEW n \in 1 .. M
      PROVE  /\ Before(n) \in Nat /\ LengthOf(bulk, n) \in 1 .. 63
             /\ Before(n) + LengthOf(bulk, n) <= bulk
             /\ n # M => LengthOf(bulk, n) = d
             /\ n = M => Before(n) + LengthOf(bulk, n) = bulk
  <2> DEFINE b == (n - 1) * d
             z == (M - 1) * d
  <2>1. b \in Nat /\ z \in Nat BY <1>1, <1>2
  <2>2. n = M => b = z OBVIOUS
  <2>3. n # M => b + d <= z
    <3> SUFFICES ASSUME n # M PROVE b + d <= z OBVIOUS
    <3>1. n <= M - 1 BY <1>2
    <3>2. n * d <= (M - 1) * d BY <1>1, <1>2, <3>1
    <3>3. n * d = b + d BY <1>1
    <3> QED BY <3>2, <3>3
  <2>4. bulk - z \in 1 .. d BY <1>2
  <2>5. Before(n) = b BY DEF Before
  <2> HIDE DEF b, z
  <2>6. LengthOf(bulk, n) = IF bulk - b <= d THEN bulk - b ELSE d
    <3>1. bulk - b \in Int /\ d \in Int BY <1>1, <2>1
    <3> QED BY <2>5, <3>1, MinOfTwo DEF LengthOf
  <2> HIDE DEF d
  <2> QED BY <1>1, <2>1, <2>2, <2>3, <2>4, <2>5, <2>6
<1> QED BY <1>1, <1>2, <1>3 DEF M

(* A piece of a sequence, after its first x elements.                      *)
From(p, s, x, k) == Len(p) = k /\ \A i \in 1 .. k : p[i] = s[x + i]

(* SubSeq, from what precedes it and its length.                           *)
LEMMA PieceAfter ==
  ASSUME NEW S, NEW s \in Seq(S), NEW x \in Nat, NEW k \in Nat, x + k <= Len(s)
  PROVE  SubSeq(s, x + 1, x + k) \in Seq(S) /\ From(SubSeq(s, x + 1, x + k), s, x, k)
<1> DEFINE m == x + 1
           n == x + k
           p == SubSeq(s, m, n)
<1>1. m \in Int /\ n \in Int OBVIOUS
<1>2. \A i \in m .. n : s[i] \in S
  <2>1. Len(s) \in Nat /\ \A i \in 1 .. Len(s) : s[i] \in S OBVIOUS
  <2> QED BY <2>1
<1>3. /\ p \in Seq(S) /\ Len(p) = IF m <= n THEN n - m + 1 ELSE 0
      /\ \A i \in 1 .. n - m + 1 : p[i] = s[m + i - 1]
  <2> HIDE DEF m, n
  <2> QED BY ONLY <1>1, <1>2, SubSeqProperties
<1>4. n - m + 1 = k /\ (m <= n <=> k # 0) OBVIOUS
<1>5. ASSUME NEW i \in 1 .. k PROVE p[i] = s[x + i]
  <2>1. p[i] = s[m + i - 1] BY <1>3, <1>4
  <2>2. m + i - 1 = x + i OBVIOUS
  <2> QED BY <2>1, <2>2
<1>6. Len(p) = k BY <1>3, <1>4
<1> QED BY <1>3, <1>5, <1>6 DEF From

(* Pieces of the same elements are equal.                                  *)
LEMMA SamePiece ==
  ASSUME NEW S, NEW s, NEW t, NEW x, NEW y, NEW k \in Nat, NEW p \in Seq(S), NEW q \in Seq(S),
         From(p, s, x, k), From(q, t, y, k), \A i \in 1 .. k : s[x + i] = t[y + i]
  PROVE  p = q
<1>1. Len(p) = k /\ Len(q) = k /\ \A i \in 1 .. k : p[i] = q[i] BY DEF From
<1> QED BY <1>1, SeqEqual

(* What follows the beginning of a line of data, up to what is in memory   *)
(* after the data.                                                         *)
LEMMA LineOfIs ==
  ASSUME NEW src \in Seq(Bytes), NEW following \in Seq(Bytes), Len(following) >= 2, NEW n \in 1 .. Lines(Len(src)),
         src # <<>>
  PROVE  LET l == LengthOf(Len(src), n)
             b == LineOf(src, following, n)
         IN  /\ b \in Seq(Bytes) /\ 3 * Ceil(l, 3) <= Len(b)
             /\ SubSeq(b, 1, l) = SubSeq(src, Before(n) + 1, Before(n) + l)
<1> DEFINE l == LengthOf(Len(src), n)
           x == Before(n)
           w == src \o following
           z == Len(w) - x
           b == SubSeq(w, x + 1, Len(w))
<1>1. Len(src) \in Nat \ {0} /\ Len(following) \in Nat OBVIOUS
<1>2. x \in Nat /\ l \in 1 .. 63 /\ x + l <= Len(src) BY <1>1, LineLengths
<1>3. /\ w \in Seq(Bytes) /\ Len(w) = Len(src) + Len(following)
      /\ \A i \in 1 .. Len(src) + Len(following) : w[i] = IF i <= Len(src) THEN src[i] ELSE following[i - Len(src)]
  BY ConcatProperties
<1> HIDE DEF l, x, w
<1>4. z \in Nat /\ x + z = Len(w) /\ l + 2 <= z /\ l \in Nat BY <1>1, <1>2, <1>3
<1> HIDE DEF z
<1>5. b \in Seq(Bytes) /\ From(b, w, x, z)
  <2>1. SubSeq(w, x + 1, x + z) \in Seq(Bytes) /\ From(SubSeq(w, x + 1, x + z), w, x, z)
    BY <1>2, <1>3, <1>4, PieceAfter
  <2> QED BY <1>4, <2>1
<1>6. 3 * Ceil(l, 3) <= l + 2 /\ Ceil(l, 3) \in Int
  <2>1. l \in Nat \ {0} BY <1>2
  <2>2. 3 * Ceil(l, 3) <= l + 2 /\ Ceil(l, 3) \in Nat \ {0} BY ONLY <2>1, CeilThree
  <2> QED BY <2>2
<1> HIDE DEF b
<1>7. Len(b) = z BY <1>5 DEF From
<1>8. 3 * Ceil(l, 3) <= Len(b) BY <1>4, <1>6, <1>7
<1> DEFINE u == SubSeq(b, 1, l)
           v == SubSeq(src, x + 1, x + l)
<1>9. u \in Seq(Bytes) /\ From(u, b, 0, l)
  <2>1. 0 + l <= Len(b) /\ 0 + 1 = 1 /\ 0 + l = l BY <1>4, <1>7
  <2>2. SubSeq(b, 0 + 1, 0 + l) \in Seq(Bytes) /\ From(SubSeq(b, 0 + 1, 0 + l), b, 0, l)
    BY <1>4, <1>5, <2>1, PieceAfter
  <2> QED BY <2>1, <2>2
<1>10. v \in Seq(Bytes) /\ From(v, src, x, l) BY <1>2, <1>4, PieceAfter
<1> HIDE DEF u, v
<1>11. ASSUME NEW i \in 1 .. l PROVE b[0 + i] = src[x + i]
  <2>1. 0 + i = i /\ i \in 1 .. z /\ x + i \in 1 .. Len(src) + Len(following) /\ x + i <= Len(src)
    BY <1>1, <1>2, <1>3, <1>4
  <2>2. b[i] = w[x + i] BY <1>5, <2>1 DEF From
  <2>3. w[x + i] = src[x + i] BY <1>3, <2>1
  <2> QED BY <2>1, <2>2, <2>3
<1>12. u = v BY <1>4, <1>9, <1>10, <1>11, SamePiece
<1> QED BY <1>5, <1>8, <1>12 DEF u, v, b, l, x, w, LineOf

Width(l) == 4 * Ceil(l, 3) + 3

(* A whole line is as long as the code counts it.                          *)
LEMMA WholeLine ==
  LINE_DATA_LENGTH \in Nat \ {0} /\ 3 * Ceil(LINE_DATA_LENGTH, 3) = LINE_DATA_LENGTH
  /\ Width(LINE_DATA_LENGTH) = MAX_BYTES_PER_LINE /\ MAX_BYTES_PER_LINE \in Nat
<1> DEFINE d == LINE_DATA_LENGTH
<1>1. d \in 1 .. 63 /\ d % 3 = 0 BY UuAssumption
<1> HIDE DEF d
<1>2. (d + 3 - 1) \div 3 = d \div 3 /\ 3 * (d \div 3) = d /\ d \div 3 \in Nat BY <1>1
<1> QED BY <1>1, <1>2 DEF Ceil, Width, MAX_BYTES_PER_LINE, d

(* Each line ends where the next one, or nothing, begins.                  *)
LEMMA LinePlaces ==
  ASSUME NEW bulk \in Nat \ {0}, NEW n \in 1 .. Lines(bulk)
  PROVE  /\ PosOf(n) \in Nat \ {0} /\ Width(LengthOf(bulk, n)) \in Nat \ {0}
         /\ n # Lines(bulk) => /\ PosOf(n) + Width(LengthOf(bulk, n)) = PosOf(n + 1)
                               /\ Before(n) + LengthOf(bulk, n) = Before(n + 1)
         /\ PosOf(n) + Width(LengthOf(bulk, n)) <= PosOf(Lines(bulk)) + Width(LengthOf(bulk, Lines(bulk)))
<1> DEFINE M == Lines(bulk)
           l(k) == LengthOf(bulk, k)
           c == MAX_BYTES_PER_LINE
           d == LINE_DATA_LENGTH
<1>1. M \in Nat \ {0} /\ d \in Nat /\ \A k \in 1 .. M : l(k) \in 1 .. 63 /\ (k # M => l(k) = d)
  <2>1. \A k \in 1 .. M : l(k) \in 1 .. 63 /\ (k # M => l(k) = d) BY LineLengths
  <2>2. M \in Nat \ {0} /\ d \in 1 .. 63 BY LineLengths
  <2> HIDE DEF M, d, l
  <2> QED BY <2>1, <2>2
<1>2. c \in Nat /\ Width(d) = c BY WholeLine
<1>3. ASSUME NEW k \in 1 .. M PROVE PosOf(k) \in Nat \ {0} /\ Width(l(k)) \in Nat \ {0}
  <2>1. l(k) \in Nat \ {0} BY <1>1
  <2> HIDE DEF l
  <2>2. Ceil(l(k), 3) \in Nat \ {0} BY ONLY <2>1, CeilThree
  <2>3. (k - 1) * c \in Nat BY <1>1, <1>2
  <2> QED BY <2>2, <2>3 DEF PosOf, Width
<1>4. ASSUME NEW k \in 1 .. M, k # M
      PROVE  PosOf(k) + Width(l(k)) = PosOf(k + 1) /\ Before(k) + l(k) = Before(k + 1)
  <2>1. l(k) = d BY <1>1, <1>4
  <2>2. k \in Int /\ k + 1 - 1 = k BY <1>1
  <2>3. (k - 1) * c + c = k * c /\ (k - 1) * c \in Int BY <1>2, <2>2
  <2>4. (k - 1) * d + d = k * d BY <1>1, <2>2
  <2> HIDE DEF l, c, d
  <2> QED BY <1>2, <2>1, <2>2, <2>3, <2>4 DEF PosOf, Before, c, d
<1>5. PosOf(n) + Width(l(n)) <= PosOf(M) + Width(l(M))
  <2>1. CASE n = M
    <3>1. M \in 1 .. M BY <1>1
    <3>2. PosOf(M) \in Nat /\ Width(l(M)) \in Nat BY <1>3, <3>1
    <3> HIDE DEF l, M
    <3> QED BY <2>1, <3>2
  <2>2. CASE n # M
    <3>1. PosOf(n) + Width(l(n)) = PosOf(n + 1) BY <1>4, <2>2
    <3>2. n + 1 <= M /\ M \in 1 .. M BY <1>1, <2>2
    <3>3. n * c <= (M - 1) * c BY <1>1, <1>2, <3>2
    <3>4. PosOf(n + 1) <= PosOf(M)
      <4>1. n + 1 - 1 = n BY <1>1
      <4>2. n * c \in Int /\ (M - 1) * c \in Int BY <1>1, <1>2
      <4> QED BY <3>3, <4>1, <4>2 DEF PosOf
    <3>5. PosOf(M) \in Nat /\ Width(l(M)) \in Nat BY <1>3, <3>2
    <3> HIDE DEF l, M
    <3>6. PosOf(n + 1) \in Int BY <1>1, <1>2 DEF PosOf
    <3> QED BY <3>1, <3>4, <3>5, <3>6
  <2> QED BY <2>1, <2>2
<1> QED BY <1>3, <1>4, <1>5

(* The lines of a block, each where those before it end.                   *)
Laid(text, src, following) ==
  LET M == Lines(Len(src))
  IN  /\ text \in Seq(Printed)
      /\ Len(text) = PosOf(M) + Width(LengthOf(Len(src), M)) - 1
      /\ \A n \in 1 .. M : LineAt(text, PosOf(n), LineOf(src, following, n), LengthOf(Len(src), n))

(* isp_uu_encode lays out the lines of a block one after the other.        *)
LEMMA EncodeLayout ==
  ASSUME NEW src \in Seq(Bytes), NEW following \in Seq(Bytes), Len(following) >= 2, src # <<>>
  PROVE  Laid(isp_uu_encode(src, following), src, following)
<1> DEFINE bulk == Len(src)
           M == Lines(bulk)
           l(n) == LengthOf(bulk, n)
           b(n) == LineOf(src, following, n)
           p == [n \in 1 .. M |-> Line(b(n), l(n))]
           c == MAX_BYTES_PER_LINE
           text == FlattenSeq(p)
<1>1. bulk \in Nat \ {0} OBVIOUS
<1>2. isp_uu_encode(src, following) = text
  BY Zenon DEF isp_uu_encode, LineOf, LengthOf, Lines, Before
<1>3. M \in Nat \ {0} /\ \A n \in 1 .. M : l(n) \in 1 .. 63 /\ (n # M => l(n) = LINE_DATA_LENGTH)
  BY <1>1, LineLengths
<1>4. ASSUME NEW n \in 1 .. M
      PROVE  Line(b(n), l(n)) \in Seq(Printed) /\ Len(Line(b(n), l(n))) = Width(l(n)) /\ LineAt(Line(b(n), l(n)), 1, b(n), l(n))
  <2>1. b(n) \in Seq(Bytes) /\ 3 * Ceil(l(n), 3) <= Len(b(n)) BY LineOfIs
  <2>2. l(n) \in 1 .. 63 BY <1>3
  <2> DEFINE x == b(n)
             y == l(n)
  <2>3. x \in Seq(Bytes) /\ 3 * Ceil(y, 3) <= Len(x) /\ y \in 1 .. 63 BY <2>1, <2>2
  <2> HIDE DEF x, y
  <2>4. Line(x, y) \in Seq(Printed) /\ Len(Line(x, y)) = Width(y) /\ LineAt(Line(x, y), 1, x, y)
    BY ONLY <2>3, LineLayout DEF Width
  <2> QED BY <2>4 DEF x, y
<1>5. c \in Nat /\ Width(LINE_DATA_LENGTH) = c BY WholeLine
<1>6. ASSUME NEW n \in 1 .. M PROVE PosOf(n) \in Nat \ {0} /\ Width(l(n)) \in Nat \ {0}
  BY <1>1, LinePlaces
<1> HIDE DEF b, l, bulk, M
<1>7. /\ p \in Seq(Seq(Printed)) /\ Len(p) = M /\ p # <<>>
      /\ \A n \in 1 .. M : p[n] = Line(b(n), l(n)) /\ Len(p[n]) = Width(l(n))
  <2>1. p \in [1 .. M -> Seq(Printed)] /\ \A n \in 1 .. M : p[n] = Line(b(n), l(n)) /\ Len(p[n]) = Width(l(n)) BY <1>4
  <2> HIDE DEF p
  <2>2. p \in Seq(Seq(Printed)) /\ Len(p) = M BY <1>3, <2>1
  <2> QED BY <1>3, <2>1, <2>2
<1> HIDE DEF p
<1>8. SameLength(p, Len(p) - 1, c)
  <2> SUFFICES ASSUME NEW n \in 1 .. Len(p) - 1 PROVE Len(p[n]) = c BY DEF SameLength
  <2>1. n \in 1 .. M /\ n # M BY <1>3, <1>7
  <2> QED BY <1>3, <1>5, <1>7, <2>1
<1>9. text \in Seq(Printed) /\ Len(text) = (Len(p) - 1) * c + Len(p[Len(p)]) /\ Placed(text, p, c)
  <2>1. p \in Seq(Seq(Printed)) /\ p # <<>> /\ c \in Nat BY <1>5, <1>7
  <2> HIDE DEF c
  <2> QED BY ONLY <1>8, <2>1, FlattenPieces
<1> HIDE DEF text, c
<1>10. Len(text) = PosOf(M) + Width(l(M)) - 1
  <2>1. M \in 1 .. M /\ (M - 1) * c \in Int BY <1>3, <1>5
  <2>2. Len(text) = (M - 1) * c + Width(l(M)) BY <1>7, <1>9, <2>1
  <2>3. PosOf(M) = (M - 1) * c + 1 BY DEF PosOf, c
  <2>4. Width(l(M)) \in Int BY <1>6, <2>1
  <2> QED BY <2>1, <2>2, <2>3, <2>4
<1>11. ASSUME NEW n \in 1 .. M PROVE LineAt(text, PosOf(n), b(n), l(n))
  <2> DEFINE o == (n - 1) * c
  <2>1. o \in Nat /\ PosOf(n) = o + 1 BY <1>3, <1>5 DEF PosOf, c
  <2>2. \A i \in 1 .. Width(l(n)) : text[o + i] = p[n][i] BY <1>7, <1>9 DEF Placed
  <2> HIDE DEF o
  <2>3. LineAt(p[n], 1, b(n), l(n)) /\ l(n) \in 1 .. 63 BY <1>3, <1>4, <1>7
  <2>4. \A i \in 1 .. 4 * Ceil(l(n), 3) + 3 : text[o + i] = p[n][i] BY <2>2 DEF Width
  <2>5. LineAt(text, o + 1, b(n), l(n))
    <3> DEFINE y == l(n)
               x == b(n)
               s == p[n]
    <3>1. LineAt(s, 1, x, y) /\ y \in 1 .. 63 /\ \A i \in 1 .. 4 * Ceil(y, 3) + 3 : text[o + i] = s[i] BY <2>3, <2>4
    <3> HIDE DEF x, y, s
    <3>2. LineAt(text, o + 1, x, y) BY ONLY <2>1, <3>1, LineShift
    <3> QED BY <3>2 DEF x, y
  <2> QED BY <2>1, <2>5
<1> QED BY <1>2, <1>9, <1>10, <1>11 DEF Laid, bulk, M, l, b

(* A character below the space does not begin a line.                      *)
LEMMA NextLineIs ==
  ASSUME NEW text \in Seq(Chars), NEW e \in Nat, e >= 3, e \in LineStarts(text),
         e - 1 <= Len(text), text[e - 2] = CR, text[e - 1] = LF
  PROVE  NextLine(text, e - 2) = e
<1> DEFINE N == Len(text)
           A == {p \in LineStarts(text) : p >= e - 2} \cup {N + 1}
<1>1. N \in Nat /\ LineStarts(text) \subseteq 1 .. N + 1 BY DEF LineStarts
<1>2. e \in A BY <1>1
<1>3. A \subseteq Int BY <1>1
<1>4. ASSUME NEW p \in A PROVE e <= p
  <2>1. CASE p = N + 1
    <3>1. e <= N + 1 BY <1>1
    <3> QED BY <2>1, <3>1
  <2>2. CASE p # N + 1
    <3>1. p \in LineStarts(text) /\ p >= e - 2 /\ p \in Nat BY <1>1, <2>2
    <3>2. text[p] >= UUENCODE_ADDED_VAL BY <2>2, <3>1 DEF LineStarts
    <3>3. p # e - 2 /\ p # e - 1 BY <3>2 DEF UUENCODE_ADDED_VAL, CR, LF
    <3> QED BY <3>1, <3>3
  <2> QED BY <2>1, <2>2
<1> HIDE DEF A
<1>5. Min(A) = e
  <2> DEFINE m == Min(A)
  <2>1. m \in A /\ \A y \in A : m <= y BY <1>2, <1>4 DEF Min
  <2> HIDE DEF m
  <2>2. m <= e /\ e <= m /\ m \in Int BY <1>2, <1>3, <1>4, <2>1
  <2> QED BY <2>2 DEF m
<1> QED BY <1>5 DEF NextLine, A

Descending(f, D, stop, pre, next) == f = [n \in D |-> IF n \in stop THEN <<>> ELSE pre[n] \o f[next[n]]]
Onwards(D, stop, next) == \A n \in D \ stop : next[n] \in D /\ next[n] > n

(* A function defined by what follows each of its values exists.           *)
LEMMA Descent ==
  ASSUME NEW N \in Nat, NEW D \in SUBSET (1 .. N + 1), NEW stop, NEW pre, NEW next, Onwards(D, stop, next)
  PROVE  \E f : Descending(f, D, stop, pre, next)
<1> DEFINE rhs(f, n) == IF n \in stop THEN <<>> ELSE pre[n] \o f[next[n]]
           Is(f, k) == \A n \in D : n > N + 1 - k => f[n] = rhs(f, n)
           T == {k \in Nat : \E f : Is(f, k)}
<1>0. \A n \in D : n \in Nat OBVIOUS
<1>1. 0 \in T
  <2>1. Is(<<>>, 0) OBVIOUS
  <2> HIDE DEF Is
  <2> QED BY <2>1
<1>2. ASSUME NEW k \in Nat, k \in T PROVE k + 1 \in T
  <2>1. PICK f : Is(f, k) BY <1>2
  <2> DEFINE g == [n \in D |-> rhs(f, n)]
  <2>2. \A n \in D : g[n] = rhs(f, n) OBVIOUS
  <2> HIDE DEF g
  <2>3. ASSUME NEW n \in D, n > N + 1 - (k + 1) PROVE g[n] = rhs(g, n)
    <3>1. CASE n \in stop BY <2>2, <3>1
    <3>2. CASE n \notin stop
      <4>1. next[n] \in D /\ next[n] > n BY <3>2 DEF Onwards
      <4>2. next[n] > N + 1 - k
        <5>1. n \in Nat /\ next[n] \in Nat BY <1>0, <4>1
        <5> DEFINE m == next[n]
        <5>2. m \in Nat /\ m > n BY <4>1, <5>1
        <5> HIDE DEF m
        <5>3. m > N + 1 - k BY <2>3, <5>1, <5>2
        <5> QED BY <5>3 DEF m
      <4>3. f[next[n]] = rhs(f, next[n]) BY <2>1, <4>1, <4>2
      <4>4. g[next[n]] = rhs(f, next[n]) BY <2>2, <4>1
      <4>5. g[next[n]] = f[next[n]] BY <4>3, <4>4
      <4>6. g[n] = pre[n] \o f[next[n]] BY <2>2, <3>2
      <4> QED BY <3>2, <4>5, <4>6
    <3> QED BY <3>1, <3>2
  <2>4. Is(g, k + 1) BY <2>3
  <2> HIDE DEF Is
  <2> QED BY <2>4
<1>3. PICK f : \A n \in D : f[n] = rhs(f, n)
  <2>1. Nat \subseteq T
    <3> HIDE DEF T
    <3> QED BY <1>1, <1>2, Induction
  <2>2. N + 1 \in T
    <3> HIDE DEF T
    <3> QED BY <2>1
  <2>3. PICK f : Is(f, N + 1) BY <2>2
  <2>4. \A n \in D : n > N + 1 - (N + 1) OBVIOUS
  <2>5. \A n \in D : f[n] = rhs(f, n) BY <2>3, <2>4
  <2> QED BY <2>5
<1> DEFINE h == [n \in D |-> f[n]]
<1>4. \A n \in D : h[n] = f[n] OBVIOUS
<1>5. h = [n \in D |-> f[n]] OBVIOUS
<1> HIDE DEF h
<1>6. ASSUME NEW n \in D PROVE f[n] = rhs(h, n)
  <2>1. CASE n \in stop BY <1>3, <2>1
  <2>2. CASE n \notin stop
    <3>1. next[n] \in D BY <2>2 DEF Onwards
    <3> QED BY <1>3, <1>4, <2>2, <3>1
  <2> QED BY <2>1, <2>2
<1>7. h = [n \in D |-> rhs(h, n)] BY <1>5, <1>6
<1>8. Descending(h, D, stop, pre, next) BY <1>7, Zenon DEF Descending
<1> QED BY <1>8

(***************************************************************************)
(* The decoding, line after line.                                          *)
(***************************************************************************)

(* The next line is further on.                                            *)
LEMMA NextLineType ==
  ASSUME NEW text \in Seq(Chars), NEW from \in Nat
  PROVE  /\ NextLine(text, from) \in LineStarts(text)
         /\ NextLine(text, from) >= from \/ NextLine(text, from) = Len(text) + 1
<1> DEFINE N == Len(text)
           A == {p \in LineStarts(text) : p >= from} \cup {N + 1}
           m == Min(A)
<1>1. N + 1 \in A /\ A \in SUBSET Nat BY DEF LineStarts
<1>2. \E n \in A : \A p \in A : n <= p
  <2> HIDE DEF A
  <2> QED BY <1>1, Least
<1> HIDE DEF A
<1>3. m \in A BY <1>2 DEF Min
<1> HIDE DEF m
<1>4. N + 1 \in LineStarts(text) BY DEF LineStarts
<1>5. m \in LineStarts(text) /\ (m >= from \/ m = N + 1) BY <1>3, <1>4 DEF A
<1> QED BY <1>5 DEF m, A, NextLine

Decoded(f, text) ==
  \A at \in LineStarts(text) :
    f[at] = IF at > Len(text) \/ text[at] = UUENCODE_ZERO THEN <<>>
            ELSE DataOf(text, at, text[at] - UUENCODE_ADDED_VAL)
                 \o f[NextLine(text, at + 4 * Ceil(text[at] - UUENCODE_ADDED_VAL, 3) + 1)]

(* isp_uu_decode takes one line after the other.                           *)
LEMMA DecodeIs ==
  ASSUME NEW text \in Seq(Chars)
  PROVE  \E f : Decoded(f, text) /\ isp_uu_decode(text) = f[1]
<1> DEFINE N == Len(text)
           D == LineStarts(text)
           over(at) == at > Len(text) \/ text[at] = UUENCODE_ZERO
           data(at) == DataOf(text, at, text[at] - UUENCODE_ADDED_VAL)
           after(at) == NextLine(text, at + 4 * Ceil(text[at] - UUENCODE_ADDED_VAL, 3) + 1)
           stop == {at \in D : over(at)}
           pre == [at \in D |-> data(at)]
           next == [at \in D |-> after(at)]
           Def(f) == [at \in D |-> IF over(at) THEN <<>> ELSE data(at) \o f[after(at)]]
<1>1. N \in Nat /\ D \in SUBSET (1 .. N + 1) BY DEF LineStarts
<1>2. Onwards(D, stop, next)
  <2> SUFFICES ASSUME NEW at \in D, at \notin stop PROVE after(at) \in D /\ after(at) > at BY DEF Onwards
  <2> DEFINE len == text[at] - UUENCODE_ADDED_VAL
             from == at + 4 * Ceil(len, 3) + 1
  <2>1. at \in 1 .. N /\ ~(at > N) BY <1>1
  <2>2. text[at] >= UUENCODE_ADDED_VAL /\ text[at] \in Int
    <3>1. text[at] \in Chars BY <2>1
    <3>2. text[at] >= UUENCODE_ADDED_VAL BY <2>1 DEF LineStarts
    <3> DEFINE c == text[at]
    <3> HIDE DEF c
    <3>4. c \in Chars BY <3>1 DEF c
    <3>3. c \in Int BY <3>4 DEF Chars
    <3> QED BY <3>2, <3>3 DEF c
  <2>3. len \in Nat BY <2>2 DEF UUENCODE_ADDED_VAL
  <2> HIDE DEF len
  <2>4. Ceil(len, 3) \in Nat BY <2>3 DEF Ceil
  <2>5. from \in Nat /\ from > at BY <1>1, <2>1, <2>4
  <2> HIDE DEF from
  <2>6. NextLine(text, from) \in LineStarts(text) /\ (NextLine(text, from) >= from \/ NextLine(text, from) = N + 1)
    BY <2>5, NextLineType
  <2> DEFINE m == NextLine(text, from)
  <2>7. m \in Nat /\ (m >= from \/ m = N + 1) BY <1>1, <2>6
  <2> HIDE DEF m
  <2>8. m > at BY <1>1, <2>1, <2>5, <2>7
  <2> QED BY <2>6, <2>8 DEF m, from, len
<1> HIDE DEF data, after, over
<1>3. PICK h : Descending(h, D, stop, pre, next)
  <2> HIDE DEF D, stop, pre, next
  <2> QED BY <1>1, <1>2, Descent
<1>4. h = Def(h)
  <2>1. \A at \in D : (at \in stop <=> over(at)) /\ pre[at] = data(at) /\ next[at] = after(at) OBVIOUS
  <2>2. h = [at \in D |-> IF at \in stop THEN <<>> ELSE pre[at] \o h[next[at]]] BY <1>3 DEF Descending
  <2> HIDE DEF D, stop, pre, next
  <2>3. [at \in D |-> IF at \in stop THEN <<>> ELSE pre[at] \o h[next[at]]] = Def(h) BY <2>1
  <2> HIDE DEF Def
  <2> QED BY <2>2, <2>3
<1> DEFINE g == CHOOSE f : f = Def(f)
<1>5. g = Def(g)
  <2> HIDE DEF Def
  <2> QED BY <1>4
<1>6. isp_uu_decode(text) = g[1] BY Zenon DEF isp_uu_decode, over, data, after
<1> HIDE DEF g
<1>7. \A at \in D : g[at] = IF over(at) THEN <<>> ELSE data(at) \o g[after(at)] BY <1>5
<1>8. Decoded(g, text) BY <1>7, Zenon DEF Decoded, over, data, after
<1> QED BY <1>6, <1>8

(* Two pieces, one after the other.                                        *)
LEMMA Join ==
  ASSUME NEW S, NEW s \in Seq(S), NEW x \in Nat, NEW k \in Nat, NEW m \in Nat, x + k + m <= Len(s)
  PROVE  SubSeq(s, x + 1, x + k) \o SubSeq(s, x + k + 1, x + k + m) = SubSeq(s, x + 1, x + (k + m))
<1> DEFINE y == x + k
           a == SubSeq(s, x + 1, x + k)
           b == SubSeq(s, y + 1, y + m)
           e == SubSeq(s, x + 1, x + (k + m))
<1>1. /\ y \in Nat /\ y + m <= Len(s) /\ k + m \in Nat /\ x + (k + m) <= Len(s) /\ x + k <= Len(s)
  OBVIOUS
<1>2. a \in Seq(S) /\ From(a, s, x, k) BY <1>1, PieceAfter
<1>3. b \in Seq(S) /\ From(b, s, y, m)
  <2> HIDE DEF y
  <2> QED BY <1>1, PieceAfter
<1>4. e \in Seq(S) /\ From(e, s, x, k + m)
  <2> DEFINE n == k + m
  <2>1. n \in Nat /\ x + n <= Len(s) OBVIOUS
  <2> HIDE DEF n
  <2>2. SubSeq(s, x + 1, x + n) \in Seq(S) /\ From(SubSeq(s, x + 1, x + n), s, x, n) BY <2>1, PieceAfter
  <2> QED BY <2>2 DEF n
<1> DEFINE c == a \o b
<1> HIDE DEF a, b, e
<1>5. /\ c \in Seq(S) /\ Len(c) = Len(a) + Len(b)
      /\ \A i \in 1 .. Len(a) + Len(b) : c[i] = IF i <= Len(a) THEN a[i] ELSE b[i - Len(a)]
  BY <1>2, <1>3, ConcatProperties
<1> HIDE DEF c
<1>6. Len(a) = k /\ Len(b) = m BY <1>2, <1>3 DEF From
<1>7. From(c, s, x, k + m)
  <2>1. ASSUME NEW i \in 1 .. k + m PROVE c[i] = s[x + i]
    <3>1. CASE i <= k
      <4>1. c[i] = a[i] BY <1>5, <1>6, <3>1
      <4>2. i \in 1 .. k BY <3>1
      <4> QED BY <1>2, <4>1, <4>2 DEF From
    <3>2. CASE ~(i <= k)
      <4> DEFINE j == i - k
      <4>1. c[i] = b[j] BY <1>5, <1>6, <3>2
      <4>2. j \in 1 .. m /\ y + j = x + i BY <3>2
      <4> HIDE DEF j, y
      <4>3. b[j] = s[y + j] BY <1>3, <4>2 DEF From
      <4> QED BY <4>1, <4>2, <4>3
    <3> QED BY <3>1, <3>2
  <2>2. Len(c) = k + m BY <1>5, <1>6
  <2> QED BY <2>1, <2>2 DEF From
<1>8. c = e BY <1>1, <1>4, <1>5, <1>7, SamePiece
<1>9. y + 1 = x + k + 1 /\ y + m = x + k + m OBVIOUS
<1> QED BY <1>8, <1>9 DEF c, a, b, e

(* Nothing is encoded as nothing.                                          *)
LEMMA EncodeNothing ==
  ASSUME NEW following
  PROVE  isp_uu_encode(<<>>, following) = <<>> /\ get_remaining_blocksize(0) = 0
<1> DEFINE d == LINE_DATA_LENGTH
           none == << >>
<1>1. d \in 1 .. 63 /\ LINES_PER_BLOCK \in Nat \ {0} BY UuAssumption
<1> HIDE DEF d
<1>2. (0 + d - 1) \div d = 0 BY <1>1
<1>3. Ceil(0, d) = 0 BY <1>2 DEF Ceil
<1> DEFINE p == [n \in 1 .. Ceil(Len(none), LINE_DATA_LENGTH) |->
                   Line(SubSeq(none \o following, (n - 1) * LINE_DATA_LENGTH + 1, Len(none \o following)),
                        Min({Len(none) - (n - 1) * LINE_DATA_LENGTH, LINE_DATA_LENGTH}))]
<1>4. isp_uu_encode(none, following) = FlattenSeq(p) BY Zenon DEF isp_uu_encode
<1>5. p = <<>>
  <2>1. Len(none) = 0 OBVIOUS
  <2>2. Ceil(Len(none), LINE_DATA_LENGTH) = 0 BY <1>3, <2>1 DEF d
  <2> QED BY <2>2
<1> HIDE DEF p
<1>6. FlattenSeq(p) = <<>> BY <1>5 DEF FlattenSeq
<1>7. get_remaining_blocksize(0) = 0
  <2>1. LINES_PER_BLOCK * d >= 1 /\ LINES_PER_BLOCK * d \in Int BY <1>1
  <2>2. (0 + 3 - 1) \div 3 = 0 OBVIOUS
  <2>3. Ceil(0, 3) = 0 BY <2>2 DEF Ceil
  <2> QED BY <1>3, <2>1, <2>3 DEF get_remaining_blocksize, MAX_DATA_BLOCK_SIZE, d
<1> QED BY <1>4, <1>6, <1>7

(* isp_uu_decode gives back what isp_uu_encode was given, whatever         *)
(* followed it in memory.                                                  *)
THEOREM DecodeEncode ==
  ASSUME NEW src \in Seq(Bytes), NEW following \in Seq(Bytes), Len(following) >= 2
  PROVE  isp_uu_decode(isp_uu_encode(src, following)) = src
<1>1. CASE src = <<>>
  <2>1. isp_uu_encode(src, following) = <<>> BY <1>1, EncodeNothing
  <2>2. PICK f : Decoded(f, <<>>) /\ isp_uu_decode(<<>>) = f[1]
    <3>1. <<>> \in Seq(Chars) OBVIOUS
    <3> QED BY <3>1, DecodeIs
  <2>3. 1 \in LineStarts(<<>>) /\ 1 > Len(<<>>) BY DEF LineStarts
  <2>4. f[1] = <<>> BY <2>2, <2>3, Zenon DEF Decoded
  <2> QED BY <1>1, <2>1, <2>2, <2>4
<1>2. CASE src # <<>>
  <2> DEFINE bulk == Len(src)
             M == Lines(bulk)
             l(n) == LengthOf(bulk, n)
             b(n) == LineOf(src, following, n)
             text == isp_uu_encode(src, following)
             N == Len(text)
  <2>1. Laid(text, src, following) BY <1>2, EncodeLayout
  <2>2. bulk \in Nat \ {0} BY <1>2
  <2>0. text \in Seq(Chars)
    <3>1. text \in Seq(Printed) BY <2>1, Zenon DEF Laid
    <3> HIDE DEF text
    <3> QED BY <3>1, PrintedChars
  <2>3. PICK f : Decoded(f, text) /\ isp_uu_decode(text) = f[1]
    <3>1. text \in Seq(Chars) BY <2>0
    <3> QED BY <3>1, DecodeIs
  <2>4. /\ text \in Seq(Chars) /\ N = PosOf(M) + Width(l(M)) - 1
        /\ \A n \in 1 .. M : LineAt(text, PosOf(n), b(n), l(n))
    BY <2>0, <2>1, Zenon DEF Laid
  <2> HIDE DEF bulk, M, text
  <2>5. M \in Nat \ {0} /\ \A n \in 1 .. M : l(n) \in 1 .. 63 /\ Before(n) \in Nat /\ Before(n) + l(n) <= bulk
    <3>1. M \in Nat \ {0} BY <2>2, LineLengths DEF M
    <3>2. \A n \in 1 .. M : l(n) \in 1 .. 63 /\ Before(n) \in Nat /\ Before(n) + l(n) <= bulk
      BY <2>2, LineLengths DEF M, l
    <3> QED BY <3>1, <3>2
  <2>6. ASSUME NEW n \in 1 .. M
        PROVE  /\ PosOf(n) \in Nat \ {0} /\ Width(l(n)) \in Nat \ {0}
               /\ n # M => PosOf(n) + Width(l(n)) = PosOf(n + 1) /\ Before(n) + l(n) = Before(n + 1)
               /\ PosOf(n) + Width(l(n)) <= N + 1
    <3>1. /\ PosOf(n) \in Nat \ {0} /\ Width(l(n)) \in Nat \ {0}
          /\ n # M => PosOf(n) + Width(l(n)) = PosOf(n + 1) /\ Before(n) + l(n) = Before(n + 1)
          /\ PosOf(n) + Width(l(n)) <= PosOf(M) + Width(l(M))
      BY <2>2, LinePlaces DEF M, l
    <3>2. M \in 1 .. M BY <2>5
    <3>3. PosOf(M) \in Nat \ {0} /\ Width(l(M)) \in Nat \ {0}
      BY <2>2, <3>2, LinePlaces DEF M, l
    <3>4. PosOf(M) + Width(l(M)) = N + 1
      <4> DEFINE x == PosOf(M)
                 y == Width(l(M))
      <4>1. x \in Nat /\ y \in Nat /\ N = x + y - 1 BY <2>4, <3>3
      <4> HIDE DEF x, y
      <4>2. x + y = N + 1 BY <4>1
      <4> QED BY <4>2 DEF x, y
    <3> QED BY <3>1, <3>4
  <2>7. ASSUME NEW n \in 1 .. M
        PROVE  PosOf(n) \in LineStarts(text)
    <3>1. PosOf(n) \in 1 .. N
      <4> DEFINE x == PosOf(n)
                 y == Width(l(n))
      <4>1. x \in Nat \ {0} /\ y \in Nat \ {0} /\ x + y <= N + 1 BY <2>6
      <4>2. N \in Nat BY <2>4
      <4> HIDE DEF x, y
      <4>3. x \in 1 .. N BY <4>1, <4>2
      <4> QED BY <4>3 DEF x
    <3>2. text[PosOf(n)] = l(n) + UUENCODE_ADDED_VAL BY <2>4 DEF LineAt
    <3>3. text[PosOf(n)] >= UUENCODE_ADDED_VAL 
      <4>1. n \in 1 .. M OBVIOUS
      <4> DEFINE y == l(n)
                 c == text[PosOf(n)]
      <4>2. y \in 1 .. 63 BY ONLY <2>5, <4>1
      <4>3. c = y + 32 BY ONLY <3>2, Zenon DEF UUENCODE_ADDED_VAL
      <4> HIDE DEF c, y
      <4>4. c >= 32 BY ONLY <4>2, <4>3
      <4> QED BY ONLY <4>4, Zenon DEF UUENCODE_ADDED_VAL, c
    <3>4. DOMAIN text = 1 .. N BY <2>4
    <3> QED BY <3>1, <3>3, <3>4 DEF LineStarts
  (* One line.                                                             *)
  <2>8. ASSUME NEW n \in 1 .. M
        PROVE  f[PosOf(n)] = SubSeq(src, Before(n) + 1, Before(n) + l(n)) \o f[PosOf(n) + Width(l(n))]
    <3> DEFINE at == PosOf(n)
               e == at + Width(l(n))
               q == Ceil(l(n), 3)
    <3>1. at \in Nat \ {0} /\ e <= N + 1 /\ at \in LineStarts(text) /\ l(n) \in 1 .. 63
      <4>1. n \in 1 .. M OBVIOUS
      <4>2. l(n) \in 1 .. 63 BY ONLY <2>5, <4>1
      <4> QED BY ONLY <2>6, <2>7, <4>1, <4>2
    <3>2. LineAt(text, at, b(n), l(n)) BY <2>4
    <3>3. q \in Nat \ {0}
      <4> DEFINE y == l(n)
      <4>1. y \in 1 .. 63 BY <3>1, Zenon
      <4> HIDE DEF y
      <4>2. y \in Nat \ {0} BY ONLY <4>1
      <4>3. Ceil(y, 3) \in Nat \ {0} BY ONLY <4>2, CeilThree
      <4> QED BY ONLY <4>3, Zenon DEF y, q
    <3>4. e = at + 4 * q + 3 BY <3>1, <3>3 DEF Width
    <3>5. e \in LineStarts(text)
      <4>1. CASE n = M
        <5>1. N = at + Width(l(n)) - 1 BY <2>4, <4>1
        <5>2. e = N + 1 BY <2>6, <5>1
        <5> QED BY <5>2 DEF LineStarts
      <4>2. CASE n # M
        <5>1. e = PosOf(n + 1) BY <2>6, <4>2
        <5>2. n + 1 \in 1 .. M BY <2>5, <4>2
        <5> QED BY <2>7, <5>1, <5>2
      <4> QED BY <4>1, <4>2
    <3>6. text[at] = l(n) + UUENCODE_ADDED_VAL /\ text[at + 4 * q + 1] = CR /\ text[at + 4 * q + 2] = LF
      BY <3>2 DEF LineAt
    <3> HIDE DEF at, e, q
    <3>7. /\ ~(at > N) /\ text[at] # UUENCODE_ZERO /\ text[at] - UUENCODE_ADDED_VAL = l(n)
          /\ e \in Nat /\ e >= 3 /\ e - 1 <= N
          /\ e - 2 = at + 4 * q + 1 /\ e - 1 = at + 4 * q + 2
      <4>1. N \in Nat BY <2>4
      <4> DEFINE y == l(n)
                 c == text[at]
                 z == N
      <4>2. z \in Nat /\ y \in 1 .. 63 /\ c = y + 32 /\ at \in Nat \ {0} /\ e <= z + 1
        BY ONLY <3>1, <3>6, <4>1, Zenon DEF UUENCODE_ADDED_VAL, c, y, z
      <4> HIDE DEF c, y, z
      <4>3. c # 96 /\ c - 32 = y BY ONLY <4>2
      <4>4. /\ ~(at > z) /\ e \in Nat /\ e >= 3 /\ e - 1 <= z
            /\ e - 2 = at + 4 * q + 1 /\ e - 1 = at + 4 * q + 2
        BY ONLY <3>3, <3>4, <4>2
      <4> QED BY ONLY <4>3, <4>4, Zenon DEF UUENCODE_ADDED_VAL, UUENCODE_ZERO, c, y, z
    <3>8. NextLine(text, e - 2) = e
      <4>1. text[e - 2] = CR /\ text[e - 1] = LF BY <3>6, <3>7
      <4> QED BY <2>4, <3>5, <3>7, <4>1, NextLineIs
    <3>9. f[at] = DataOf(text, at, l(n)) \o f[NextLine(text, at + 4 * q + 1)]
      BY <2>3, <3>1, <3>7, Zenon DEF Decoded, q
    <3>10. DataOf(text, at, l(n)) = SubSeq(b(n), 1, l(n))
      <4>1. b(n) \in Seq(Bytes) /\ 3 * Ceil(l(n), 3) <= Len(b(n))
        BY <1>2, LineOfIs DEF M, l, b, bulk
      <4>2. at + 4 * Ceil(l(n), 3) + 2 <= Len(text) BY <3>1, <3>3, <3>7 DEF q
      <4> DEFINE x == b(n)
                 y == l(n)
      <4>3. x \in Seq(Bytes) /\ y \in 1 .. 63 /\ 3 * Ceil(y, 3) <= Len(x) /\ at + 4 * Ceil(y, 3) + 2 <= Len(text)
            /\ LineAt(text, at, x, y) /\ at \in Nat \ {0} /\ text \in Seq(Chars)
        BY <2>4, <3>1, <3>2, <4>1, <4>2 DEF at
      <4> HIDE DEF x, y
      <4>4. DataOf(text, at, y) = SubSeq(x, 1, y) BY ONLY <4>3, DataOfLine
      <4> QED BY <4>4 DEF x, y
    <3>11. SubSeq(b(n), 1, l(n)) = SubSeq(src, Before(n) + 1, Before(n) + l(n))
      BY <1>2, LineOfIs DEF M, l, b, bulk
    <3>12. f[at] = SubSeq(src, Before(n) + 1, Before(n) + l(n)) \o f[e] BY <3>7, <3>8, <3>9, <3>10, <3>11
    <3> QED BY <3>12 DEF at, e
  <2> DEFINE rest(n) == SubSeq(src, Before(n) + 1, bulk)
             T == {k \in Nat : k < M => f[PosOf(M - k)] = rest(M - k)}
  <2>9. 0 \in T
    <3>1. M \in 1 .. M /\ M - 0 = M BY <2>5
    <3>2. PosOf(M) + Width(l(M)) = N + 1
      <4> DEFINE x == PosOf(M)
                 y == Width(l(M))
      <4>1. x \in Nat /\ y \in Nat /\ N = x + y - 1 BY <2>4, <2>6, <3>1
      <4> HIDE DEF x, y
      <4>2. x + y = N + 1 BY <4>1
      <4> QED BY <4>2 DEF x, y
    <3>3. f[N + 1] = <<>>
      <4>1. N + 1 \in LineStarts(text) /\ N + 1 > N BY <2>4 DEF LineStarts
      <4> QED BY <2>3, <4>1, Zenon DEF Decoded
    <3>4. f[PosOf(M)] = SubSeq(src, Before(M) + 1, Before(M) + l(M)) \o <<>> BY <2>8, <3>1, <3>2, <3>3
    <3>5. Before(M) + l(M) = bulk BY <2>2, <3>1, LineLengths DEF M
    <3>6. SubSeq(src, Before(M) + 1, Before(M) + l(M)) \in Seq(Bytes)
      <4> DEFINE x == Before(M)
                 y == l(M)
      <4>1. x \in Nat /\ y \in Nat /\ x + y <= bulk
        <5>1. M \in 1 .. M BY <3>1
        <5>2. l(M) \in 1 .. 63 /\ Before(M) \in Nat /\ Before(M) + l(M) <= bulk BY ONLY <2>5, <5>1
        <5>3. y \in 1 .. 63 /\ x \in Nat /\ x + y <= bulk BY ONLY <5>2 DEF x, y
        <5> HIDE DEF x, y
        <5> QED BY ONLY <5>3
      <4>0. bulk = Len(src) BY DEF bulk
      <4> HIDE DEF x, y
      <4>2. SubSeq(src, x + 1, x + y) \in Seq(Bytes) BY <4>0, <4>1, PieceAfter
      <4> QED BY <4>2 DEF x, y
    <3>7. f[PosOf(M)] = rest(M)
      <4> DEFINE u == SubSeq(src, Before(M) + 1, Before(M) + l(M))
      <4>1. u \in Seq(Bytes) BY <3>6
      <4> HIDE DEF u
      <4>2. u \o <<>> = u BY ONLY <4>1, ConcatEmptySeq
      <4> QED BY <3>4, <3>5, <4>2 DEF u
    <3> HIDE DEF rest
    <3> QED BY <3>1, <3>7
  <2>10. ASSUME NEW k \in Nat, k \in T PROVE k + 1 \in T
    <3> SUFFICES ASSUME k + 1 < M PROVE f[PosOf(M - (k + 1))] = rest(M - (k + 1)) OBVIOUS
    <3> DEFINE n == M - (k + 1)
    <3>1. n \in 1 .. M /\ n # M /\ n + 1 = M - k /\ k < M /\ n + 1 \in 1 .. M BY <2>5
    <3>2. f[PosOf(n + 1)] = rest(n + 1)
      <4>1. f[PosOf(M - k)] = rest(M - k) BY <2>10, <3>1
      <4> HIDE DEF n, rest
      <4> QED BY <3>1, <4>1
    <3> HIDE DEF n, T
    <3>3. PosOf(n) + Width(l(n)) = PosOf(n + 1) /\ Before(n) + l(n) = Before(n + 1) BY <2>6, <3>1
    <3>4. f[PosOf(n)] = SubSeq(src, Before(n) + 1, Before(n) + l(n)) \o rest(n + 1) BY <2>8, <3>1, <3>2, <3>3
    <3>5. SubSeq(src, Before(n) + 1, Before(n) + l(n)) \o rest(n + 1) = rest(n)
      <4> DEFINE x == Before(n)
                 y == l(n)
                 m == bulk - (x + y)
      <4>1. x \in Nat /\ y \in Nat /\ x + y <= bulk
        <5>1. n \in 1 .. M BY <3>1
        <5>2. l(n) \in 1 .. 63 /\ Before(n) \in Nat /\ Before(n) + l(n) <= bulk BY ONLY <2>5, <5>1
        <5>3. y \in 1 .. 63 /\ x \in Nat /\ x + y <= bulk BY ONLY <5>2 DEF x, y
        <5> HIDE DEF x, y
        <5> QED BY ONLY <5>3
      <4>0. bulk = Len(src) BY DEF bulk
      <4>2. Before(n + 1) = x + y BY <3>3
      <4> HIDE DEF x, y
      <4>3. m \in Nat /\ x + y + m = bulk /\ x + (y + m) = bulk /\ x + y + m <= bulk
        BY ONLY <2>2, <4>1
      <4> HIDE DEF m
      <4>4. SubSeq(src, x + 1, x + y) \o SubSeq(src, x + y + 1, x + y + m) = SubSeq(src, x + 1, x + (y + m))
        BY <4>0, <4>1, <4>3, Join
      <4>5. SubSeq(src, x + 1, x + y) \o SubSeq(src, x + y + 1, bulk) = SubSeq(src, x + 1, bulk) BY <4>3, <4>4
      <4> QED BY <4>2, <4>5 DEF x, y
    <3> QED BY <3>4, <3>5 DEF n
  <2>11. Nat \subseteq T
    <3> HIDE DEF T
    <3> QED BY <2>9, <2>10, Induction
  <2>12. f[1] = src
    <3>1. M - 1 \in Nat /\ M - 1 < M /\ M - (M - 1) = 1 BY <2>5
    <3>2. M - 1 \in T
      <4> HIDE DEF T
      <4> QED BY <2>11, <3>1
    <3>3. f[PosOf(M - (M - 1))] = rest(M - (M - 1)) BY <3>1, <3>2
    <3>4. f[PosOf(1)] = rest(1)
      <4> HIDE DEF rest
      <4> QED BY <3>1, <3>3
    <3>5. PosOf(1) = 1 /\ Before(1) = 0
      <4>1. MAX_BYTES_PER_LINE \in Nat BY WholeLine
      <4>2. LINE_DATA_LENGTH \in 1 .. 63 BY UuAssumption
      <4>3. 0 * MAX_BYTES_PER_LINE = 0 /\ 0 * LINE_DATA_LENGTH = 0 /\ 1 - 1 = 0 /\ 0 + 1 = 1 BY <4>1, <4>2
      <4> QED BY <4>3 DEF PosOf, Before
    <3>6. SubSeq(src, 1, Len(src)) = src
      <4>1. 0 \in Nat /\ bulk \in Nat /\ 0 + bulk = bulk /\ 0 + bulk <= Len(src) /\ 0 + 1 = 1 BY <2>2 DEF bulk
      <4>2. SubSeq(src, 0 + 1, 0 + bulk) \in Seq(Bytes) /\ From(SubSeq(src, 0 + 1, 0 + bulk), src, 0, bulk) BY <4>1, PieceAfter
      <4>3. From(src, src, 0, bulk) BY <4>1 DEF From, bulk
      <4>4. SubSeq(src, 0 + 1, 0 + bulk) = src BY <4>1, <4>2, <4>3, SamePiece
      <4> QED BY <4>1, <4>4 DEF bulk
    <3>7. rest(1) = src
      <4>1. 0 + 1 = 1 OBVIOUS
      <4> QED BY <3>5, <3>6, <4>1 DEF bulk
    <3> HIDE DEF rest
    <3> QED BY <3>4, <3>5, <3>7
  <2> QED BY <2>3, <2>12 DEF text
<1> QED BY <1>1, <1>2

(* The triplets of whole lines and of a last one.                          *)
LEMMA CeilLines ==
  ASSUME NEW k \in Nat, NEW x \in Nat, NEW l \in Nat \ {0}
  PROVE  Ceil(k * (3 * x) + l, 3) = k * x + Ceil(l, 3)
<1> DEFINE y == k * x
<1>1. y \in Nat /\ k * (3 * x) = 3 * y OBVIOUS
<1> HIDE DEF y
<1>2. (3 * y + l + 3 - 1) \div 3 = y + ((l + 3 - 1) \div 3) BY <1>1
<1> QED BY <1>1, <1>2 DEF Ceil, y

(* get_remaining_blocksize is the size of the text isp_uu_encode makes of  *)
(* one block.                                                              *)
THEOREM TextSize ==
  ASSUME NEW src \in Seq(Bytes), NEW following \in Seq(Bytes), Len(following) >= 2, Len(src) <= MAX_DATA_BLOCK_SIZE
  PROVE  /\ isp_uu_encode(src, following) \in Seq(Chars)
         /\ Len(isp_uu_encode(src, following)) = get_remaining_blocksize(Len(src))
<1>1. CASE src = <<>>
  <2>1. isp_uu_encode(src, following) = <<>> /\ get_remaining_blocksize(0) = 0 BY <1>1, EncodeNothing
  <2>2. Len(src) = 0 /\ Len(<<>>) = 0 /\ <<>> \in Seq(Chars) BY <1>1
  <2> QED BY <2>1, <2>2, Zenon
<1>2. CASE src # <<>>
  <2> DEFINE bulk == Len(src)
             M == Lines(bulk)
             d == LINE_DATA_LENGTH
             c == MAX_BYTES_PER_LINE
             l == LengthOf(bulk, M)
             x == Ceil(d, 3)
             K == LINES_PER_BLOCK
             text == isp_uu_encode(src, following)
  <2>1. Laid(text, src, following) BY <1>2, EncodeLayout
  <2>2. bulk \in Nat \ {0} BY <1>2
  <2>3. text \in Seq(Chars) /\ Len(text) = PosOf(M) + Width(l) - 1
    <3>1. text \in Seq(Printed) /\ Len(text) = PosOf(M) + Width(l) - 1 BY <2>1, Zenon DEF Laid
    <3> HIDE DEF text
    <3> QED BY <3>1, PrintedChars
  <2> HIDE DEF bulk, text
  <2>4. d \in Nat \ {0} /\ M \in Nat \ {0} /\ l \in Nat \ {0}
    <3>1. d \in 1 .. 63 /\ M \in Nat \ {0} BY <2>2, LineLengths
    <3>2. M \in 1 .. M BY <3>1
    <3>3. l \in 1 .. 63 BY <2>2, <3>2, LineLengths
    <3> HIDE DEF l, M, d
    <3> QED BY <3>1, <3>3
  <2>5. (M - 1) * d + l = bulk
    <3>1. M \in 1 .. M BY <2>4
    <3> QED BY <2>2, <3>1, LineLengths DEF Before
  <2>6. x \in Nat \ {0} /\ 3 * x = d /\ c = 4 * x + 3
    <3>1. d \in Nat \ {0} BY <2>4
    <3>2. x \in Nat \ {0} BY ONLY <3>1, CeilThree
    <3> QED BY <3>2, WholeLine DEF Width
  <2>7. Ceil(l, 3) \in Nat \ {0} /\ l <= 3 * Ceil(l, 3) /\ 3 * Ceil(l, 3) <= l + 2
    <3>1. l \in Nat \ {0} BY <2>4
    <3> QED BY ONLY <3>1, CeilThree
  <2>8. Len(text) = (M - 1) * c + 4 * Ceil(l, 3) + 3
    <3>1. Width(l) = 4 * Ceil(l, 3) + 3 BY Zenon DEF Width
    <3>2. PosOf(M) = (M - 1) * c + 1 BY Zenon DEF PosOf
    <3> DEFINE y == (M - 1) * c
               z == Ceil(l, 3)
    <3>3. y \in Int /\ z \in Int BY <2>4, <2>6, <2>7
    <3>4. Len(text) = y + 1 + (4 * z + 3) - 1 BY <2>3, <3>1, <3>2, Zenon
    <3> HIDE DEF y, z
    <3>5. Len(text) = y + 4 * z + 3 BY <3>3, <3>4
    <3> QED BY <3>5 DEF y, z
  <2>9. Ceil(bulk, d) = M BY Zenon DEF Lines
  <2> HIDE DEF M, d, l, x, c
  <2>10. CASE bulk < K * d
    <3>1. get_remaining_blocksize(bulk) = Ceil(bulk, 3) * 4 + 3 * M
      <4>1. MAX_DATA_BLOCK_SIZE = K * d BY Zenon DEF MAX_DATA_BLOCK_SIZE, d
      <4>2. ~(bulk >= K * d) 
        <5>1. K \in Nat BY UuAssumption
        <5>2. K * d \in Int BY <2>4, <5>1
        <5> QED BY <2>2, <2>10, <5>2
      <4> QED BY <2>9, <4>1, <4>2, Zenon DEF get_remaining_blocksize, d
    <3>2. Ceil(bulk, 3) = (M - 1) * x + Ceil(l, 3)
      <4>1. Ceil((M - 1) * (3 * x) + l, 3) = (M - 1) * x + Ceil(l, 3)
        <5> DEFINE k == M - 1
        <5>1. k \in Nat /\ x \in Nat /\ l \in Nat \ {0} BY <2>4, <2>6
        <5> HIDE DEF k
        <5>2. Ceil(k * (3 * x) + l, 3) = k * x + Ceil(l, 3) BY ONLY <5>1, CeilLines
        <5> QED BY <5>2 DEF k
      <4> QED BY <2>5, <2>6, <4>1
    <3> DEFINE y == (M - 1) * x
               z == Ceil(l, 3)
    <3>3. (M - 1) * c = 4 * y + 3 * (M - 1) /\ y \in Int BY <2>4, <2>6
    <3> HIDE DEF y
    <3>4. (y + z) * 4 + 3 * M = 4 * y + 3 * (M - 1) + 4 * z + 3 BY <2>4, <2>7, <3>3
    <3>5. Len(text) = get_remaining_blocksize(bulk) BY <2>8, <3>1, <3>2, <3>3, <3>4 DEF y
    <3> QED BY <2>3, <3>5 DEF bulk, text
  <2>11. CASE bulk = K * d
    <3>1. K \in Nat \ {0} BY UuAssumption
    <3>2. get_remaining_blocksize(bulk) = c * K
      <4>1. MAX_DATA_BLOCK_SIZE = bulk BY <2>11, Zenon DEF MAX_DATA_BLOCK_SIZE, d
      <4>2. bulk >= bulk BY <2>2
      <4> QED BY <4>1, <4>2, Zenon DEF get_remaining_blocksize, c
    <3>3. M = K /\ l = d
      <4>1. M = (K * d + d - 1) \div d BY <2>9, <2>11 DEF Ceil
      <4>2. (M - 1) * d + l = K * d BY <2>5, <2>11
      <4>3. l <= d
        <5>1. bulk - (Ceil(bulk, d) - 1) * d \in 1 .. d BY <2>2, <2>4, CeilSplit
        <5>2. (M - 1) * d \in Int BY <2>4
        <5> DEFINE y == (M - 1) * d
        <5>3. y \in Int /\ bulk - y \in 1 .. d /\ y + l = bulk BY <2>5, <2>9, <5>1, <5>2
        <5> HIDE DEF y
        <5> QED BY <2>2, <2>4, <5>3
      <4>4. (M - K) * d = d - l
        <5>1. (M - 1) * d = M * d - d /\ (M - K) * d = M * d - K * d /\ M * d \in Int /\ K * d \in Int BY <2>4, <3>1
        <5> DEFINE u == M * d
                   v == K * d
        <5>2. u \in Int /\ v \in Int /\ u - d + l = v /\ (M - K) * d = u - v BY <4>2, <5>1
        <5> HIDE DEF u, v
        <5>3. u - v = d - l BY <2>4, <5>2
        <5> QED BY <5>2, <5>3
      <4>5. M - K = 0
        <5> DEFINE w == M - K
        <5>1. w \in Int /\ w * d = d - l BY <2>4, <3>1, <4>4
        <5>2. w * d >= 0 /\ w * d < d BY <2>4, <4>3, <5>1
        <5> HIDE DEF w
        <5>3. w >= 1 => w * d >= d BY <2>4, <5>1
        <5>4. w <= -1 => w * d <= -d BY <2>4, <5>1
        <5> DEFINE y == w * d
        <5>5. y \in Int BY <2>4, <5>1
        <5> HIDE DEF y
        <5>6. y >= 0 /\ y < d /\ (w >= 1 => y >= d) /\ (w <= -1 => y <= -d) BY <5>2, <5>3, <5>4 DEF y
        <5>7. w = 0 BY <2>4, <5>1, <5>5, <5>6
        <5> QED BY <5>7 DEF w
      <4>6. 0 * d = 0 BY <2>4
      <4> QED BY <2>4, <3>1, <4>4, <4>5, <4>6
    <3>4. (K - 1) * c + c = c * K BY <2>6, <3>1
    <3>5. Len(text) = get_remaining_blocksize(bulk)
      <4>1. l = d /\ Ceil(l, 3) = x BY <3>3 DEF x
      <4>2. (K - 1) * c \in Int /\ x \in Int /\ c = 4 * x + 3 BY <2>6, <3>1
      <4> DEFINE y == (K - 1) * c
      <4>3. Len(text) = y + 4 * x + 3 BY <2>8, <3>3, <4>1
      <4>4. y \in Int /\ y + c = c * K BY <3>4, <4>2
      <4> HIDE DEF y
      <4>5. y + 4 * x + 3 = y + c BY <4>2, <4>4
      <4> QED BY <3>2, <4>3, <4>4, <4>5
    <3> QED BY <2>3, <3>5 DEF bulk, text
  <2>12. bulk < K * d \/ bulk = K * d
    <3>1. K \in Nat \ {0} BY UuAssumption
    <3>2. K * d \in Int BY <2>4, <3>1
    <3>3. bulk <= K * d BY DEF MAX_DATA_BLOCK_SIZE, bulk, d
    <3> DEFINE y == K * d
    <3>4. y \in Int /\ bulk <= y BY <3>2, <3>3
    <3> HIDE DEF y
    <3>5. bulk < y \/ bulk = y BY <2>2, <3>4
    <3> QED BY <3>5 DEF y
  <2> QED BY <2>10, <2>11, <2>12
<1> QED BY <1>1, <1>2

(***************************************************************************)
(* The line: what is still to be read.                                     *)
(***************************************************************************)

(* Putting sequences together.                                             *)
LEMMA Regroup ==
  ASSUME NEW S, NEW a \in Seq(S), NEW b \in Seq(S), NEW c \in Seq(S)
  PROVE  /\ (a \o b) \o c = a \o (b \o c)
         /\ a \o b \in Seq(S) /\ Len(a \o b) = Len(a) + Len(b)
         /\ a \o <<>> = a /\ <<>> \o a = a
<1>1. (a \o b) \o c = a \o (b \o c) BY ConcatAssociative
<1>2. a \o b \in Seq(S) /\ Len(a \o b) = Len(a) + Len(b) BY ConcatProperties
<1>3. a \o <<>> = a /\ <<>> \o a = a BY ConcatEmptySeq
<1> QED BY <1>1, <1>2, <1>3, Zenon

(* The same of text.                                                       *)
LEMMA RegroupText ==
  ASSUME NEW a \in Seq(Chars), NEW b \in Seq(Chars), NEW c \in Seq(Chars)
  PROVE  (a \o b) \o c = a \o (b \o c)
<1> DEFINE S == Chars
<1> HIDE DEF S
<1>1. a \in Seq(S) /\ b \in Seq(S) /\ c \in Seq(S) BY DEF S
<1> QED BY ONLY <1>1, Regroup

(* The first element, then the others.                                     *)
LEMMA HeadFirst ==
  ASSUME NEW S, NEW s \in Seq(S), s # <<>>
  PROVE  /\ Head(s) \in S /\ Tail(s) \in Seq(S) /\ <<Head(s)>> \in Seq(S)
         /\ s = <<Head(s)>> \o Tail(s)
<1> DEFINE h == <<Head(s)>>
           t == Tail(s)
<1>1. /\ Head(s) \in S /\ t \in Seq(S) /\ Len(t) = Len(s) - 1
      /\ \A i \in 1 .. Len(t) : t[i] = s[i + 1]
  BY HeadTailProperties
<1>2. h \in Seq(S) /\ Len(h) = 1 /\ h[1] = s[1] BY <1>1
<1>3. Len(s) \in Nat \ {0} OBVIOUS
<1> HIDE DEF h, t
<1>4. /\ h \o t \in Seq(S) /\ Len(h \o t) = Len(h) + Len(t)
      /\ \A i \in 1 .. Len(h) + Len(t) : (h \o t)[i] = IF i <= Len(h) THEN h[i] ELSE t[i - Len(h)]
  <2>1. h \in Seq(S) /\ t \in Seq(S) BY <1>1, <1>2
  <2> QED BY ONLY <2>1, ConcatProperties
<1>5. Len(h \o t) = Len(s) BY <1>1, <1>2, <1>3, <1>4
<1>6. ASSUME NEW i \in 1 .. Len(s) PROVE (h \o t)[i] = s[i]
  <2>1. (h \o t)[i] = IF i <= 1 THEN h[i] ELSE t[i - 1] BY <1>1, <1>2, <1>3, <1>4
  <2>2. CASE i = 1 BY <1>2, <2>1, <2>2
  <2>3. CASE i # 1
    <3>1. i - 1 \in 1 .. Len(t) /\ i - 1 + 1 = i BY <1>1, <1>3, <2>3
    <3>2. t[i - 1] = s[i] BY <1>1, <3>1
    <3> QED BY <2>1, <2>3, <3>2
  <2> QED BY <2>2, <2>3
<1>7. h \o t = s BY <1>4, <1>5, <1>6, SeqEqual
<1> QED BY <1>1, <1>2, <1>7 DEF h, t

(* What is left of a sequence when its end is cut off again.               *)
LEMMA CutOff ==
  ASSUME NEW S, NEW a \in Seq(S), NEW b \in Seq(S)
  PROVE  /\ Len(a \o b) - Len(b) = Len(a)
         /\ SubSeq(a \o b, 1, Len(a \o b) - Len(b)) = a
<1>1. /\ a \o b \in Seq(S) /\ Len(a \o b) = Len(a) + Len(b)
      /\ \A i \in 1 .. Len(a) + Len(b) : (a \o b)[i] = IF i <= Len(a) THEN a[i] ELSE b[i - Len(a)]
  BY ConcatProperties
<1>2. Len(a) \in Nat /\ Len(b) \in Nat OBVIOUS
<1> DEFINE w == a \o b
<1>3. Len(w) - Len(b) = Len(a) BY <1>1, <1>2
<1>4. \A i \in 1 .. Len(a) : w[i] = a[i] BY <1>1, <1>2
<1> HIDE DEF w
<1>5. \A i \in 1 .. Len(a) : a[i] \in S OBVIOUS
<1>6. /\ SubSeq(w, 1, Len(a)) \in Seq(S)
      /\ Len(SubSeq(w, 1, Len(a))) = IF 1 <= Len(a) THEN Len(a) - 1 + 1 ELSE 0
      /\ \A i \in 1 .. Len(a) - 1 + 1 : SubSeq(w, 1, Len(a))[i] = w[1 + i - 1]
  BY <1>2, <1>4, <1>5, SubSeqProperties
<1>7. Len(SubSeq(w, 1, Len(a))) = Len(a) BY <1>2, <1>6
<1>8. ASSUME NEW i \in 1 .. Len(a) PROVE SubSeq(w, 1, Len(a))[i] = a[i]
  <2>1. i \in 1 .. Len(a) - 1 + 1 /\ 1 + i - 1 = i BY <1>2
  <2> QED BY <1>4, <1>6, <2>1
<1>9. SubSeq(w, 1, Len(a)) = a BY <1>6, <1>7, <1>8, SeqEqual
<1> QED BY <1>3, <1>9 DEF w

(* Text.                                                                   *)
LEMMA TextType ==
  ASSUME NEW s \in Seq(Chars)
  PROVE  /\ TextOf(s) \in Seq(Chars)
         /\ s # <<>> => TextOf(s) = (IF IsText(Head(s)) THEN <<Head(s)>> ELSE <<>>) \o TextOf(Tail(s))
<1> DEFINE Piece(c) == IF IsText(c) THEN <<c>> ELSE <<>>
           p == [k \in DOMAIN s |-> Piece(s[k])]
<1>1. \A c \in Chars : Piece(c) \in Seq(Chars) OBVIOUS
<1>2. DOMAIN s = 1 .. Len(s) /\ Len(s) \in Nat /\ \A k \in 1 .. Len(s) : s[k] \in Chars OBVIOUS
<1>3. p \in Seq(Seq(Chars)) /\ Len(p) = Len(s) /\ \A k \in 1 .. Len(s) : p[k] = Piece(s[k])
  <2> HIDE DEF Piece
  <2>1. \A k \in 1 .. Len(s) : Piece(s[k]) \in Seq(Chars) BY <1>1, <1>2
  <2> QED BY <1>2, <2>1
<1>4. TextOf(s) = FlattenSeq(p) BY DEF TextOf
<1>5. CASE s = <<>>
  <2>1. p = <<>> BY <1>3, <1>5
  <2>2. FlattenSeq(p) = <<>> BY <2>1 DEF FlattenSeq
  <2> QED BY <1>4, <1>5, <2>2
<1>6. CASE s # <<>>
  <2>1. p # <<>> /\ 1 \in 1 .. Len(s) BY <1>2, <1>3, <1>6
  <2>2. FlattenSeq(p) \in Seq(Chars) /\ FlattenSeq(p) = p[1] \o FlattenSeq(Tail(p))
    <3> HIDE DEF p
    <3> QED BY <1>3, <2>1, FlattenHead
  <2>3. p[1] = Piece(Head(s))
    <3>1. p[1] = Piece(s[1]) BY <1>3, <2>1
    <3>2. s[1] = Head(s) OBVIOUS
    <3> QED BY <3>1, <3>2
  <2>4. TextOf(Tail(s)) = FlattenSeq(Tail(p))
    <3> DEFINE t == Tail(s)
               q == [k \in DOMAIN t |-> Piece(t[k])]
    <3>1. t \in Seq(Chars) /\ Len(t) = Len(s) - 1 /\ \A i \in 1 .. Len(t) : t[i] = s[i + 1]
      BY <1>6, HeadTailProperties
    <3>2. Tail(p) \in Seq(Seq(Chars)) /\ Len(Tail(p)) = Len(p) - 1 /\ \A i \in 1 .. Len(Tail(p)) : Tail(p)[i] = p[i + 1]
      <4> HIDE DEF p
      <4> QED BY <1>3, <2>1, HeadTailProperties
    <3>3. TextOf(t) = FlattenSeq(q) BY DEF TextOf
    <3> HIDE DEF t, p, Piece
    <3>4. DOMAIN t = 1 .. Len(t) /\ Len(t) \in Nat /\ \A k \in 1 .. Len(t) : t[k] \in Chars BY <3>1
    <3>5. q \in Seq(Seq(Chars)) /\ Len(q) = Len(t) /\ \A k \in 1 .. Len(t) : q[k] = Piece(t[k])
      <4>1. \A k \in 1 .. Len(t) : Piece(t[k]) \in Seq(Chars) BY <1>1, <3>4
      <4> QED BY <3>4, <4>1
    <3> HIDE DEF q
    <3>6. Len(q) = Len(Tail(p)) BY <1>3, <3>1, <3>2, <3>5
    <3>7. ASSUME NEW i \in 1 .. Len(q) PROVE q[i] = Tail(p)[i]
      <4>1. i + 1 \in 1 .. Len(s) /\ i \in 1 .. Len(t) BY <1>2, <3>1, <3>5
      <4>2. q[i] = Piece(s[i + 1])
        <5>1. q[i] = Piece(t[i]) BY <3>5, <4>1
        <5>2. t[i] = s[i + 1] BY <3>1, <4>1
        <5> QED BY <5>1, <5>2
      <4>3. Tail(p)[i] = p[i + 1] BY <3>2, <3>6
      <4>4. p[i + 1] = Piece(s[i + 1])
        <5> DEFINE j == i + 1
        <5>1. j \in 1 .. Len(s) BY <4>1
        <5> HIDE DEF j
        <5>2. p[j] = Piece(s[j]) BY <1>3, <5>1
        <5> QED BY <5>2 DEF j
      <4> QED BY <4>2, <4>3, <4>4
    <3>8. q = Tail(p) BY <3>2, <3>5, <3>6, <3>7, SeqEqual
    <3> QED BY <3>3, <3>8 DEF t
  <2>5. TextOf(s) = Piece(Head(s)) \o TextOf(Tail(s)) BY <1>4, <2>2, <2>3, <2>4, Zenon
  <2>6. TextOf(s) \in Seq(Chars) BY <1>4, <2>2
  <2> QED BY <2>5, <2>6
<1> QED BY <1>5, <1>6

(* Text without a flow control character comes through whole.              *)
LEMMA TextWhole ==
  ASSUME NEW s \in Seq(Printed)
  PROVE  TextOf(s) = s
<1> DEFINE p == [k \in DOMAIN s |-> IF IsText(s[k]) THEN <<s[k]>> ELSE <<>>]
           N == Len(s)
           t == FlattenSeq(p)
<1>1. N \in Nat /\ DOMAIN s = 1 .. N /\ \A k \in 1 .. N : s[k] \in Printed OBVIOUS
<1>2. \A c \in Printed : IsText(c) BY DEF Printed, IsText, XON, XOFF, CR, LF
<1>3. p = [k \in 1 .. N |-> <<s[k]>>]
  <2>1. \A k \in 1 .. N : IsText(s[k]) BY <1>1, <1>2
  <2> QED BY <1>1, <2>1, Zenon
<1>4. TextOf(s) = t BY DEF TextOf
<1> HIDE DEF p, N
<1>5. p \in [1 .. N -> Seq(Printed)] /\ \A k \in 1 .. N : p[k] = <<s[k]>> /\ Len(p[k]) = 1 /\ p[k][1] = s[k]
  BY <1>1, <1>3
<1>6. t \in Seq(Printed) /\ Len(t) = N * 1 /\ Spaced(t, p, N, 1)
  <2>1. SameLength(p, N, 1) BY <1>5 DEF SameLength
  <2>2. 1 \in Nat OBVIOUS
  <2> QED BY ONLY <1>1, <1>5, <2>1, <2>2, FlattenEqual
<1> HIDE DEF t
<1>7. Len(t) = N BY <1>1, <1>6
<1>8. ASSUME NEW k \in 1 .. N PROVE t[k] = s[k]
  <2>1. t[(k - 1) * 1 + 1] = p[k][1] BY <1>6 DEF Spaced
  <2>2. (k - 1) * 1 + 1 = k BY <1>1
  <2> QED BY <1>5, <2>1, <2>2
<1>9. t = s
  <2>1. s \in Seq(Printed) /\ Len(s) = Len(t) BY <1>7 DEF N
  <2>2. \A k \in 1 .. Len(t) : t[k] = s[k] BY <1>7, <1>8
  <2> QED BY <1>6, <2>1, <2>2, SeqEqual
<1> QED BY <1>4, <1>9

(* So does the text of a block, whatever its data.                         *)
LEMMA BlockWhole ==
  ASSUME NEW src \in Seq(Bytes), NEW following \in Seq(Bytes), Len(following) >= 2
  PROVE  TextOf(isp_uu_encode(src, following)) = isp_uu_encode(src, following)
<1>1. isp_uu_encode(src, following) \in Seq(Printed)
  <2>1. CASE src = <<>>
    <3>1. isp_uu_encode(src, following) = <<>> BY <2>1, EncodeNothing
    <3> QED BY <3>1
  <2>2. CASE src # <<>>
    <3>1. Laid(isp_uu_encode(src, following), src, following) BY <2>2, EncodeLayout
    <3> QED BY <3>1, Zenon DEF Laid
  <2> QED BY <2>1, <2>2
<1> QED BY <1>1, TextWhole

NoEnd(s) == \A k \in 1 .. Len(s) : s[k] \notin {CR, LF}

(* Where the first line ends.                                              *)
LEMMA LineEnds ==
  ASSUME NEW g \in Seq(Chars), NEW e \in {CR, LF}, NEW r \in Seq(Chars), NoEnd(g)
  PROVE  LET w == (g \o <<e>>) \o r
         IN  FirstEnd(w) = Len(g) + 1 /\ w[Len(g) + 1] = e
<1> DEFINE h == <<e>>
           u == g \o h
           w == u \o r
           m == Len(g) + 1
<1>1. h \in Seq(Chars) /\ Len(h) = 1 /\ h[1] = e /\ Len(g) \in Nat BY DEF Chars, CR, LF
<1> HIDE DEF h
<1>2. /\ u \in Seq(Chars) /\ Len(u) = Len(g) + Len(h)
      /\ \A i \in 1 .. Len(g) + Len(h) : u[i] = IF i <= Len(g) THEN g[i] ELSE h[i - Len(g)]
  BY ONLY <1>1, g \in Seq(Chars), ConcatProperties
<1> HIDE DEF u
<1>3. /\ w \in Seq(Chars) /\ Len(w) = Len(u) + Len(r)
      /\ \A i \in 1 .. Len(u) + Len(r) : w[i] = IF i <= Len(u) THEN u[i] ELSE r[i - Len(u)]
  <2>1. u \in Seq(Chars) BY <1>2
  <2> QED BY ONLY <2>1, r \in Seq(Chars), ConcatProperties
<1> HIDE DEF w
<1>4. Len(r) \in Nat OBVIOUS
<1>5. \A i \in 1 .. Len(g) : w[i] = g[i]
  <2> SUFFICES ASSUME NEW i \in 1 .. Len(g) PROVE w[i] = g[i] OBVIOUS
  <2>1. i <= Len(u) /\ i \in 1 .. Len(u) + Len(r) /\ i \in 1 .. Len(g) + Len(h) BY <1>1, <1>2, <1>3, <1>4
  <2>2. w[i] = u[i] BY <1>3, <2>1
  <2>3. u[i] = g[i] BY <1>2, <2>1
  <2> QED BY <2>2, <2>3
<1>6. w[m] = e BY <1>1, <1>2, <1>3, <1>4
<1>7. m \in 1 .. Len(w) BY <1>1, <1>2, <1>3, <1>4
<1>8. \A k \in 1 .. m - 1 : w[k] \notin {CR, LF} BY <1>1, <1>5 DEF NoEnd
<1>9. ASSUME NEW n \in 1 .. Len(w), w[n] \in {CR, LF}, \A k \in 1 .. n - 1 : w[k] \notin {CR, LF}
      PROVE  n = m
  <2>1. ~(n < m) BY <1>1, <1>8, <1>9
  <2>2. ~(n > m) BY <1>1, <1>6, <1>9
  <2> QED BY <1>1, <2>1, <2>2
<1> HIDE DEF m
<1>10. FirstEnd(w) = m BY <1>6, <1>7, <1>8, <1>9 DEF FirstEnd
<1> QED BY <1>6, <1>10 DEF m, w, u, h

(***************************************************************************)
(* The inductive invariant.                                                *)
(***************************************************************************)

(* Between calls a character is given back by isp_serial_empty_buffer      *)
(* only; every poll of the call under way is counted.                      *)
AtPlace ==
  /\ pc = "read" => last = "read"
  /\ pc \in {"empty", "empty_lf"} => last = "empty"
  /\ pc = "write" => last = "write"
  /\ last # "empty" \/ pc # "idle" => next_read_char = 0
  /\ pc # "idle" => waited = loops

(* What isp_serial_empty_buffer has taken so far is a beginning of what    *)
(* there was, without an end of line before the carriage return it is at.  *)
Skipping ==
  /\ pc = "empty" /\ up =>
       \E g \in Seq(Chars) : /\ ahead = g \o Ahead /\ NoEnd(g)
                             /\ buf = IF g = <<>> THEN <<>> ELSE <<g[Len(g)]>>
  /\ pc = "empty_lf" /\ up =>
       \E g \in Seq(Chars) : ahead = (g \o <<CR>>) \o Ahead /\ NoEnd(g)

IInv == TypeOK /\ AtPlace /\ ReadInOrder /\ Skipping /\ SkipsOneLine /\ ShortMeansWaited

(* The text of a block.                                                    *)
LEMMA EncodedType ==
  ASSUME NEW b \in Blocks
  PROVE  isp_uu_encode(b[1], b[2]) \in Seq(Chars)
<1>1. b[1] \in Seq(Bytes) /\ b[2] \in Seq(Bytes) /\ Len(b[1]) <= MAX_DATA_BLOCK_SIZE /\ Len(b[2]) >= 2
  BY LineAssumption
<1> QED BY <1>1, TextSize

(* What can be read is text.                                               *)
LEMMA AheadType ==
  ASSUME TypeOK
  PROVE  /\ GivenBack \in Seq(Chars) /\ TextOf(coming) \in Seq(Chars)
         /\ Ahead \in Seq(Chars) /\ Ahead = GivenBack \o (arrived \o TextOf(coming))
         /\ next_read_char = 0 => Ahead = arrived \o TextOf(coming)
<1>1. GivenBack \in Seq(Chars) /\ arrived \in Seq(Chars) BY DEF TypeOK, GivenBack
<1>2. TextOf(coming) \in Seq(Chars) BY TextType DEF TypeOK
<1> DEFINE x == GivenBack
           y == TextOf(coming)
<1>3. x \in Seq(Chars) /\ y \in Seq(Chars) /\ arrived \in Seq(Chars) BY <1>1, <1>2
<1> HIDE DEF x, y
<1>4. (x \o arrived) \o y = x \o (arrived \o y) /\ x \o arrived \in Seq(Chars)
  BY ONLY <1>3, Regroup
<1>5. (x \o arrived) \o y \in Seq(Chars) BY ONLY <1>3, <1>4, ConcatProperties
<1>6. arrived \o y \in Seq(Chars) BY ONLY <1>3, ConcatProperties
<1>7. <<>> \o (arrived \o y) = arrived \o y BY ONLY <1>6, ConcatEmptySeq
<1>8. Ahead = (x \o arrived) \o y BY Zenon DEF Ahead, x, y
<1>9. next_read_char = 0 => x = <<>> BY DEF x, GivenBack
<1> QED BY <1>3, <1>4, <1>5, <1>7, <1>8, <1>9, Zenon DEF x, y

(* A character that arrives is no longer coming, and nothing else changes. *)
LEMMA AheadKept ==
  ASSUME TypeOK, TypeOK', Arrive \/ Drain
  PROVE  Ahead' = Ahead
<1>1. CASE Drain BY <1>1, Zenon DEF Drain, HostWaits, Ahead, GivenBack
<1>2. CASE Arrive
  <2> DEFINE h == Head(coming)
             t == TextOf(Tail(coming))
             p == IF IsText(h) THEN <<h>> ELSE <<>>
  <2>1. coming \in Seq(Chars) /\ coming # <<>> /\ arrived \in Seq(Chars) BY <1>2 DEF TypeOK, Arrive
  <2>2. h \in Chars /\ Tail(coming) \in Seq(Chars) BY <2>1, HeadFirst
  <2>3. TextOf(coming) = p \o t /\ t \in Seq(Chars) BY <2>1, <2>2, TextType
  <2>4. arrived' = arrived \o p
    <3>1. CASE IsText(h)
      <4>1. arrived' = Append(arrived, h) BY <1>2, <3>1 DEF Arrive
      <4>2. Append(arrived, h) = arrived \o <<h>> BY <2>1, <2>2, AppendIsConcat
      <4> QED BY <3>1, <4>1, <4>2
    <3>2. CASE ~IsText(h)
      <4>1. arrived' = arrived BY <1>2, <3>2 DEF Arrive
      <4>2. arrived \o <<>> = arrived BY <2>1, ConcatEmptySeq
      <4> QED BY <3>2, <4>1, <4>2
    <3> QED BY <3>1, <3>2
  <2>5. TextOf(coming)' = t
    <3>1. coming' = Tail(coming) BY <1>2 DEF Arrive
    <3> QED BY <3>1
  <2>6. p \in Seq(Chars) BY <2>2
  <2> DEFINE x == GivenBack
  <2>7. x' = x /\ x \in Seq(Chars) BY <1>2, AheadType DEF Arrive, HostWaits, GivenBack
  <2>8. Ahead = (x \o arrived) \o (p \o t) BY <2>3 DEF Ahead
  <2>9. Ahead' = (x \o (arrived \o p)) \o t BY <2>4, <2>5, <2>7 DEF Ahead
  <2> DEFINE a == arrived
  <2>10. x \in Seq(Chars) /\ a \in Seq(Chars) /\ p \in Seq(Chars) /\ t \in Seq(Chars)
    BY <2>1, <2>3, <2>6, <2>7
  <2> HIDE DEF h, t, p, x, a
  <2>11. (x \o a) \o p = x \o (a \o p) /\ x \o a \in Seq(Chars) BY ONLY <2>10, Regroup
  <2>12. ((x \o a) \o p) \o t = (x \o a) \o (p \o t)
    <3> DEFINE b == x \o a
    <3>1. b \in Seq(Chars) BY <2>11
    <3> HIDE DEF b
    <3>2. (b \o p) \o t = b \o (p \o t) BY ONLY <2>10, <3>1, RegroupText
    <3> QED BY <3>2 DEF b
  <2> QED BY <2>8, <2>9, <2>11, <2>12, Zenon DEF a
<1> QED BY <1>1, <1>2

(* The line before the first call.                                         *)
LEMMA TypeInit == Init => IInv
<1> SUFFICES ASSUME Init PROVE IInv OBVIOUS
<1>1. coming \in Seq(Chars) BY LineAssumption, EncodedType DEF Init
<1>2. <<>> \in Seq(Chars) OBVIOUS
<1>3. TypeOK
  <2>1. room \in 0 .. Room /\ loops \in 0 .. Polls + 1 /\ waited \in 0 .. Polls + 2 BY LineAssumption DEF Init
  <2>2. {stopped, up} \subseteq BOOLEAN BY Zenon DEF Init
  <2>3. count \in 0 .. size /\ ret \in Int /\ size \in Nat /\ least \in Nat BY DEF Init
  <2>4. arrived \in Seq(Chars) /\ buf \in Seq(Chars) /\ ahead \in Seq(Chars) BY <1>2 DEF Init
  <2> QED BY <1>1, <2>1, <2>2, <2>3, <2>4 DEF Init, TypeOK
<1>4. AtPlace BY DEF Init, AtPlace
<1>5. ReadInOrder BY DEF Init, ReadInOrder
<1>6. Skipping BY DEF Init, Skipping
<1>7. SkipsOneLine BY DEF Init, SkipsOneLine, Ended
<1>8. ShortMeansWaited BY DEF Init, ShortMeansWaited, Ended
<1> QED BY <1>3, <1>4, <1>5, <1>6, <1>7, <1>8 DEF IInv

(* A piece of a sequence.                                                  *)
LEMMA PieceType ==
  ASSUME NEW S, NEW s \in Seq(S), NEW m \in Nat \ {0}, NEW n \in Nat, n <= Len(s)
  PROVE  SubSeq(s, m, n) \in Seq(S)
<1>1. \A i \in m .. n : s[i] \in S OBVIOUS
<1> QED BY <1>1, SubSeqProperties

(* Every step keeps the types, and the counts of polls in step.            *)
LEMMA TypeStep ==
  ASSUME TypeOK, AtPlace, Next
  PROVE  TypeOK' /\ AtPlace'
<1> USE DEF TypeOK
<1>1. ASSUME NEW place \in {"read", "empty", "write"}, NEW sz \in Nat, NEW n \in Nat, Enter(place, sz, n), loops' = 0,
             buf' \in Seq(Chars), next_read_char' = 0
      PROVE  TypeOK' /\ AtPlace'
  <2>1. Ahead \in Seq(Chars) BY AheadType
  <2> QED BY <1>1, <2>1, LineAssumption DEF Enter, line, AtPlace
<1>2. ASSUME NEW r \in Reads, CallRead(r[1], r[2]) PROVE TypeOK' /\ AtPlace'
  <2>1. r[1] \in Nat /\ r[2] \in Nat BY LineAssumption
  <2>2. GivenBack \in Seq(Chars) BY AheadType
  <2> QED BY <1>1, <1>2, <2>1, <2>2 DEF CallRead
<1>3. CASE CallEmptyBuffer
  <2>1. <<>> \in Seq(Chars) OBVIOUS
  <2> QED BY <1>1, <1>3, <2>1 DEF CallEmptyBuffer, ReadFirst, AtPlace
<1>4. ASSUME NEW sz \in Writes, CallWrite(sz) PROVE TypeOK' /\ AtPlace'
  <2>1. sz \in Nat BY LineAssumption
  <2> QED BY <1>1, <1>4, <2>1 DEF CallWrite, ReadFirst, AtPlace
<1>6. CASE ReadSome
  <2> DEFINE n == Min({Len(arrived), size - Len(buf)})
  <2>1. Len(arrived) \in Nat /\ Len(buf) \in Nat /\ size - Len(buf) \in Nat BY <1>6 DEF ReadSome
  <2>2. n \in Nat /\ n <= Len(arrived)
    <3>1. n = IF Len(arrived) <= size - Len(buf) THEN Len(arrived) ELSE size - Len(buf) BY ONLY <2>1, MinOfTwo
    <3> QED BY <2>1, <3>1
  <2>3. Take(n) /\ Reading BY <1>6 DEF ReadSome
  <2> HIDE DEF n
  <2>4. SubSeq(arrived, 1, n) \in Seq(Chars) /\ SubSeq(arrived, n + 1, Len(arrived)) \in Seq(Chars)
    BY <2>1, <2>2, PieceType
  <2>5. buf' \in Seq(Chars) /\ arrived' \in Seq(Chars) BY <2>3, <2>4 DEF Take
  <2>6. ret' \in Int /\ pc' \in {"idle", "read"} BY <1>6, <2>5 DEF ReadSome, Return, Reading
  <2> QED BY <1>6, <2>3, <2>5, <2>6 DEF ReadSome, Take, Reading, arguments, AtPlace
<1>7. CASE ReadNothing
  <2>1. pc = "read" /\ Len(buf) \in Int BY <1>7 DEF ReadNothing, Reading
  <2>3. /\ loops' \in 0 .. Polls + 1 /\ waited' \in 0 .. Polls + 2 /\ ret' \in Int
        /\ pc' \in {"idle", pc} /\ (pc' # "idle" => waited' = loops')
    BY <1>7, <2>1, LineAssumption DEF ReadNothing, Poll, Return, AtPlace
  <2> QED BY <1>7, <2>1, <2>3 DEF ReadNothing, Reading, arguments, line, AtPlace
<1>8. CASE ReadEnd
  BY <1>8 DEF ReadEnd, Reading, Return, arguments, line, AtPlace
<1>9. CASE SkipChar
  <2>1. Head(arrived) \in Chars /\ Tail(arrived) \in Seq(Chars) /\ <<Head(arrived)>> \in Seq(Chars)
    BY <1>9, HeadFirst DEF SkipChar, TakeOne
  <2>2. pc' \in {"idle", "empty", "empty_lf"} /\ ret' \in Int
    BY <1>9 DEF SkipChar, Return, Emptying
  <2> QED BY <1>9, <2>1, <2>2 DEF SkipChar, TakeOne, Emptying, arguments, AtPlace
<1>10. CASE SkipNothing
  <2>1. pc = "empty" BY <1>10 DEF SkipNothing, Emptying
  <2>2. /\ loops' \in 0 .. Polls + 1 /\ waited' \in 0 .. Polls + 2 /\ ret' \in Int
        /\ pc' \in {"idle", pc} /\ (pc' # "idle" => waited' = loops')
    BY <1>10, <2>1, LineAssumption DEF SkipNothing, Poll, Return, AtPlace
  <2>3. next_read_char' \in Chars \cup {0} /\ (pc' # "idle" => next_read_char' = 0)
    <3>1. buf # <<>> => buf[1] \in Chars BY HeadFirst
    <3> QED BY <1>10, <3>1 DEF SkipNothing
  <2> QED BY <1>10, <2>1, <2>2, <2>3 DEF SkipNothing, Emptying, arguments, line, AtPlace
<1>11. CASE SkipLineFeed
  <2>1. CR \in Chars BY DEF CR, Chars
  <2>2. pc = "empty_lf" /\ pc' = "idle" /\ ret' = 0 BY <1>11 DEF SkipLineFeed, Emptying, Return
  <2>3. CASE TakeOne /\ buf' = <<Head(arrived)>> /\ next_read_char' = IF Head(arrived) = LF THEN next_read_char ELSE Head(arrived)
    <3>1. Head(arrived) \in Chars /\ Tail(arrived) \in Seq(Chars) /\ <<Head(arrived)>> \in Seq(Chars)
      BY <2>3, HeadFirst DEF TakeOne
    <3> QED BY <1>11, <2>2, <2>3, <3>1 DEF SkipLineFeed, TakeOne, Emptying, arguments, AtPlace
  <2>4. CASE next_read_char' = CR /\ UNCHANGED <<line, buf>>
    BY <1>11, <2>1, <2>2, <2>4 DEF SkipLineFeed, Emptying, arguments, line, AtPlace
  <2> QED BY <1>11, <2>3, <2>4 DEF SkipLineFeed
<1>12. CASE SkipEnd
  BY <1>12 DEF SkipEnd, Emptying, Return, arguments, line, AtPlace
<1>13. CASE WriteSome
  <2> DEFINE n == Min({room, size - count})
  <2>1. room \in Int /\ size - count \in Nat /\ room >= 0 /\ room <= Room BY <1>13, LineAssumption DEF WriteSome
  <2>2. n \in Nat /\ n <= room /\ n <= size - count
    <3>1. n = IF room <= size - count THEN room ELSE size - count BY ONLY <2>1, MinOfTwo
    <3> QED BY <2>1, <3>1
  <2>3. count' = count + n /\ room' = room - n BY <1>13 DEF WriteSome
  <2> HIDE DEF n
  <2>4. count' \in 0 .. size /\ room' \in 0 .. Room BY <2>1, <2>2, <2>3, LineAssumption
  <2>5. pc' \in {"idle", "write"} /\ ret' \in Int /\ pc = "write"
    BY <1>13, <2>4 DEF WriteSome, Writing, Return
  <2> QED BY <1>13, <2>4, <2>5 DEF WriteSome, Writing, arguments, AtPlace
<1>14. CASE WriteNothing
  <2>1. pc = "write" /\ count \in Int BY <1>14 DEF WriteNothing, Writing
  <2>2. /\ loops' \in 0 .. Polls + 1 /\ waited' \in 0 .. Polls + 2 /\ ret' \in Int
        /\ pc' \in {"idle", pc} /\ (pc' # "idle" => waited' = loops')
    BY <1>14, <2>1, LineAssumption DEF WriteNothing, Poll, Return, AtPlace
  <2> QED BY <1>14, <2>1, <2>2 DEF WriteNothing, Writing, arguments, line, AtPlace
<1>15. CASE WriteEnd
  BY <1>15 DEF WriteEnd, Writing, Return, arguments, line, AtPlace
<1>16. CASE Arrive
  <2>1. Head(coming) \in Chars /\ Tail(coming) \in Seq(Chars)
    BY <1>16, HeadFirst DEF Arrive
  <2>2. Append(arrived, Head(coming)) \in Seq(Chars) BY <2>1, AppendProperties
  <2>3. coming' \in Seq(Chars) /\ arrived' \in Seq(Chars) /\ stopped' \in BOOLEAN
    BY <1>16, <2>1, <2>2 DEF Arrive
  <2> QED BY <1>16, <2>3 DEF Arrive, HostWaits, arguments, history, AtPlace
<1>17. CASE Drain
  BY <1>17, LineAssumption DEF Drain, HostWaits, arguments, history, AtPlace
<1>18. CASE Unplug
  <2>1. <<>> \in Seq(Chars) OBVIOUS
  <2> QED BY <1>18, <2>1 DEF Unplug, HostWaits, arguments, history, AtPlace
<1> QED BY <1>2, <1>3, <1>4, <1>6, <1>7, <1>8, <1>9, <1>10, <1>11, <1>12, <1>13, <1>14, <1>15, <1>16, <1>17, <1>18
  DEF Next, Call, Within

(***************************************************************************)
(* ReadInOrder.                                                            *)
(***************************************************************************)
LEMMA OrderStep ==
  ASSUME TypeOK, TypeOK', AtPlace, ReadInOrder, Next
  PROVE  ReadInOrder'
<1> USE DEF ReadInOrder, Ended
<1>1. ASSUME NEW r \in Reads, CallRead(r[1], r[2]) PROVE ReadInOrder'
  <2>1. buf' = GivenBack /\ Ahead' = <<>> \o (arrived \o TextOf(coming)) /\ ahead' = Ahead
    <3>1. GivenBack' = <<>> BY <1>1 DEF CallRead, GivenBack
    <3>2. arrived' = arrived /\ coming' = coming BY <1>1 DEF CallRead, Enter, line
    <3>3. (GivenBack \o arrived)' = <<>> \o arrived BY <3>1, <3>2
    <3>4. <<>> \o arrived = arrived BY ConcatEmptySeq DEF TypeOK
    <3>5. Ahead' = arrived \o TextOf(coming) BY <3>2, <3>3, <3>4 DEF Ahead
    <3> DEFINE y == arrived \o TextOf(coming)
    <3>6. y \in Seq(Chars) BY AheadType, ConcatProperties DEF TypeOK
    <3> HIDE DEF y
    <3>7. <<>> \o y = y BY ONLY <3>6, ConcatEmptySeq
    <3>8. buf' = GivenBack /\ ahead' = Ahead BY <1>1 DEF CallRead, Enter
    <3> QED BY <3>5, <3>7, <3>8 DEF y
  <2>2. buf' \o Ahead' = ahead'
    <3> DEFINE y == arrived \o TextOf(coming)
    <3>1. y \in Seq(Chars) BY AheadType, ConcatProperties DEF TypeOK
    <3>2. Ahead = GivenBack \o y BY AheadType
    <3> HIDE DEF y
    <3>3. <<>> \o y = y BY ONLY <3>1, ConcatEmptySeq
    <3> QED BY <2>1, <3>2, <3>3 DEF y
  <2>3. pc' = "read" BY <1>1 DEF CallRead, Enter
  <2> QED BY <2>2, <2>3
<1>2. CASE CallEmptyBuffer BY <1>2 DEF CallEmptyBuffer, Enter
<1>3. ASSUME NEW sz \in Writes, CallWrite(sz) PROVE ReadInOrder' BY <1>3 DEF CallWrite, Enter
<1>4. CASE ReadSome
  <2> DEFINE n == Min({Len(arrived), size - Len(buf)})
             y == TextOf(coming)
             u == SubSeq(arrived, 1, n)
             v == SubSeq(arrived, n + 1, Len(arrived))
  <2>1. Len(arrived) \in Nat /\ Len(buf) \in Nat /\ size - Len(buf) \in Nat
    <3>0. arrived \in Seq(Chars) /\ buf \in Seq(Chars) /\ size \in Nat BY DEF TypeOK
    <3>1. Len(arrived) \in Nat /\ Len(buf) \in Nat BY ONLY <3>0, LenProperties
    <3>2. Len(buf) < size BY <1>4 DEF ReadSome
    <3> QED BY <3>0, <3>1, <3>2
  <2>2. n \in Nat /\ n <= Len(arrived)
    <3>1. n = IF Len(arrived) <= size - Len(buf) THEN Len(arrived) ELSE size - Len(buf) BY ONLY <2>1, MinOfTwo
    <3> QED BY <2>1, <3>1
  <2>3. Take(n) /\ Reading /\ next_read_char = 0 /\ next_read_char' = 0 /\ up' = up /\ up
    BY <1>4 DEF ReadSome, Reading, AtPlace, Take
  <2>4. arrived' = v /\ buf' = buf \o u /\ coming' = coming /\ ahead' = ahead BY <2>3 DEF Take, Reading
  <2>5. u \in Seq(Chars) /\ v \in Seq(Chars) /\ buf \in Seq(Chars) /\ y \in Seq(Chars)
    <3> HIDE DEF n
    <3>1. n + 1 \in Nat \ {0} /\ Len(arrived) \in Nat /\ 1 \in Nat \ {0} /\ arrived \in Seq(Chars) BY <2>1, <2>2 DEF TypeOK
    <3>2. u \in Seq(Chars) /\ v \in Seq(Chars) BY <2>2, <3>1, PieceType
    <3> QED BY <3>2, AheadType DEF TypeOK
  <2>6. arrived = u \o v
    <3>1. arrived \in Seq(Chars) /\ 1 \in 1 .. Len(arrived) + 1 /\ n \in 1 - 1 .. Len(arrived) /\ Len(arrived) \in n .. Len(arrived)
      BY <2>1, <2>2 DEF TypeOK
    <3> HIDE DEF n
    <3>2. u \o v = SubSeq(arrived, 1, Len(arrived)) BY ONLY <3>1, ConcatAdjacentSubSeq DEF u, v
    <3>3. SubSeq(arrived, 1, Len(arrived)) = arrived BY ONLY <3>1, SubSeqFull
    <3> QED BY <3>2, <3>3
  <2>7. Ahead = arrived \o y BY <2>3, AheadType
  <2>8. Ahead' = v \o y
    <3>1. GivenBack' = <<>> BY <2>3 DEF GivenBack
    <3>2. <<>> \o v = v BY <2>5, ConcatEmptySeq
    <3>3. Ahead' = (<<>> \o v) \o y BY <2>4, <3>1 DEF Ahead
    <3> QED BY <3>2, <3>3
  <2>9. buf \o Ahead = ahead /\ pc = "read" BY <2>3 DEF AtPlace, Reading
  <2> HIDE DEF n, y, u, v
  <2>10. (buf \o u) \o (v \o y) = buf \o ((u \o v) \o y)
    <3>1. (u \o v) \o y = u \o (v \o y) BY ONLY <2>5, Regroup
    <3> DEFINE w == v \o y
    <3>2. w \in Seq(Chars) BY ONLY <2>5, ConcatProperties
    <3> HIDE DEF w
    <3>3. (buf \o u) \o w = buf \o (u \o w) BY ONLY <2>5, <3>2, RegroupText
    <3> QED BY <3>1, <3>3 DEF w
  <2>11. buf' \o Ahead' = ahead' BY <2>4, <2>6, <2>7, <2>8, <2>9, <2>10, Zenon
  <2>12. pc' = "idle" => ret' = Len(buf') BY <1>4, <2>9 DEF ReadSome, Return
  <2> QED BY <2>11, <2>12
<1>5. CASE ReadNothing
  <2>1. pc = "read" /\ last = "read" BY <1>5 DEF ReadNothing, Reading, AtPlace
  <2>2. Ahead' = Ahead /\ buf' = buf /\ up' = up /\ ahead' = ahead
    BY <1>5 DEF ReadNothing, Reading, Ahead, GivenBack, line
  <2>3. pc' = "idle" => ret' = Len(buf') BY <1>5, <2>1, <2>2 DEF ReadNothing, Poll, Return
  <2> QED BY <2>1, <2>2, <2>3
<1>6. CASE ReadEnd
  <2>1. pc = "read" /\ last = "read" BY <1>6 DEF ReadEnd, Reading, AtPlace
  <2>2. Ahead' = Ahead /\ buf' = buf /\ up' = up /\ ahead' = ahead
    BY <1>6 DEF ReadEnd, Reading, Ahead, GivenBack, line
  <2>3. ret' \in {-1, 0} BY <1>6 DEF ReadEnd, Return
  <2> QED BY <2>1, <2>2, <2>3
<1>7. CASE SkipChar BY <1>7 DEF SkipChar, Emptying, AtPlace
<1>8. CASE SkipNothing BY <1>8 DEF SkipNothing, Emptying, AtPlace
<1>9. CASE SkipLineFeed BY <1>9 DEF SkipLineFeed, Emptying, AtPlace
<1>10. CASE SkipEnd BY <1>10 DEF SkipEnd, Emptying, AtPlace
<1>11. CASE WriteSome BY <1>11 DEF WriteSome, Writing, AtPlace
<1>12. CASE WriteNothing BY <1>12 DEF WriteNothing, Writing, AtPlace
<1>13. CASE WriteEnd BY <1>13 DEF WriteEnd, Writing, AtPlace
<1>14. CASE Arrive \/ Drain
  <2>1. Ahead' = Ahead BY <1>14, AheadKept
  <2> QED BY <1>14, <2>1 DEF Arrive, Drain, HostWaits, history
<1>15. CASE Unplug BY <1>15 DEF Unplug
<1> QED BY <1>1, <1>2, <1>3, <1>4, <1>5, <1>6, <1>7, <1>8, <1>9, <1>10, <1>11, <1>12, <1>13, <1>14, <1>15
  DEF Next, Call, Within

(***************************************************************************)
(* ShortMeansWaited.                                                       *)
(***************************************************************************)
LEMMA WaitStep ==
  ASSUME TypeOK, TypeOK', AtPlace, ShortMeansWaited, Next
  PROVE  ShortMeansWaited'
<1> USE DEF ShortMeansWaited, Ended
<1>1. CASE Call
  <2>1. pc' # "idle" BY <1>1 DEF Call, CallRead, CallEmptyBuffer, CallWrite, Enter
  <2> QED BY <2>1
<1>2. CASE ReadSome
  <2>1. pc' = "idle" => ret' >= least BY <1>2 DEF ReadSome, Return, Reading
  <2>2. ret' \in Int /\ least \in Int BY DEF TypeOK
  <2> QED BY <1>2, <2>1, <2>2 DEF ReadSome, Reading, arguments, AtPlace
<1>3. CASE ReadNothing
  <2>1. pc' = "idle" => ret' >= least \/ waited' > Polls
    BY <1>3, LineAssumption DEF ReadNothing, Poll, Return, Reading, AtPlace, TypeOK
  <2>2. ret' \in Int /\ least \in Int BY DEF TypeOK
  <2> QED BY <1>3, <2>1, <2>2 DEF ReadNothing, Reading, arguments, AtPlace
<1>4. CASE ReadEnd
  BY <1>4 DEF ReadEnd, Reading, arguments, line, AtPlace
<1>5. CASE SkipChar BY <1>5 DEF SkipChar, Emptying, AtPlace
<1>6. CASE SkipNothing BY <1>6 DEF SkipNothing, Emptying, AtPlace
<1>7. CASE SkipLineFeed BY <1>7 DEF SkipLineFeed, Emptying, AtPlace
<1>8. CASE SkipEnd BY <1>8 DEF SkipEnd, Emptying, AtPlace
<1>9. CASE WriteSome
  <2>1. pc' = "idle" => ret' >= size BY <1>9 DEF WriteSome, Return, Writing
  <2> QED BY <1>9, <2>1 DEF WriteSome, Writing, arguments, AtPlace, TypeOK
<1>10. CASE WriteNothing
  <2>1. pc' = "idle" => waited' > Polls
    BY <1>10, LineAssumption DEF WriteNothing, Poll, Return, Writing, AtPlace, TypeOK
  <2> QED BY <1>10, <2>1 DEF WriteNothing, Writing, AtPlace
<1>11. CASE WriteEnd BY <1>11 DEF WriteEnd, Writing, line
<1>12. CASE Arrive \/ Drain BY <1>12 DEF Arrive, Drain, HostWaits, arguments, history
<1>13. CASE Unplug BY <1>13 DEF Unplug
<1> QED BY <1>1, <1>2, <1>3, <1>4, <1>5, <1>6, <1>7, <1>8, <1>9, <1>10, <1>11, <1>12, <1>13 DEF Next, Within

(***************************************************************************)
(* SkipsOneLine.                                                           *)
(***************************************************************************)

(* What isp_serial_empty_buffer may leave of what there was, after so many *)
(* polls: what SkipsOneLine says.                                          *)
OneLineGone(all, rest, polls) ==
  LET gone == SubSeq(all, 1, Len(all) - Len(rest))
      n == FirstEnd(all)
  IN  /\ all = gone \o rest
      /\ IF polls <= Polls + 1
         THEN \/ Len(gone) = n
              \/ all[n] = CR /\ Len(gone) = n - 1
              \/ all[n] = CR /\ Len(gone) = n + 1 /\ all[n + 1] = LF
         ELSE Range(gone) \cap {CR, LF} = {} /\ (rest = <<>> => all = <<>>)

(* SkipsOneLine, of what could be read and what still can be.              *)
LEMMA SkipsOneLineIs == SkipsOneLine <=> (Ended("empty") /\ up => OneLineGone(ahead, Ahead, waited))
BY Zenon DEF SkipsOneLine, OneLineGone

(* A sequence and one more element.                                        *)
LEMMA OneMore ==
  ASSUME NEW g \in Seq(Chars), NEW c \in Chars
  PROVE  /\ g \o <<c>> \in Seq(Chars) /\ <<c>> \in Seq(Chars)
         /\ Len(g \o <<c>>) = Len(g) + 1 /\ Len(g) \in Nat
         /\ g \o <<c>> # <<>> /\ (g \o <<c>>)[Len(g) + 1] = c
         /\ NoEnd(g \o <<c>>) <=> NoEnd(g) /\ c \notin {CR, LF}
<1> DEFINE h == <<c>>
           w == g \o h
<1>1. h \in Seq(Chars) /\ Len(h) = 1 /\ h[1] = c /\ Len(g) \in Nat OBVIOUS
<1>2. /\ w \in Seq(Chars) /\ Len(w) = Len(g) + Len(h)
      /\ \A i \in 1 .. Len(g) + Len(h) : w[i] = IF i <= Len(g) THEN g[i] ELSE h[i - Len(g)]
  <2>1. h \in Seq(Chars) /\ g \in Seq(Chars) BY <1>1
  <2> HIDE DEF h
  <2> QED BY ONLY <2>1, ConcatProperties
<1> HIDE DEF w, h
<1>3. Len(w) = Len(g) + 1 /\ w[Len(g) + 1] = c /\ \A i \in 1 .. Len(g) : w[i] = g[i] BY <1>1, <1>2
<1>4. w # <<>> BY <1>1, <1>3
<1>5. NoEnd(w) <=> NoEnd(g) /\ c \notin {CR, LF}
  <2>1. \A i \in 1 .. Len(w) : i \in 1 .. Len(g) \/ i = Len(g) + 1 BY <1>1, <1>3
  <2>2. \A i \in 1 .. Len(g) : i \in 1 .. Len(w) BY <1>1, <1>3
  <2>3. Len(g) + 1 \in 1 .. Len(w) BY <1>1, <1>3
  <2> QED BY <1>3, <2>1, <2>2, <2>3, Zenon DEF NoEnd
<1> QED BY <1>1, <1>2, <1>3, <1>4, <1>5 DEF w, h

(* A line without its line feed is gone.                                   *)
LEMMA GoneLine ==
  ASSUME NEW g \in Seq(Chars), NoEnd(g), NEW e \in {CR, LF}, NEW r \in Seq(Chars), NEW w \in Int, w <= Polls + 1
  PROVE  OneLineGone((g \o <<e>>) \o r, r, w)
<1> DEFINE u == g \o <<e>>
<1>1. u \in Seq(Chars) /\ Len(u) = Len(g) + 1 BY OneMore DEF Chars, CR, LF
<1>2. FirstEnd(u \o r) = Len(g) + 1 BY LineEnds
<1> HIDE DEF u
<1>3. SubSeq(u \o r, 1, Len(u \o r) - Len(r)) = u BY <1>1, CutOff
<1> QED BY <1>1, <1>2, <1>3 DEF OneLineGone, u

(* A line is gone up to the carriage return, which was given back.         *)
LEMMA GoneBeforeEnd ==
  ASSUME NEW g \in Seq(Chars), NoEnd(g), NEW r \in Seq(Chars), NEW w \in Int, w <= Polls + 1
  PROVE  OneLineGone(g \o (<<CR>> \o r), <<CR>> \o r, w)
<1> DEFINE h == <<CR>>
           s == h \o r
<1>1. h \in Seq(Chars) /\ CR \in {CR, LF} BY DEF Chars, CR
<1>2. LET v == (g \o <<CR>>) \o r IN FirstEnd(v) = Len(g) + 1 /\ v[Len(g) + 1] = CR
  BY <1>1, LineEnds
<1> HIDE DEF h
<1>3. (g \o h) \o r = g \o s /\ s \in Seq(Chars)
  <2>1. g \in Seq(Chars) /\ r \in Seq(Chars) /\ h \in Seq(Chars) BY <1>1
  <2>2. (g \o h) \o r = g \o (h \o r) BY ONLY <2>1, Regroup
  <2>3. h \o r \in Seq(Chars) BY ONLY <2>1, ConcatProperties
  <2> QED BY <2>2, <2>3
<1>4. FirstEnd(g \o s) = Len(g) + 1 /\ (g \o s)[Len(g) + 1] = CR
  <2>1. FirstEnd((g \o h) \o r) = Len(g) + 1 /\ ((g \o h) \o r)[Len(g) + 1] = CR BY <1>2 DEF h
  <2> HIDE DEF s
  <2> QED BY <1>3, <2>1
<1> HIDE DEF s
<1>5. SubSeq(g \o s, 1, Len(g \o s) - Len(s)) = g /\ Len(g) \in Nat BY <1>3, CutOff
<1>6. Len(g) = FirstEnd(g \o s) - 1 /\ (g \o s)[FirstEnd(g \o s)] = CR
  <2> DEFINE m == FirstEnd(g \o s)
  <2>1. m = Len(g) + 1 BY <1>4
  <2>2. (g \o s)[m] = CR BY <1>4, <2>1, Zenon
  <2> HIDE DEF m
  <2>3. Len(g) = m - 1 BY ONLY <1>5, <2>1
  <2> QED BY <2>2, <2>3 DEF m
<1>7. OneLineGone(g \o s, s, w) BY <1>5, <1>6, Zenon DEF OneLineGone
<1> QED BY <1>7 DEF s, h

(* A line is gone with both characters of its end.                         *)
LEMMA GoneBothEnds ==
  ASSUME NEW g \in Seq(Chars), NoEnd(g), NEW r \in Seq(Chars), NEW w \in Int, w <= Polls + 1
  PROVE  OneLineGone((g \o <<CR>>) \o (<<LF>> \o r), r, w)
<1> DEFINE h == <<CR>>
           k == <<LF>>
           s == k \o r
           u == g \o h
           v == u \o k
<1>1. h \in Seq(Chars) /\ k \in Seq(Chars) /\ CR \in {CR, LF} /\ LF \in Chars /\ CR \in Chars BY DEF Chars, CR, LF
<1>2. s \in Seq(Chars)
  <2>1. k \in Seq(Chars) /\ r \in Seq(Chars) BY <1>1
  <2> HIDE DEF k
  <2> QED BY ONLY <2>1, ConcatProperties
<1>3. FirstEnd(u \o s) = Len(g) + 1 /\ (u \o s)[Len(g) + 1] = CR
  <2> HIDE DEF s
  <2> QED BY <1>1, <1>2, LineEnds
<1>4. u \in Seq(Chars) /\ Len(u) = Len(g) + 1 /\ Len(g) \in Nat BY <1>1, OneMore
<1>5. v \in Seq(Chars) /\ Len(v) = Len(u) + 1 /\ v[Len(u) + 1] = LF
  <2> HIDE DEF u
  <2> QED BY <1>1, <1>4, OneMore
<1> HIDE DEF u, k
<1>6. u \o s = v \o r
  <2>1. u \in Seq(Chars) /\ k \in Seq(Chars) /\ r \in Seq(Chars) BY <1>1, <1>4
  <2> QED BY ONLY <2>1, Regroup DEF s, v
<1> HIDE DEF s, v
<1>7. SubSeq(v \o r, 1, Len(v \o r) - Len(r)) = v BY <1>5, CutOff
<1>8. (v \o r)[Len(v)] = v[Len(v)]
  <2>1. \A i \in 1 .. Len(v) + Len(r) : (v \o r)[i] = IF i <= Len(v) THEN v[i] ELSE r[i - Len(v)]
    <3>1. v \in Seq(Chars) /\ r \in Seq(Chars) BY <1>5
    <3> QED BY ONLY <3>1, ConcatProperties
  <2>2. Len(v) \in 1 .. Len(v) + Len(r) BY <1>4, <1>5
  <2> QED BY <1>4, <1>5, <2>1, <2>2
<1>9. Len(v) = Len(g) + 1 + 1 /\ (v \o r)[Len(g) + 1 + 1] = LF BY <1>4, <1>5, <1>8
<1>10. OneLineGone(v \o r, r, w) BY <1>3, <1>6, <1>7, <1>9, Zenon DEF OneLineGone
<1>11. OneLineGone(u \o s, r, w) BY <1>6, <1>10
<1> QED BY <1>11 DEF s, u, h, k

(* The end of the line did not come in time.                               *)
LEMMA GoneInVain ==
  ASSUME NEW g \in Seq(Chars), NoEnd(g), NEW r \in Seq(Chars), NEW w \in Int, w > Polls + 1, r = <<>> => g = <<>>
  PROVE  OneLineGone(g \o r, r, w)
<1>1. SubSeq(g \o r, 1, Len(g \o r) - Len(r)) = g BY CutOff
<1>2. Range(g) \cap {CR, LF} = {} BY RangeEquality DEF NoEnd
<1>3. r = <<>> => g \o r = <<>> OBVIOUS
<1>4. ~(w <= Polls + 1) BY LineAssumption
<1> QED BY <1>1, <1>2, <1>3, <1>4, Zenon DEF OneLineGone

(* The next character, and what is left when it is taken.                  *)
LEMMA TakeOneLeaves ==
  ASSUME TypeOK, next_read_char = 0, TakeOne
  PROVE  LET c == Head(arrived)
             r == Tail(arrived) \o TextOf(coming)
         IN  /\ c \in Chars /\ r \in Seq(Chars) /\ Ahead = <<c>> \o r
             /\ next_read_char' = 0 => Ahead' = r
             /\ next_read_char' = c => Ahead' = <<c>> \o r
<1> DEFINE c == Head(arrived)
           h == <<c>>
           t == Tail(arrived)
           y == TextOf(coming)
<1>1. arrived \in Seq(Chars) /\ arrived # <<>> BY DEF TypeOK, TakeOne
<1>2. c \in Chars /\ t \in Seq(Chars) /\ h \in Seq(Chars) /\ arrived = h \o t BY <1>1, HeadFirst
<1>3. y \in Seq(Chars) /\ Ahead = arrived \o y BY AheadType
<1>4. arrived' = t /\ coming' = coming BY DEF TakeOne
<1>5. y' = y BY <1>4
<1> HIDE DEF h, t, y
<1>6. /\ (h \o t) \o y = h \o (t \o y) /\ h \o t \in Seq(Chars)
      /\ t \o y \in Seq(Chars) /\ <<>> \o t = t
  <2>1. (h \o t) \o y = h \o (t \o y) /\ h \o t \in Seq(Chars) BY ONLY <1>2, <1>3, Regroup
  <2>2. t \o y \in Seq(Chars) BY ONLY <1>2, <1>3, ConcatProperties
  <2>3. <<>> \o t = t BY ONLY <1>2, ConcatEmptySeq
  <2> QED BY <2>1, <2>2, <2>3
<1>7. Ahead = h \o (t \o y) BY <1>2, <1>3, <1>6
<1>8. ASSUME next_read_char' = 0 PROVE Ahead' = t \o y
  <2>1. GivenBack' = <<>> BY <1>8 DEF GivenBack
  <2>2. Ahead' = (<<>> \o t) \o y BY <1>4, <1>5, <2>1 DEF Ahead, y
  <2> QED BY <1>6, <2>2
<1>9. ASSUME next_read_char' = c PROVE Ahead' = h \o (t \o y)
  <2>0. c # 0
    <3>1. c \in Chars BY <1>2
    <3> HIDE DEF c
    <3> QED BY ONLY <3>1 DEF Chars
  <2>1. GivenBack' = h BY <1>9, <2>0, Zenon DEF GivenBack, h
  <2>2. Ahead' = (h \o t) \o y BY <1>4, <1>5, <2>1 DEF Ahead, y
  <2> QED BY <1>6, <2>2
<1> QED BY <1>2, <1>6, <1>7, <1>8, <1>9 DEF h, t, y

(* Every step keeps what isp_serial_empty_buffer throws away to one line.  *)
LEMMA SkipStep ==
  ASSUME TypeOK, TypeOK', AtPlace, Skipping, SkipsOneLine, Next
  PROVE  Skipping' /\ SkipsOneLine'
<1>1. CASE CallEmptyBuffer
  <2>1. pc' = "empty" /\ buf' = <<>> /\ ahead' = Ahead /\ line' = line /\ next_read_char' = next_read_char
    BY <1>1 DEF CallEmptyBuffer, Enter
  <2>2. Ahead' = Ahead BY <2>1 DEF Ahead, GivenBack, line
  <2>3. <<>> \in Seq(Chars) /\ NoEnd(<<>>) /\ <<>> \o Ahead = Ahead BY AheadType, ConcatEmptySeq DEF NoEnd
  <2>4. Skipping' BY <2>1, <2>2, <2>3, Zenon DEF Skipping
  <2> QED BY <2>1, <2>4 DEF SkipsOneLine, Ended
<1>2. ASSUME NEW r \in Reads, CallRead(r[1], r[2]) PROVE Skipping' /\ SkipsOneLine'
  BY <1>2 DEF CallRead, Enter, Skipping, SkipsOneLine, Ended
<1>3. ASSUME NEW sz \in Writes, CallWrite(sz) PROVE Skipping' /\ SkipsOneLine'
  BY <1>3 DEF CallWrite, Enter, Skipping, SkipsOneLine, Ended
<1>4. CASE pc \in {"read", "write"} /\ pc' \in {"idle", pc} /\ last' = last
  BY <1>4 DEF Skipping, SkipsOneLine, Ended, AtPlace
<1>5. CASE ReadSome \/ ReadNothing \/ ReadEnd \/ WriteSome \/ WriteNothing \/ WriteEnd
  <2>1. pc \in {"read", "write"} /\ last' = last
    BY <1>5 DEF ReadSome, ReadNothing, ReadEnd, WriteSome, WriteNothing, WriteEnd, Reading, Writing
  <2>2. pc' \in {"idle", pc}
    BY <1>5 DEF ReadSome, ReadNothing, ReadEnd, WriteSome, WriteNothing, WriteEnd, Reading, Writing, Poll, Return
  <2> QED BY <1>4, <2>1, <2>2
<1>6. CASE SkipChar
  <2> DEFINE c == Head(arrived)
             r == Tail(arrived) \o TextOf(coming)
  <2>1. /\ pc = "empty" /\ up /\ last = "empty" /\ next_read_char = 0 /\ waited = loops
        /\ last' = last /\ ahead' = ahead /\ buf' = <<c>> /\ next_read_char' = 0 /\ waited' = waited /\ TakeOne
    BY <1>6 DEF SkipChar, Emptying, AtPlace
  <2>2. c \in Chars /\ r \in Seq(Chars) /\ Ahead = <<c>> \o r /\ Ahead' = r BY <2>1, TakeOneLeaves
  <2>3. PICK g \in Seq(Chars) : ahead = g \o Ahead /\ NoEnd(g) BY <2>1 DEF Skipping
  <2>4. waited \in Int /\ waited <= Polls + 1 BY <2>1, LineAssumption DEF TypeOK
  <2>5. CASE c = LF \/ c = CR \/ c \notin {LF, CR}
    <3> HIDE DEF c, r
    <3>1. ahead = (g \o <<c>>) \o r
      <4> DEFINE h == <<c>>
      <4>1. h \in Seq(Chars) BY <2>2
      <4> HIDE DEF h
      <4>2. (g \o h) \o r = g \o (h \o r) BY ONLY <2>2, <4>1, g \in Seq(Chars), Regroup
      <4> QED BY <2>2, <2>3, <4>2 DEF h
    <3>2. CASE c = LF
      <4>1. pc' = "idle" BY <1>6, <3>2 DEF SkipChar, Return, c, CR, LF
      <4>2. c \in {CR, LF} BY <3>2
      <4>3. OneLineGone((g \o <<c>>) \o r, r, waited) BY <2>2, <2>3, <2>4, <4>2, GoneLine
      <4>4. OneLineGone(ahead', Ahead', waited') BY <2>1, <2>2, <3>1, <4>3
      <4> QED BY <4>1, <4>4, SkipsOneLineIs, Zenon DEF Skipping, SkipsOneLine, OneLineGone
    <3>3. CASE c = CR
      <4>1. pc' = "empty_lf" BY <1>6, <3>3 DEF SkipChar, c, CR, LF
      <4>2. ahead' = (g \o <<CR>>) \o Ahead' BY <2>1, <2>2, <3>1, <3>3
      <4> QED BY <2>3, <4>1, <4>2 DEF Skipping, SkipsOneLine, Ended
    <3>4. CASE c \notin {LF, CR}
      <4>1. pc' = "empty" BY <1>6, <2>1, <3>4 DEF SkipChar, c
      <4> DEFINE u == g \o <<c>>
      <4>2. u \in Seq(Chars) /\ u # <<>> /\ u[Len(u)] = c /\ NoEnd(u) BY <2>2, <2>3, <3>4, OneMore
      <4>3. ahead' = u \o Ahead' /\ buf' = <<c>> BY <2>1, <2>2, <3>1
      <4> HIDE DEF u
      <4>4. Skipping' BY <4>1, <4>2, <4>3, Zenon DEF Skipping
      <4> QED BY <4>1, <4>4 DEF SkipsOneLine, Ended
    <3> QED BY <2>5, <3>2, <3>3, <3>4
  <2> QED BY <2>5
<1>7. CASE SkipNothing
  <2>1. /\ pc = "empty" /\ up /\ last = "empty" /\ next_read_char = 0 /\ waited = loops
        /\ last' = last /\ ahead' = ahead /\ buf' = buf /\ line' = line /\ Poll(FALSE, 0)
    BY <1>7, Zenon DEF SkipNothing, Emptying, AtPlace
  <2>2. PICK g \in Seq(Chars) : ahead = g \o Ahead /\ NoEnd(g) /\ buf = IF g = <<>> THEN <<>> ELSE <<g[Len(g)]>>
    BY <2>1 DEF Skipping
  <2>3. CASE pc' # "idle"
    <3>1. pc' = "empty" BY <2>1, <2>3 DEF Poll, Return
    <3>2. next_read_char' = 0 BY <1>7, <2>3 DEF SkipNothing
    <3>3. Ahead' = Ahead BY <2>1, <3>2 DEF Ahead, GivenBack, line
    <3>4. Skipping' BY <2>1, <2>2, <3>1, <3>3, Zenon DEF Skipping
    <3> QED BY <3>1, <3>4 DEF SkipsOneLine, Ended
  <2>4. CASE pc' = "idle"
    <3>1. waited' \in Int /\ waited' > Polls + 1
      <4>1. loops > Polls /\ waited' = waited + 1 BY <2>1, <2>4 DEF Poll, Return
      <4> QED BY <2>1, <4>1, LineAssumption DEF TypeOK
    <3>2. next_read_char' = IF buf = <<>> THEN 0 ELSE buf[1] BY <1>7, <2>4 DEF SkipNothing
    <3>3. OneLineGone(ahead', Ahead', waited')
      <4>1. CASE g = <<>>
        <5>1. next_read_char' = 0 BY <2>2, <3>2, <4>1
        <5>2. Ahead' = Ahead BY <2>1, <5>1 DEF Ahead, GivenBack, line
        <5>3. OneLineGone(g \o Ahead, Ahead, waited') BY <2>2, <3>1, <4>1, AheadType, GoneInVain
        <5> QED BY <2>1, <2>2, <5>2, <5>3
      <4>2. CASE g # <<>>
        <5> DEFINE e == g[Len(g)]
                   k == <<e>>
                   h == SubSeq(g, 1, Len(g) - 1)
                   r == Ahead
        <5>1. Len(g) \in Nat \ {0} /\ e \in Chars /\ k \in Seq(Chars) BY <4>2
        <5>2. h \in Seq(Chars)
          <6>1. 1 \in Nat \ {0} /\ Len(g) - 1 \in Nat /\ Len(g) - 1 <= Len(g) BY <5>1
          <6> QED BY <6>1, PieceType
        <5>3. g = h \o k
          <6>1. 1 \in 1 .. Len(g) /\ Len(g) \in 1 .. Len(g) BY <5>1
          <6>2. SubSeq(g, 1, Len(g)) = SubSeq(g, 1, Len(g) - 1) \o <<g[Len(g)]>>
            BY ONLY g \in Seq(Chars), <6>1, SubSeqRecursiveSecond
          <6>3. SubSeq(g, 1, Len(g)) = g BY SubSeqFull
          <6> QED BY <6>2, <6>3
        <5>4. next_read_char' = e BY <2>2, <3>2, <4>2
        <5>5. r \in Seq(Chars) BY AheadType
        <5> HIDE DEF e, h
        <5>6. NoEnd(h)
          <6>1. NoEnd(h \o <<e>>) BY <2>2, <5>3
          <6> QED BY <5>1, <5>2, <6>1, OneMore
        <5>7. Ahead' = k \o r
          <6>1. GivenBack' = k BY <5>1, <5>4 DEF GivenBack, Chars
          <6>2. Ahead' = (k \o arrived) \o TextOf(coming) BY <2>1, <6>1 DEF Ahead, line
          <6>3. r = arrived \o TextOf(coming) BY <2>1, AheadType
          <6> DEFINE y == TextOf(coming)
          <6>4. arrived \in Seq(Chars) /\ y \in Seq(Chars) BY AheadType DEF TypeOK
          <6> HIDE DEF y, k, r
          <6>5. (k \o arrived) \o y = k \o (arrived \o y) BY ONLY <5>1, <6>4, Regroup
          <6> QED BY <6>2, <6>3, <6>5 DEF y
        <5> HIDE DEF k, r
        <5>8. ahead = h \o (k \o r)
          <6>1. (h \o k) \o r = h \o (k \o r) BY ONLY <5>1, <5>2, <5>5, Regroup
          <6> QED BY <2>2, <5>3, <6>1 DEF r
        <5>9. k \o r \in Seq(Chars) /\ k \o r # <<>>
          <6>1. k \o r \in Seq(Chars) /\ Len(k \o r) = Len(k) + Len(r) BY ONLY <5>1, <5>5, ConcatProperties
          <6>2. Len(k) = 1 /\ Len(r) \in Nat BY <5>5 DEF k
          <6>3. Len(k \o r) # 0 BY <6>1, <6>2
          <6> QED BY <6>1, <6>3
        <5> DEFINE s == k \o r
        <5>10. s \in Seq(Chars) /\ s # <<>> BY <5>9
        <5> HIDE DEF s
        <5>11. OneLineGone(h \o s, s, waited') BY <3>1, <5>2, <5>6, <5>10, GoneInVain
        <5> QED BY <2>1, <5>7, <5>8, <5>11 DEF s
      <4> QED BY <4>1, <4>2
    <3> QED BY <2>4, <3>3, Zenon DEF Skipping, SkipsOneLine, OneLineGone
  <2> QED BY <2>3, <2>4
<1>8. CASE SkipLineFeed
  <2>1. /\ pc = "empty_lf" /\ last = "empty" /\ next_read_char = 0 /\ waited = loops
        /\ last' = last /\ ahead' = ahead /\ waited' = waited /\ pc' = "idle"
    BY <1>8 DEF SkipLineFeed, Emptying, Return, AtPlace
  <2>2. waited \in Int /\ waited <= Polls + 1 BY <2>1, LineAssumption DEF TypeOK
  <2>3. SUFFICES ASSUME up, up' PROVE OneLineGone(ahead', Ahead', waited')
    <3>1. up' => up BY <1>8 DEF SkipLineFeed, TakeOne, line
    <3> QED BY <2>1, <3>1, Zenon DEF Skipping, SkipsOneLine, OneLineGone
  <2>4. PICK g \in Seq(Chars) : ahead = (g \o <<CR>>) \o Ahead /\ NoEnd(g) BY <2>1, <2>3 DEF Skipping
  <2>5. CASE /\ TakeOne
             /\ next_read_char' = IF Head(arrived) = LF THEN next_read_char ELSE Head(arrived)
    <3> DEFINE c == Head(arrived)
               r == Tail(arrived) \o TextOf(coming)
    <3>1. /\ c \in Chars /\ r \in Seq(Chars) /\ Ahead = <<c>> \o r
          /\ next_read_char' = 0 => Ahead' = r
          /\ next_read_char' = c => Ahead' = <<c>> \o r
      BY <2>1, <2>5, TakeOneLeaves
    <3> HIDE DEF r
    <3>2. CASE c = LF
      <4>1. Ahead' = r /\ Ahead = <<LF>> \o r BY <2>1, <2>5, <3>1, <3>2
      <4>2. OneLineGone((g \o <<CR>>) \o (<<LF>> \o r), r, waited) BY <2>2, <2>4, <3>1, GoneBothEnds
      <4> QED BY <2>1, <2>4, <4>1, <4>2
    <3>3. CASE c # LF
      <4>1. Ahead' = Ahead BY <2>1, <2>5, <3>1, <3>3
      <4>2. OneLineGone((g \o <<CR>>) \o Ahead, Ahead, waited) BY <2>2, <2>4, AheadType, GoneLine
      <4> QED BY <2>1, <2>4, <4>1, <4>2
    <3> QED BY <3>2, <3>3
  <2>6. CASE next_read_char' = CR /\ UNCHANGED <<line, buf>>
    <3> DEFINE r == Ahead
               k == <<CR>>
               y == TextOf(coming)
    <3>1. GivenBack' = k BY <2>6 DEF GivenBack, CR
    <3>2. Ahead' = (k \o arrived) \o y BY <2>6, <3>1 DEF Ahead, line
    <3>3. r = arrived \o y /\ r \in Seq(Chars) /\ y \in Seq(Chars) /\ arrived \in Seq(Chars) BY <2>1, AheadType DEF TypeOK
    <3>4. k \in Seq(Chars) BY DEF CR, Chars
    <3> HIDE DEF r, k, y
    <3>5. (k \o arrived) \o y = k \o (arrived \o y) BY ONLY <3>3, <3>4, Regroup
    <3>6. (g \o k) \o r = g \o (k \o r)
      <4>1. g \in Seq(Chars) /\ r \in Seq(Chars) BY <3>3
      <4> QED BY ONLY <4>1, <3>4, Regroup
    <3>7. OneLineGone(g \o (<<CR>> \o r), <<CR>> \o r, waited) BY <2>2, <2>4, <3>3, GoneBeforeEnd
    <3>8. ahead = g \o (k \o r) BY <2>4, <3>6 DEF k, r
    <3> QED BY <2>1, <3>2, <3>3, <3>5, <3>7, <3>8 DEF k
  <2> QED BY <1>8, <2>5, <2>6 DEF SkipLineFeed
<1>9. CASE SkipEnd
  <2>1. up' = FALSE /\ pc' = "idle" BY <1>9 DEF SkipEnd, Return, line, TypeOK
  <2> QED BY <2>1 DEF Skipping, SkipsOneLine
<1>10. CASE Arrive \/ Drain
  <2>1. Ahead' = Ahead BY <1>10, AheadKept
  <2>2. up' = up /\ pc' = pc /\ buf' = buf /\ ahead' = ahead /\ last' = last /\ waited' = waited
    BY <1>10 DEF Arrive, Drain, HostWaits, history
  <2>3. Skipping' BY <2>1, <2>2, Zenon DEF Skipping
  <2>4. SkipsOneLine' BY <2>1, <2>2, Zenon DEF SkipsOneLine, Ended
  <2> QED BY <2>3, <2>4
<1>11. CASE Unplug BY <1>11 DEF Unplug, Skipping, SkipsOneLine
<1> QED BY <1>1, <1>2, <1>3, <1>5, <1>6, <1>7, <1>8, <1>9, <1>10, <1>11 DEF Next, Call, Within

(***************************************************************************)
(* The theorems.                                                           *)
(***************************************************************************)

(* Every step keeps the invariant.                                         *)
LEMMA StepInv == IInv /\ [Next]_vars => IInv'
<1> SUFFICES ASSUME IInv, [Next]_vars PROVE IInv' OBVIOUS
<1>0. TypeOK /\ AtPlace /\ ReadInOrder /\ Skipping /\ SkipsOneLine /\ ShortMeansWaited BY DEF IInv
<1>1. CASE Next
  <2>1. TypeOK' /\ AtPlace' BY <1>0, <1>1, TypeStep
  <2>2. ReadInOrder' BY <1>0, <1>1, <2>1, OrderStep
  <2>3. Skipping' /\ SkipsOneLine' BY <1>0, <1>1, <2>1, SkipStep
  <2>4. ShortMeansWaited' BY <1>0, <1>1, <2>1, WaitStep
  <2> QED BY <2>1, <2>2, <2>3, <2>4 DEF IInv
<1>2. CASE UNCHANGED vars
  <2>1. /\ coming' = coming /\ arrived' = arrived /\ room' = room /\ stopped' = stopped /\ up' = up
        /\ pc' = pc /\ size' = size /\ least' = least /\ buf' = buf /\ count' = count
        /\ next_read_char' = next_read_char /\ loops' = loops /\ last' = last /\ ret' = ret
        /\ ahead' = ahead /\ waited' = waited
    BY <1>2 DEF vars, line, arguments, history
  <2>2. Ahead' = Ahead BY <2>1, Zenon DEF Ahead, GivenBack
  <2>3. TypeOK' BY <1>0, <2>1, Zenon DEF TypeOK
  <2>4. AtPlace' BY <1>0, <2>1, Zenon DEF AtPlace
  <2>5. ReadInOrder' BY <1>0, <2>1, <2>2, Zenon DEF ReadInOrder, Ended
  <2>6. Skipping' BY <1>0, <2>1, <2>2, Zenon DEF Skipping
  <2>7. SkipsOneLine' BY <1>0, <2>1, <2>2, Zenon DEF SkipsOneLine, Ended
  <2>8. ShortMeansWaited' BY <1>0, <2>1, Zenon DEF ShortMeansWaited, Ended
  <2> QED BY <2>3, <2>4, <2>5, <2>6, <2>7, <2>8 DEF IInv
<1> QED BY <1>1, <1>2

(* What was read of a block is its text.                                   *)
LEMMA BlockRead ==
  ASSUME TypeOK, ReadInOrder
  PROVE  BlockDecodes
<1> SUFFICES ASSUME Ended("read"), up, NEW b \in Blocks,
                    least = get_remaining_blocksize(Len(b[1])), ahead = TextOf(isp_uu_encode(b[1], b[2]))
             PROVE  /\ least = Len(TextOf(isp_uu_encode(b[1], b[2])))
                    /\ ret >= least => isp_uu_decode(SubSeq(buf, 1, least)) = b[1]
  BY Zenon DEF BlockDecodes
<1> DEFINE src == b[1]
           following == b[2]
           text == isp_uu_encode(src, following)
           rest == Ahead
<1>1. src \in Seq(Bytes) /\ following \in Seq(Bytes) /\ Len(src) <= MAX_DATA_BLOCK_SIZE /\ Len(following) >= 2
  BY LineAssumption
<1>2. ahead = TextOf(text) /\ least = get_remaining_blocksize(Len(src)) OBVIOUS
<1> HIDE DEF src, following
<1>3. text \in Seq(Chars) /\ Len(text) = get_remaining_blocksize(Len(src)) BY <1>1, TextSize
<1>4. isp_uu_decode(text) = src /\ TextOf(text) = text BY <1>1, DecodeEncode, BlockWhole
<1>5. least = Len(text) BY <1>2, <1>3, Zenon
<1>6. ASSUME ret >= least PROVE isp_uu_decode(SubSeq(buf, 1, least)) = src
  <2>1. buf \o rest = text /\ (ret > 0 => ret = Len(buf)) BY <1>2, <1>4, Zenon DEF ReadInOrder, Ended
  <2>2. buf \in Seq(Chars) /\ rest \in Seq(Chars) /\ ret \in Int BY AheadType DEF TypeOK
  <2> HIDE DEF text, rest
  <2>3. /\ Len(buf) \in Nat /\ Len(rest) \in Nat /\ Len(text) = Len(buf) + Len(rest)
        /\ \A i \in 1 .. Len(buf) + Len(rest) : text[i] = IF i <= Len(buf) THEN buf[i] ELSE rest[i - Len(buf)]
    BY <2>1, <2>2, ConcatProperties
  <2>4. Len(buf) = Len(text)
    <3>1. CASE ret > 0 BY <1>5, <1>6, <2>1, <2>2, <2>3, <3>1
    <3>2. CASE ~(ret > 0) BY <1>5, <1>6, <2>2, <2>3, <3>2
    <3> QED BY <3>1, <3>2
  <2>5. buf = text
    <3>1. \A i \in 1 .. Len(buf) : buf[i] = text[i] BY <2>3
    <3> QED BY <1>3, <2>2, <2>4, <3>1, SeqEqual
  <2>6. SubSeq(buf, 1, least) = text BY <1>5, <2>2, <2>4, <2>5, SubSeqFull
  <2> QED BY <1>4, <2>6, Zenon
<1> QED BY <1>4, <1>5, <1>6, Zenon DEF text, src, following

(* The variables keep their types and no call polls more often than its    *)
(* bound says.                                                             *)
THEOREM Types == Spec => []TypeOK
<1>1. IInv => TypeOK BY DEF IInv
<1> QED BY TypeInit, StepInv, <1>1, PTL DEF Spec

(* What a read hands over is the text that was next, each character once   *)
(* and in its order, however late and in whatever pieces it came.          *)
THEOREM InOrder == Spec => []ReadInOrder
<1>1. IInv => ReadInOrder BY DEF IInv
<1> QED BY TypeInit, StepInv, <1>1, PTL DEF Spec

(* isp_serial_empty_buffer throws away one line, and nothing of the next.  *)
THEOREM OneLine == Spec => []SkipsOneLine
<1>1. IInv => SkipsOneLine BY DEF IInv
<1> QED BY TypeInit, StepInv, <1>1, PTL DEF Spec

(* A call returns short of what it was asked for only after it waited as   *)
(* long as its bound says.                                                 *)
THEOREM Short == Spec => []ShortMeansWaited
<1>1. IInv => ShortMeansWaited BY DEF IInv
<1> QED BY TypeInit, StepInv, <1>1, PTL DEF Spec

(* The size waited for is the one of the text of the block that comes, of  *)
(* which the driver keeps nothing, and a block read in full decodes to the *)
(* data it was made of, whatever followed them in memory.                  *)
THEOREM Decodes == Spec => []BlockDecodes
<1>1. IInv => BlockDecodes BY BlockRead DEF IInv
<1> QED BY TypeInit, StepInv, <1>1, PTL DEF Spec
=============================================================================
