--------------------------- MODULE PartsFileProofs ---------------------------
(***************************************************************************)
(* The search in the parts file, for every file and every id.              *)
(***************************************************************************)
EXTENDS PartsFile, SequenceTheorems, TLAPS

(* The lines passed over, and the one that is read.                        *)
Typed ==
  /\ parts_file \in Seq(Line) /\ dev_id \in Nat
  /\ pc \in {"open", "scan", "name", "values", "done"}
  /\ line \in 0 .. Len(parts_file)
  /\ part_values \in Seq(Int) /\ Len(part_values) <= nval
  /\ pc = "open" => line = 0
  /\ pc \in {"name", "values"} => line > 0

Passed ==
  /\ pc = "scan" => \A n \in 1 .. line : ~Describes(parts_file[n])
  /\ pc \in {"name", "values"} =>
       Describes(parts_file[line]) /\ \A n \in 1 .. line - 1 : ~Describes(parts_file[n])

(* The values read are those of the line, as far as it has them.           *)
Read ==
  pc \in {"name", "values"} =>
    LET v == parts_file[line].values
    IN  \A k \in 1 .. Len(part_values) : k <= Len(v) => part_values[k] = v[k]

Named == pc = "values" => parts_file[line].name = "ok"

Started == pc \in {"open", "scan", "name"} => part_values = <<>>

IInv == Typed /\ Passed /\ Read /\ Named /\ Started /\ FindsThePart

LinesOf == {n \in DOMAIN parts_file : ~parts_file[n].comment /\ parts_file[n].id = dev_id}

(* The first line that describes the part.                                 *)
LEMMA FirstLine ==
  ASSUME Typed, Passed, pc \in {"name", "values"}
  PROVE  LinesOf # {} /\ line \in LinesOf /\ Min(LinesOf) = line
<1>1. line \in 1 .. Len(parts_file) /\ DOMAIN parts_file = 1 .. Len(parts_file) /\ Len(parts_file) \in Nat BY DEF Typed
<1>2. line \in LinesOf BY <1>1 DEF LinesOf, Passed, Describes
<1>3. ASSUME NEW n \in LinesOf PROVE line <= n
  <2>1. n \in 1 .. Len(parts_file) /\ Describes(parts_file[n]) BY <1>1 DEF LinesOf, Describes
  <2>2. n \notin 1 .. line - 1 BY <2>1 DEF Passed
  <2> QED BY <1>1, <2>1, <2>2
<1>4. LinesOf \subseteq Int BY <1>1 DEF LinesOf
<1> DEFINE m == Min(LinesOf)
<1>5. m \in LinesOf /\ \A n \in LinesOf : m <= n BY <1>2, <1>3 DEF Min
<1> HIDE DEF m
<1>6. m <= line /\ line <= m /\ m \in Int /\ line \in Int BY <1>1, <1>2, <1>3, <1>4, <1>5
<1> QED BY <1>2, <1>6 DEF m

(* What is returned, as FindsThePart has it.                               *)
Finds(p) ==
  LET l == parts_file[Min(LinesOf)]
      full == \A n \in LinesOf : Len(parts_file[n].values) >= nval /\ parts_file[n].name = "ok"
  IN  /\ LinesOf = {} \/ l.name # "ok" <=> p = NULL
      /\ p # NULL => /\ p.part_id = dev_id
                     /\ Len(l.values) >= nval => p = Descriptor(dev_id, l.values)
      /\ \A q \in Parts :
           q.part_id = dev_id /\ full
             /\ (\E n \in LinesOf : LinesOf = {n} /\ Descriptor(dev_id, parts_file[n].values) = q)
           => p = q

(* FindsThePart, with what is returned as a parameter.                     *)
LEMMA FindsIs == FindsThePart <=> (pc = "done" /\ line > 0 => Finds(part))
BY Zenon DEF FindsThePart, Finds, LinesOf

(* The same of the next state.                                             *)
LEMMA FindsIsNext == (pc = "done" /\ line > 0 => Finds(part))' => FindsThePart'
BY Zenon DEF FindsThePart, Finds, LinesOf

(* NULL is no description.                                                 *)
LEMMA NotNull ==
  ASSUME dev_id \in Nat, NEW v
  PROVE  Descriptor(dev_id, v) # NULL /\ Descriptor(dev_id, v).part_id = dev_id
<1>1. Descriptor(dev_id, v).part_id = dev_id BY DEF Descriptor
<1>2. NULL.part_id = -1 BY DEF NULL
<1> QED BY <1>1, <1>2

(* Nothing is returned when no line describes the part, or its name does   *)
(* not end.                                                                *)
LEMMA FindsNothing ==
  ASSUME LinesOf = {} \/ parts_file[Min(LinesOf)].name # "ok"
  PROVE  Finds(NULL)
<1> SUFFICES ASSUME NEW q \in Parts, NEW n \in LinesOf, LinesOf = {n}, parts_file[n].name = "ok"
             PROVE  FALSE
  BY DEF Finds
<1>1. Min(LinesOf) = n
  <2>1. Min({n}) = n BY DEF Min
  <2> QED BY <2>1
<1> QED BY <1>1

(* The values of the line are returned.                                    *)
LEMMA FindsValues ==
  ASSUME Typed, LinesOf # {}, parts_file[Min(LinesOf)].name = "ok", Len(part_values) = nval,
         Len(parts_file[Min(LinesOf)].values) >= nval =>
           \A k \in 1 .. nval : part_values[k] = parts_file[Min(LinesOf)].values[k]
  PROVE  Finds(Descriptor(dev_id, part_values))
<1> DEFINE l == parts_file[Min(LinesOf)]
           p == Descriptor(dev_id, part_values)
<1>1. p # NULL /\ p.part_id = dev_id BY NotNull DEF Typed
<1>2. Len(l.values) >= nval => p = Descriptor(dev_id, l.values)
  <2> SUFFICES ASSUME Len(l.values) >= nval PROVE p = Descriptor(dev_id, l.values) OBVIOUS
  <2>1. \A k \in 1 .. 9 : part_values[k] = l.values[k] BY DEF nval
  <2> DEFINE v == l.values
  <2>2. \A k \in 1 .. 9 : part_values[k] = v[k] BY <2>1
  <2> HIDE DEF v
  <2>3. part_values[2] = v[2] /\ part_values[3] = v[3] /\ part_values[6] = v[6]
        /\ part_values[7] = v[7] /\ part_values[8] = v[8] /\ part_values[9] = v[9] BY <2>2
  <2>4. p = Descriptor(dev_id, v) BY <2>3, Zenon DEF Descriptor
  <2> QED BY <2>4 DEF v
<1>3. ASSUME NEW q \in Parts, NEW n \in LinesOf, LinesOf = {n}, Len(parts_file[n].values) >= nval,
             Descriptor(dev_id, parts_file[n].values) = q
      PROVE  p = q
  <2>1. Min(LinesOf) = n
    <3>1. n \in Int BY DEF LinesOf, Typed
    <3>2. Min({n}) = n BY <3>1 DEF Min
    <3> QED BY <1>3, <3>2
  <2> QED BY <1>2, <1>3, <2>1
<1> HIDE DEF p
<1>4. Finds(p) BY <1>1, <1>2, <1>3 DEF Finds
<1> QED BY <1>4 DEF p

(* The search begins at the first line.                                    *)
LEMMA InitIInv == Init => IInv
<1> SUFFICES ASSUME Init PROVE IInv OBVIOUS
<1>1. Typed
  <2>1. parts_file \in Seq(Line) /\ dev_id \in Nat BY PartsFilesAssumption DEF Init
  <2>2. Len(parts_file) \in Nat BY <2>1
  <2>3. part_values \in Seq(Int) /\ Len(part_values) = 0 BY DEF Init
  <2> QED BY <2>1, <2>2, <2>3 DEF Init, Typed, nval
<1>2. FindsThePart BY DEF Init, FindsThePart
<1> QED BY <1>1, <1>2 DEF Init, IInv, Passed, Read, Named, Started

(* Every step keeps the invariant.                                         *)
LEMMA StepIInv == IInv /\ [Next]_vars => IInv'
<1> SUFFICES ASSUME IInv, [Next]_vars PROVE IInv' OBVIOUS
<1>0. Typed /\ Passed /\ Read /\ Named /\ Started /\ FindsThePart BY DEF IInv
<1>a. parts_file' = parts_file /\ dev_id' = dev_id BY DEF Next, Open, Scan, ScanEnd, TakeName, TakeValue, Found, Input, vars
<1>b. LinesOf' = LinesOf BY <1>a DEF LinesOf
<1>c. \A p : Finds(p)' <=> Finds(p)
  <2> TAKE p
  <2> QED BY <1>a, <1>b, Zenon DEF Finds
<1>d. Finds(part)' <=> Finds(part') BY <1>c
<1>1. CASE Open
  <2>1. line = 0 /\ line' = line /\ part_values' = part_values /\ pc' \in {"scan", "done"} BY <1>0, <1>1 DEF Open, Typed
  <2>2. Typed' BY <1>0, <1>a, <2>1, Zenon DEF Typed
  <2>3. part_values = <<>> BY <1>0, <1>1 DEF Open, Started
  <2> QED BY <2>1, <2>2, <2>3 DEF IInv, Passed, Read, Named, Started, FindsThePart
<1>2. CASE Scan
  <2>1. /\ pc = "scan" /\ line < Len(parts_file) /\ line' = line + 1 /\ part_values' = part_values
        /\ IF Describes(parts_file[line + 1]) THEN pc' = "name" ELSE pc' = pc
    BY <1>2 DEF Scan
  <2>2. line' \in 1 .. Len(parts_file) /\ line \in Nat /\ Len(parts_file) \in Nat BY <1>0, <2>1 DEF Typed
  <2>3. Typed' BY <1>0, <1>a, <2>1, <2>2 DEF Typed
  <2>4. \A l : Describes(l) <=> ~l.comment /\ l.id = dev_id BY DEF Describes
  <2> DEFINE D(n) == ~parts_file[n].comment /\ parts_file[n].id = dev_id
  <2>5. \A n \in 1 .. line : ~D(n) BY <1>0, <2>1, <2>4 DEF Passed
  <2>6. Passed'
    <3>1. ASSUME D(line + 1) PROVE Passed'
      <4>1. pc' = "name" /\ line' - 1 = line BY <2>1, <2>2, <2>4, <3>1
      <4>2. D(line') /\ \A n \in 1 .. line' - 1 : ~D(n) BY <2>1, <2>5, <3>1, <4>1
      <4> QED BY <1>a, <4>1, <4>2, Zenon DEF Passed, Describes
    <3>2. ASSUME ~D(line + 1) PROVE Passed'
      <4>1. pc' = "scan" BY <2>1, <2>4, <3>2
      <4>2. ASSUME NEW n \in 1 .. line + 1 PROVE ~D(n)
        <5>1. n \in 1 .. line \/ n = line + 1 BY <2>2
        <5> QED BY <2>5, <3>2, <5>1
      <4>3. \A n \in 1 .. line' : ~D(n) BY <2>1, <4>2
      <4> QED BY <1>a, <4>1, <4>3, Zenon DEF Passed, Describes
    <3> QED BY <3>1, <3>2
  <2>7. part_values' = <<>> BY <1>0, <2>1 DEF Started
  <2>8. pc' \in {"scan", "name"} BY <2>1
  <2>9. Read' /\ Named' /\ Started' BY <2>7, <2>8 DEF Read, Named, Started
  <2>10. FindsThePart' BY <2>8 DEF FindsThePart
  <2> QED BY <2>3, <2>6, <2>9, <2>10 DEF IInv
<1>3. CASE ScanEnd
  <2>1. pc = "scan" /\ line = Len(parts_file) /\ pc' = "done" /\ part' = NULL /\ line' = line /\ part_values' = part_values
    BY <1>3 DEF ScanEnd, Return
  <2>2. LinesOf = {}
    <3>1. DOMAIN parts_file = 1 .. Len(parts_file) BY <1>0 DEF Typed
    <3>2. \A n \in 1 .. Len(parts_file) : ~Describes(parts_file[n]) BY <1>0, <2>1 DEF Passed
    <3> QED BY <3>1, <3>2 DEF LinesOf, Describes
  <2>3. Finds(part)' BY <1>d, <2>1, <2>2, FindsNothing
  <2>4. FindsThePart' BY <2>3, FindsIsNext
  <2>5. Typed' BY <1>0, <1>a, <2>1, Zenon DEF Typed
  <2> QED BY <2>1, <2>4, <2>5 DEF IInv, Passed, Read, Named, Started
<1>4. CASE TakeName
  <2>1. pc = "name" /\ line' = line /\ part_values' = part_values BY <1>4 DEF TakeName
  <2>2. LinesOf # {} /\ Min(LinesOf) = line BY <1>0, <2>1, FirstLine
  <2>3. part_values = <<>> BY <1>0, <2>1 DEF Started
  <2>4. CASE parts_file[line].name = "ok"
    <3>1. pc' = "values" /\ part' = part BY <1>4, <2>4 DEF TakeName
    <3>2. Typed' BY <1>0, <1>a, <2>1, <3>1, Zenon DEF Typed
    <3>3. Passed' BY <1>0, <1>a, <2>1, <3>1, Zenon DEF Passed, Describes
    <3>4. Read' BY <2>1, <2>3, <3>1 DEF Read
    <3>5. Named' BY <1>a, <2>1, <2>4, <3>1 DEF Named
    <3>6. Started' /\ FindsThePart' BY <3>1 DEF Started, FindsThePart
    <3> QED BY <3>2, <3>3, <3>4, <3>5, <3>6 DEF IInv
  <2>5. CASE parts_file[line].name # "ok"
    <3>1. pc' = "done" /\ part' = NULL BY <1>4, <2>5 DEF TakeName, Return
    <3>2. Finds(part)' BY <1>d, <2>2, <2>5, <3>1, FindsNothing
    <3>3. FindsThePart' BY <3>2, FindsIsNext
    <3>4. Typed' BY <1>0, <1>a, <2>1, <3>1, Zenon DEF Typed
    <3> QED BY <3>1, <3>3, <3>4 DEF IInv, Passed, Read, Named, Started
  <2> QED BY <2>4, <2>5
<1>5. CASE TakeValue
  <2> DEFINE v == parts_file[line].values
             k == Len(part_values) + 1
  <2>1. /\ pc = "values" /\ Len(part_values) < nval /\ pc' = pc /\ line' = line /\ part' = part
        /\ \E x \in (IF k <= Len(v) THEN {v[k]} ELSE IF k = Len(v) + 1 THEN {0}
                     ELSE IF left_over THEN {0, Stray} ELSE {0}) :
             part_values' = Append(part_values, x)
    BY <1>5 DEF TakeValue
  <2>2. v \in Seq(Nat)
    <3>1. line \in 1 .. Len(parts_file) /\ parts_file \in Seq(Line) BY <1>0, <2>1 DEF Typed
    <3>2. parts_file[line] \in Line BY <3>1
    <3> QED BY <3>2 DEF Line
  <2>3. part_values \in Seq(Int) /\ Len(part_values) \in Nat BY <1>0 DEF Typed
  <2> HIDE DEF v
  <2>4. PICK x \in Int : part_values' = Append(part_values, x) /\ (k <= Len(v) => x = v[k])
    <3>1. k <= Len(v) => v[k] \in Int BY <2>2, <2>3
    <3> HIDE DEF k
    <3>2. CASE k <= Len(v) BY <2>1, <3>1, <3>2
    <3>3. CASE ~(k <= Len(v)) BY <2>1, <3>3 DEF Stray
    <3> QED BY <3>2, <3>3
  <2>5. /\ part_values' \in Seq(Int) /\ Len(part_values') = k
        /\ \A i \in 1 .. k : part_values'[i] = IF i = k THEN x ELSE part_values[i]
    BY <2>3, <2>4, AppendProperties
  <2>6. k <= nval BY <2>1, <2>3 DEF nval
  <2>7. Typed' BY <1>0, <1>a, <2>1, <2>5, <2>6 DEF Typed
  <2>8. Passed' BY <1>0, <1>a, <2>1, Zenon DEF Passed, Describes
  <2>9. Read'
    <3>1. \A i \in 1 .. Len(part_values) : i <= Len(v) => part_values[i] = v[i] BY <1>0, <2>1 DEF Read, v
    <3>2. ASSUME NEW i \in 1 .. k, i <= Len(v) PROVE part_values'[i] = v[i]
      <4>1. CASE i = k BY <2>4, <2>5, <3>2, <4>1
      <4>2. CASE i # k
        <5>1. i \in 1 .. Len(part_values) BY <2>3, <4>2
        <5> QED BY <2>5, <3>1, <3>2, <4>2, <5>1
      <4> QED BY <4>1, <4>2
    <3>3. v' = v BY <1>a, <2>1 DEF v
    <3> HIDE DEF k
    <3>4. \A i \in 1 .. Len(part_values') : i <= Len(v') => part_values'[i] = v'[i] BY <2>5, <3>2, <3>3
    <3> QED BY <3>4, Zenon DEF Read, v
  <2>10. Named' /\ Started' /\ FindsThePart' BY <1>0, <1>a, <2>1 DEF Named, Started, FindsThePart
  <2> QED BY <2>7, <2>8, <2>9, <2>10 DEF IInv
<1>6. CASE Found
  <2>1. /\ pc = "values" /\ Len(part_values) = nval /\ pc' = "done" /\ part' = Descriptor(dev_id, part_values)
        /\ line' = line /\ part_values' = part_values
    BY <1>6 DEF Found, Return
  <2>2. LinesOf # {} /\ Min(LinesOf) = line BY <1>0, <2>1, FirstLine
  <2>3. parts_file[line].name = "ok" BY <1>0, <2>1 DEF Named
  <2>4. Len(parts_file[line].values) >= nval => \A k \in 1 .. nval : part_values[k] = parts_file[line].values[k]
    <3> DEFINE v == parts_file[line].values
    <3>1. \A k \in 1 .. nval : k <= Len(v) => part_values[k] = v[k] BY <1>0, <2>1 DEF Read
    <3>2. Len(v) \in Nat
      <4>1. line \in 1 .. Len(parts_file) /\ parts_file \in Seq(Line) BY <1>0, <2>1 DEF Typed
      <4>2. parts_file[line] \in Line BY <4>1
      <4> QED BY <4>2 DEF Line
    <3> HIDE DEF v
    <3>3. Len(v) >= nval => \A k \in 1 .. nval : part_values[k] = v[k] BY <3>1, <3>2 DEF nval
    <3> QED BY <3>3 DEF v
  <2>5. Finds(part)' BY <1>0, <1>d, <2>1, <2>2, <2>3, <2>4, FindsValues
  <2>6. FindsThePart' BY <2>5, FindsIsNext
  <2>7. Typed' BY <1>0, <1>a, <2>1, Zenon DEF Typed
  <2> QED BY <2>1, <2>6, <2>7 DEF IInv, Passed, Read, Named, Started
<1>7. CASE UNCHANGED vars
  <2>1. /\ pc' = pc /\ line' = line /\ part_values' = part_values /\ part' = part BY <1>7 DEF vars
  <2>2. FindsThePart' BY <1>0, <1>a, <2>1, Zenon DEF FindsThePart
  <2>3. Typed' BY <1>0, <1>a, <2>1, Zenon DEF Typed
  <2>4. Passed' BY <1>0, <1>a, <2>1, Zenon DEF Passed, Describes
  <2>5. Read' /\ Named' /\ Started' BY <1>0, <1>a, <2>1, Zenon DEF Read, Named, Started
  <2> QED BY <2>2, <2>3, <2>4, <2>5 DEF IInv
<1> QED BY <1>1, <1>2, <1>3, <1>4, <1>5, <1>6, <1>7 DEF Next

(* The part found is that of the first line with its id, with the values   *)
(* of that line; in a file with one full line for each of Parts it is the  *)
(* member of Parts.                                                        *)
THEOREM FindsThePartCorrect == FairSpec => []FindsThePart
<1>1. IInv => FindsThePart BY DEF IInv
<1> QED BY InitIInv, StepIInv, <1>1, PTL DEF FairSpec
=============================================================================
