------------------------------ MODULE PartsFile ------------------------------
(***************************************************************************)
(* The search of a part in the parts file (parts.c), line by line in one   *)
(* buffer: what LpcProg takes for the member of Parts with the id.         *)
(***************************************************************************)
EXTENDS LpcParts, Sequences, FiniteSetsExt

CONSTANTS
  PartsFiles, \* the contents a parts file may have: sequences of lines
  Ids         \* the ids looked for

(* id: the number the line begins with, 0 if it does not; name: whether a  *)
(* comma ends it within its bounds; values: the numbers after it.  A line  *)
(* too long for the buffer is read, and stands here, as several lines.     *)
Line == [comment: BOOLEAN, id: Nat, name: {"ok", "unended", "long"}, values: Seq(Nat)]

ASSUME PartsFilesAssumption == PartsFiles \subseteq Seq(Line) /\ Ids \subseteq Nat

VARIABLES
  parts_file, dev_id,
  pc,          \* "open", "scan", "name", "values", "done"
  line,        \* number of the line in the buffer
  part_values, \* the values read so far
  left_over,   \* earlier lines left numbers at the end of the buffer
  part         \* the part returned, or NULL

vars == <<parts_file, dev_id, pc, line, part_values, left_over, part>>

NULL == [part_id |-> -1]
Stray == -1   \* a number that is not of this line
nval == 9

(* The values by their places: flash base, size, sectors, reset vector;    *)
(* RAM base, size, buffer offset, buffer size; encoding.                   *)
Descriptor(id, v) ==
  [part_id |-> id, flash_size |-> v[2], flash_nb_sectors |-> v[3], ram_size |-> v[6],
   ram_buff_offset |-> v[7], ram_buff_size |-> v[8], uuencode |-> v[9]]

Init ==
  /\ parts_file \in PartsFiles /\ dev_id \in Ids
  /\ pc = "open" /\ line = 0 /\ part_values = <<>> /\ left_over = FALSE /\ part = NULL

Return(p) == pc' = "done" /\ part' = p
Input == UNCHANGED <<parts_file, dev_id>>

Open ==
  /\ pc = "open"
  /\ pc' = "scan" \/ pc' = "done"
  /\ UNCHANGED <<line, part_values, left_over, part>> /\ Input

(* Mutant of Describes: a part that is commented out is found.             *)
DescribesCommented(l) == l.id = dev_id

Describes(l) == ~l.comment /\ l.id = dev_id

Scan ==
  /\ pc = "scan" /\ line < Len(parts_file)
  /\ line' = line + 1
  /\ LET l == parts_file[line + 1]
     IN  IF Describes(l) THEN pc' = "name" /\ UNCHANGED left_over
         ELSE /\ left_over' = (left_over \/ l.values # <<>>)
              /\ UNCHANGED pc
  /\ UNCHANGED <<part_values, part>> /\ Input

(* Mutant of ScanEnd: the end of the file is not noticed.                  *)
ScanEndAgain == pc = "scan" /\ line = Len(parts_file) /\ UNCHANGED vars

ScanEnd ==
  /\ pc = "scan" /\ line = Len(parts_file)
  /\ Return(NULL)
  /\ UNCHANGED <<line, part_values, left_over>> /\ Input

TakeName ==
  /\ pc = "name"
  /\ IF parts_file[line].name = "ok" THEN pc' = "values" /\ UNCHANGED part ELSE Return(NULL)
  /\ UNCHANGED <<line, part_values, left_over>> /\ Input

(* After the last number of the line comes its end, which strtoul makes 0  *)
(* of, with no error; the next ones are read from beyond that end.         *)
TakeValue ==
  /\ pc = "values" /\ Len(part_values) < nval
  /\ LET v == parts_file[line].values
         k == Len(part_values) + 1
     IN  \E x \in (IF k <= Len(v) THEN {v[k]} ELSE IF k = Len(v) + 1 THEN {0}
                   ELSE IF left_over THEN {0, Stray} ELSE {0}) :
           part_values' = Append(part_values, x)
  /\ UNCHANGED <<pc, line, left_over, part>> /\ Input

Found ==
  /\ pc = "values" /\ Len(part_values) = nval
  /\ Return(Descriptor(dev_id, part_values))
  /\ UNCHANGED <<line, part_values, left_over>> /\ Input

Next == Open \/ Scan \/ ScanEnd \/ TakeName \/ TakeValue \/ Found

FairSpec == Init /\ [][Next]_vars /\ WF_vars(Next)

(***************************************************************************)
(* Properties.                                                             *)
(***************************************************************************)

(* The first line with the id decides, whatever is before it: a part is    *)
(* returned with exactly the values of that line, if it has all of them,   *)
(* and none if its name does not end as it should.  So of a file with one  *)
(* full line for each of Parts, the member of Parts is found.              *)
FindsThePart ==
  pc = "done" /\ line > 0 =>
    LET lines == {n \in DOMAIN parts_file :
                    ~parts_file[n].comment /\ parts_file[n].id = dev_id}
        l == parts_file[Min(lines)]
        full == \A n \in lines : Len(parts_file[n].values) >= nval /\ parts_file[n].name = "ok"
    IN  /\ lines = {} \/ l.name # "ok" <=> part = NULL
        /\ part # NULL => /\ part.part_id = dev_id
                          /\ Len(l.values) >= nval => part = Descriptor(dev_id, l.values)
        /\ \A p \in Parts :
             p.part_id = dev_id /\ full
               /\ (\E n \in lines : lines = {n} /\ Descriptor(dev_id, parts_file[n].values) = p)
             => part = p

(* The search ends, and so does the reading of a line.                     *)
Ends == <>(pc = "done")
=============================================================================
