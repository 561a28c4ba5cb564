----------------------------- MODULE FlashImage -----------------------------
(***************************************************************************)
(* What "flash" and "blank" promise about the flash, whatever happens to   *)
(* the line, the target or the program: sectors are only erased, and no    *)
(* page is programmed before all are blank; pages are then programmed      *)
(* once, in order, with their part of the image; and success is only       *)
(* reported with the whole image in place.                                 *)
(***************************************************************************)
EXTENDS LpcParts

VARIABLES
  part,   \* the part programmed
  mem,    \* content of each page of its flash
  job,    \* "idle": nobody works on the flash; "done": success was reported
  image   \* the file to program and calc_user_code; NoFile: only erase

vars == <<part, mem, job, image>>

Images == [file: Files \cup {NoFile}, patch: BOOLEAN]

Nothing == [file |-> NoFile, patch |-> TRUE]

Wanted(b) == ImagePage(image.file, image.patch, b)
Size == IF image.file = NoFile THEN 0 ELSE Blocks(image.file, part)

AllBlank == \A b \in Pages(part) : mem[b] = Blank
Complete == \A b \in Pages(part) : mem[b] = IF b < Size THEN Wanted(b) ELSE Blank

Init ==
  /\ part \in Devices
  /\ mem \in [Pages(part) -> {Blank, Old}]
  /\ job = "idle"
  /\ image = Nothing

Begin ==
  /\ job = "idle"
  /\ job' = "erasing"
  /\ image' \in Images
  /\ UNCHANGED <<part, mem>>

EraseSector(s) ==
  /\ job = "erasing"
  /\ mem' = [b \in Pages(part) |-> IF SectorOf(part, b) = s THEN Blank ELSE mem[b]]
  /\ UNCHANGED <<part, job, image>>

StartWriting ==
  /\ job = "erasing" /\ image.file # NoFile /\ AllBlank
  /\ job' = "writing"
  /\ UNCHANGED <<part, mem, image>>

(* The first blank page is the next one.                                   *)
WritePage(b) ==
  /\ job = "writing" /\ b < Size
  /\ mem[b] = Blank /\ \A a \in Pages(part) : a < b => mem[a] = Wanted(a)
  /\ mem' = [mem EXCEPT ![b] = Wanted(b)]
  /\ UNCHANGED <<part, job, image>>

Report ==
  /\ \/ job = "writing"
     \/ job = "erasing" /\ image.file = NoFile
  /\ Complete
  /\ job' = "done"
  /\ UNCHANGED <<part, mem, image>>

(* Failure, or the user looking away from a finished job.                  *)
Stop ==
  /\ job # "idle"
  /\ job' = "idle"
  /\ image' = Nothing
  /\ UNCHANGED <<part, mem>>

(* The target loses power in the middle of a sector or a page.  Nothing    *)
(* but erasing it again makes the job succeed after that.                  *)
Spoil(spoiled) ==
  /\ job \in {"erasing", "writing"}
  /\ mem' = [b \in Pages(part) |-> IF b \in spoiled THEN Garbage ELSE mem[b]]
  /\ UNCHANGED <<part, job, image>>

Next ==
  \/ Begin \/ StartWriting \/ Report \/ Stop
  \/ \E s \in Sectors(part) : EraseSector(s) \/ Spoil({b \in Pages(part) : SectorOf(part, b) = s})
  \/ \E b \in Pages(part) : WritePage(b) \/ Spoil({b})

Spec == Init /\ [][Next]_vars
=============================================================================
