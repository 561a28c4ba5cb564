----------------------------- MODULE BinaryCheck -----------------------------
(***************************************************************************)
(* lpc_binary_check (check.c), with the two file helpers all the tools     *)
(* share, isp_file_to_buff and isp_buff_to_file (isp_utils.c).  It reads   *)
(* an image, computes entry 7 of its vector table, writes the image back   *)
(* to the same file and looks for a protection word.  Between two of its   *)
(* system calls it may be killed, and others may change the file.          *)
(***************************************************************************)
EXTENDS Integers, FiniteSetsExt

CONSTANTS
  Sizes,  \* sizes of images
  Texts   \* what tells one image from another

VECTORS_END == 32        \* eight entries of four bytes
CRP_END == 512 + 252 + 4 \* CRP_OFFSET and the word there

ASSUME ImagesAssumption == Sizes \subseteq Nat /\ Texts # {}

(* entry7: it balances entries 0 to 6; crp: the word there is one of the   *)
(* protection patterns.  Neither is in a file that is too short for it.    *)
Image == [text: Texts, size: Nat, entry7: BOOLEAN, crp: BOOLEAN]
Cut(f, n) == [text |-> f.text, size |-> n, entry7 |-> f.entry7 /\ n >= VECTORS_END,
              crp |-> f.crp /\ n >= CRP_END]
With7(f, right) == [text |-> f.text, size |-> f.size, entry7 |-> right, crp |-> f.crp]
Images == {f \in [text: Texts, size: Sizes, entry7: BOOLEAN, crp: BOOLEAN] : f = Cut(f, f.size)}

NoImage == [text |-> "", size |-> -1, entry7 |-> FALSE, crp |-> FALSE]

VARIABLES
  file,      \* the image on disk, or NoImage
  pc,
  calc_user_code, check_crp,  \* the options
  st_size,   \* the size stat returned, and of the buffer
  data, size,  \* what was loaded of the file
  ret,
  original,  \* history: the file when the program was started
  calm,      \* history: nobody else changed it since
  rewrite    \* history: the writing back: "none", "begun", "done" or "refused"

options == <<calc_user_code, check_crp>>
loaded == <<st_size, data, size>>
history == <<original, calm, rewrite>>
vars == <<file, pc, options, loaded, ret, history>>

Init ==
  /\ file \in Images \cup {NoImage}
  /\ pc = "idle" /\ calc_user_code = TRUE /\ check_crp = TRUE
  /\ st_size = 0 /\ data = NoImage /\ size = 0 /\ ret = 0
  /\ original = file /\ calm = TRUE /\ rewrite = "none"

Exit(r) == pc' = "exit" /\ ret' = r

Start ==
  /\ pc \in {"idle", "exit"}
  /\ pc' = "stat" /\ ret' = 0
  /\ calc_user_code' \in BOOLEAN /\ check_crp' \in BOOLEAN
  /\ st_size' = 0 /\ data' = NoImage /\ size' = 0
  /\ original' = file /\ calm' = TRUE /\ rewrite' = "none"
  /\ UNCHANGED file

Stat ==
  /\ pc = "stat"
  /\ \/ file # NoImage /\ pc' = "load" /\ st_size' = file.size /\ UNCHANGED ret
     \/ \* there is no such file, or no memory for it
        Exit(-2) /\ UNCHANGED st_size
  /\ UNCHANGED <<file, options, data, size, history>>

(* Mutant of Load: the option is not looked at.                            *)
LoadUpdating ==
  /\ pc = "load" /\ file # NoImage
  /\ size' = Min({file.size, st_size}) /\ data' = Cut(file, size')
  /\ IF size' = 0 THEN Exit(-2) ELSE pc' = "update" /\ UNCHANGED ret
  /\ UNCHANGED <<file, options, st_size, history>>

(* isp_file_to_buff: the file may be gone by now, or be of another size;   *)
(* no more than the buffer holds is read.                                  *)
Load ==
  /\ pc = "load" /\ file # NoImage
  /\ size' = Min({file.size, st_size}) /\ data' = Cut(file, size')
  /\ IF size' = 0 THEN Exit(-2)
     ELSE pc' = (IF calc_user_code THEN "update" ELSE "compare") /\ UNCHANGED ret
  /\ UNCHANGED <<file, options, st_size, history>>

(* Mutant of LoadFails: what isp_file_to_buff returns is not looked at.    *)
LoadFailsBlind ==
  /\ pc = "load"
  /\ size' \in {-13, -12} /\ pc' = "update"
  /\ UNCHANGED <<file, options, st_size, data, ret, history>>

LoadFails ==
  /\ pc = "load"
  /\ size' \in {-13, -12} /\ Exit(-2)
  /\ UNCHANGED <<file, options, st_size, data, history>>

(* isp_buff_to_file: the file is emptied, then written.  What it returns   *)
(* is not looked at.                                                       *)

(* Mutant of Truncate: entry 7 is not set in what is written.             *)
TruncateUncomputed ==
  /\ pc = "update"
  /\ \/ file' = Cut(data, 0) /\ pc' = "write" /\ rewrite' = "begun"
     \/ UNCHANGED file /\ pc' = "crp" /\ rewrite' = "refused"
  /\ UNCHANGED <<options, loaded, ret, original, calm>>

Truncate ==
  /\ pc = "update"
  /\ data' = With7(data, size >= VECTORS_END)
  /\ \/ file' = Cut(data, 0) /\ pc' = "write" /\ rewrite' = "begun"
     \/ \* the file can not be opened for writing
        UNCHANGED file /\ pc' = "crp" /\ rewrite' = "refused"
  /\ UNCHANGED <<options, st_size, size, ret, original, calm>>

Rewrite ==
  /\ pc = "write"
  /\ file' = data /\ rewrite' = "done"
  /\ pc' = "crp"
  /\ UNCHANGED <<options, loaded, ret, original, calm>>

(* The disk is full: only the beginning is written.                        *)
RewriteShort ==
  /\ pc = "write"
  /\ \E n \in Sizes : n < size /\ file' = Cut(data, n)
  /\ pc' = "crp"
  /\ UNCHANGED <<options, loaded, ret, history>>

(* Of an image that is too short, what is compared is whatever is there.   *)
Compare ==
  /\ pc = "compare"
  /\ \E right \in (IF size >= VECTORS_END THEN {data.entry7} ELSE BOOLEAN) :
       ret' = IF right THEN 0 ELSE -3
  /\ pc' = "crp"
  /\ UNCHANGED <<file, options, loaded, history>>

CheckCrp ==
  /\ pc = "crp"
  /\ \E protected \in (IF size >= CRP_END THEN {data.crp} ELSE BOOLEAN) :
       Exit(IF check_crp /\ protected THEN -4 ELSE ret)
  /\ UNCHANGED <<file, options, loaded, history>>

(***************************************************************************)
(* The others.                                                             *)
(***************************************************************************)
Edit ==
  /\ file' \in (Images \cup {NoImage}) \ {file}
  /\ calm' = FALSE
  /\ UNCHANGED <<pc, options, loaded, ret, original, rewrite>>

Kill ==
  /\ pc \notin {"idle", "exit"} /\ pc' = "idle"
  /\ UNCHANGED <<file, options, loaded, ret, history>>

Program == \/ Stat \/ Load \/ LoadFails \/ Truncate \/ Rewrite \/ RewriteShort
           \/ Compare \/ CheckCrp

Next == Start \/ Program \/ Edit \/ Kill

Spec == Init /\ [][Next]_vars

(***************************************************************************)
(* Properties.                                                             *)
(***************************************************************************)

(* Every variable keeps its type.                                          *)
TypeOK ==
  /\ file \in Image \cup {NoImage} /\ original \in Image \cup {NoImage}
  /\ pc \in {"idle", "stat", "load", "update", "write", "compare", "crp", "exit"}
  /\ {calc_user_code, check_crp, calm} \subseteq BOOLEAN
  /\ rewrite \in {"none", "begun", "done", "refused"}
  /\ st_size \in Nat /\ size \in Nat \cup {-13, -12} /\ data \in Image \cup {NoImage}
  /\ ret \in {0, -2, -3, -4}

(* Nothing of the image is changed but its entry 7, and that only when the *)
(* user did not say "-n"; its bytes are lost only while, or when, the      *)
(* rewriting of it does not come to its end.                               *)
OnlyEntry7 ==
  calm =>
    CASE rewrite \in {"none", "refused"} -> file = original
      [] rewrite = "begun" -> calc_user_code
      [] rewrite = "done" -> /\ calc_user_code
                             /\ file \in {original, With7(original, TRUE)}

(* An image for which 0 is returned has a right entry 7 and, if it is long *)
(* enough to have one, no protection word, unless the user asked not to    *)
(* look.  The exception is an image that could not be written back: the    *)
(* program says "File updated." all the same.                              *)
VerdictIsTrue ==
  pc = "exit" /\ calm /\ ret = 0 =>
    /\ check_crp => ~file.crp
    /\ file.size >= VECTORS_END => file.entry7 \/ rewrite \in {"begun", "refused"}
=============================================================================
