-------------------------- MODULE BinaryCheckProofs --------------------------
(***************************************************************************)
(* That lpc_binary_check alters nothing of an image but entry 7 of its     *)
(* vectors, and that what it returns is so, for images of any sizes and    *)
(* any number of runs, whoever edits the file and whenever a run is killed.*)
(***************************************************************************)
EXTENDS BinaryCheck, TLAPS

(* No part of an image that is too short for it.                           *)
Whole(f) ==
  /\ f \in Image
  /\ f.entry7 => f.size >= VECTORS_END
  /\ f.crp => f.size >= CRP_END

(* What is in memory before the file is written back, and after entry 7    *)
(* was computed.                                                           *)
Computed(f) == With7(f, f.size >= VECTORS_END)

LoadedPlaces == {"update", "compare", "write", "crp"}

Typed ==
  /\ TypeOK
  /\ file # NoImage => Whole(file)
  /\ original # NoImage => Whole(original)
  /\ pc \in LoadedPlaces => Whole(data) /\ size = data.size

Placed ==
  /\ pc \in {"stat", "load", "update", "compare"} => rewrite = "none" /\ ret = 0
  /\ pc = "update" => calc_user_code
  /\ pc = "write" => rewrite = "begun" /\ calc_user_code
  /\ pc \in {"write", "crp"} /\ rewrite # "none" => ret = 0
  /\ pc = "crp" /\ rewrite # "none" => calc_user_code

Unchanged == calm /\ rewrite \in {"none", "refused"} => file = original

(* Of a file nobody else changed.                                          *)
Faithful ==
  calm =>
    /\ pc \in {"load"} \cup LoadedPlaces => original # NoImage
    /\ pc = "load" => st_size = original.size
    /\ pc \in {"update", "compare"} => data = original
    /\ pc = "write" => data = Computed(original)
    /\ pc = "crp" =>
         /\ rewrite = "none" => data = original /\ (ret = 0 /\ size >= VECTORS_END => data.entry7)
         /\ rewrite # "none" => data = Computed(original)
         /\ rewrite = "done" => file = data
         /\ rewrite = "begun" => file # NoImage /\ (file.crp => data.crp)

IInv == Typed /\ Placed /\ Unchanged /\ Faithful /\ OnlyEntry7 /\ VerdictIsTrue

(***************************************************************************)
(* Images.                                                                 *)
(***************************************************************************)

(* NoImage is none.                                                        *)
LEMMA NoImageIsNone == NoImage \notin Image
BY DEF NoImage, Image

(* Two images with the same four fields are the same.                      *)
LEMMA SameImage ==
  ASSUME NEW f \in Image, NEW g \in Image,
         f.text = g.text, f.size = g.size, f.entry7 = g.entry7, f.crp = g.crp
  PROVE  f = g
BY DEF Image

(* What is left of an image of which only the first bytes are kept.        *)
LEMMA CutImage ==
  ASSUME NEW f \in Image, NEW n \in Nat
  PROVE  /\ Whole(Cut(f, n))
         /\ Cut(f, n).text = f.text /\ Cut(f, n).size = n
         /\ Cut(f, n).entry7 = (f.entry7 /\ n >= VECTORS_END)
         /\ Cut(f, n).crp = (f.crp /\ n >= CRP_END)
BY DEF Cut, Image, Whole

(* Nothing is lost of an image all of whose bytes are kept.                *)
LEMMA CutWhole ==
  ASSUME NEW f, Whole(f)
  PROVE  Cut(f, f.size) = f
<1>1. f \in Image /\ f.size \in Nat
  BY DEF Whole, Image
<1>2. Cut(f, f.size) \in Image
  BY <1>1, CutImage DEF Whole
<1>3. /\ (f.entry7 /\ f.size >= VECTORS_END) = f.entry7
      /\ (f.crp /\ f.size >= CRP_END) = f.crp
  BY <1>1 DEF Whole, Image
<1> QED
  BY <1>1, <1>2, <1>3, CutImage, SameImage

(* The image with its entry 7 computed.                                    *)
LEMMA ComputedImage ==
  ASSUME NEW f, Whole(f)
  PROVE  /\ Whole(Computed(f))
         /\ Computed(f).text = f.text /\ Computed(f).size = f.size
         /\ Computed(f).entry7 = (f.size >= VECTORS_END)
         /\ Computed(f).crp = f.crp
         /\ Computed(f) \in {f, With7(f, TRUE)}
<1>1. f \in Image /\ f.size \in Nat
  BY DEF Whole, Image
<1>2. Computed(f) \in Image
  BY <1>1 DEF Computed, With7, Image
<1>3. CASE f.size >= VECTORS_END
  BY <1>1, <1>2, <1>3 DEF Computed, With7, Whole, Image
<1>4. CASE ~(f.size >= VECTORS_END)
  <2>1. f.entry7 = FALSE
    BY <1>1, <1>4 DEF Whole, Image
  <2>2. (f.size >= VECTORS_END) = FALSE
    BY <1>4
  <2>3. Computed(f) = With7(f, FALSE)
    BY <2>2 DEF Computed
  <2>4. f = With7(f, FALSE)
    BY <1>1, <2>1 DEF With7, Image
  <2>5. Computed(f) = f
    BY <2>3, <2>4
  <2> QED
    BY <2>1, <2>2, <2>5
<1> QED
  BY <1>3, <1>4

(* What a whole image has.                                                 *)
LEMMA WholeImage ==
  ASSUME NEW f, Whole(f)
  PROVE  /\ f \in Image /\ f.size \in Nat /\ f.entry7 \in BOOLEAN /\ f.crp \in BOOLEAN
         /\ f.crp => f.size >= CRP_END
         /\ f.entry7 => f.size >= VECTORS_END
         /\ f # NoImage
BY NoImageIsNone DEF Whole, Image

(* The images of the model are whole.                                      *)
LEMMA ImagesWhole ==
  ASSUME NEW f \in Images
  PROVE  Whole(f)
<1>1. f \in Image /\ f.size \in Nat /\ f = Cut(f, f.size)
  BY ImagesAssumption DEF Images, Image
<1> QED
  BY <1>1, CutImage

(* Of two numbers Min takes one that is not larger than the other.         *)
LEMMA MinOfTwo ==
  ASSUME NEW a \in Nat, NEW b \in Nat
  PROVE  Min({a, b}) = IF a <= b THEN a ELSE b
BY DEF Min

(***************************************************************************)
(* The invariant.                                                          *)
(***************************************************************************)

(* It holds before the first run.                                          *)
LEMMA InitIInv == Init => IInv
BY ImagesWhole, NoImageIsNone
   DEF Init, IInv, Typed, TypeOK, Placed, Unchanged, Faithful, OnlyEntry7, VerdictIsTrue,
       LoadedPlaces, Whole

(* A run begins: the file is what it was when the run began.               *)
LEMMA StartKeeps == IInv /\ Start => IInv'
<1> SUFFICES ASSUME IInv, Start PROVE IInv'
  OBVIOUS
<1> USE DEF IInv, LoadedPlaces
<1>1. Typed'
  BY NoImageIsNone DEF Typed, TypeOK, Start, Exit, options, loaded, history, Whole
<1>2. Placed'
  BY DEF Typed, TypeOK, Placed, Start, Exit, options, loaded, history
<1>3. Unchanged'
  BY DEF Typed, TypeOK, Placed, Unchanged, Start, Exit, options, loaded, history
<1>4. Faithful'
  BY NoImageIsNone DEF Typed, TypeOK, Placed, Unchanged, Faithful, Start, Exit, options, loaded, history
<1>5. OnlyEntry7'
  BY DEF Typed, TypeOK, Placed, Unchanged, Faithful, OnlyEntry7, Start, Exit, options, loaded, history
<1>6. VerdictIsTrue'
  BY DEF Typed, TypeOK, Placed, Unchanged, Faithful, VerdictIsTrue, Start, Exit, options, loaded, history
<1> QED
  BY <1>1, <1>2, <1>3, <1>4, <1>5, <1>6

(* The size the buffer gets is that of the file.                           *)
LEMMA StatKeeps == IInv /\ Stat => IInv'
<1> SUFFICES ASSUME IInv, Stat PROVE IInv'
  OBVIOUS
<1> USE DEF IInv, LoadedPlaces
<1>1. Typed'
  BY WholeImage DEF Typed, TypeOK, Stat, Exit, options, loaded, history
<1>2. Placed'
  BY DEF Typed, TypeOK, Placed, Stat, Exit, options, loaded, history
<1>3. Unchanged'
  BY DEF Typed, TypeOK, Placed, Unchanged, Stat, Exit, options, loaded, history
<1>4. Faithful'
  BY NoImageIsNone DEF Typed, TypeOK, Placed, Unchanged, Faithful, Stat, Exit, options, loaded, history
<1>5. OnlyEntry7'
  BY DEF Typed, TypeOK, Placed, Unchanged, Faithful, OnlyEntry7, Stat, Exit, options, loaded, history
<1>6. VerdictIsTrue'
  BY DEF Typed, TypeOK, Placed, Unchanged, Faithful, VerdictIsTrue, Stat, Exit, options, loaded, history
<1> QED
  BY <1>1, <1>2, <1>3, <1>4, <1>5, <1>6

(* What is loaded of a file nobody touched is all of it.                   *)
LEMMA LoadKeeps == IInv /\ Load => IInv'
<1> SUFFICES ASSUME IInv, Load PROVE IInv'
  OBVIOUS
<1> USE DEF IInv, LoadedPlaces
<1>1. Typed'
  <2>1. Whole(file) /\ file.size \in Nat /\ st_size \in Nat
    BY WholeImage DEF Typed, TypeOK, Load
  <2>2. size' \in Nat /\ data' = Cut(file, size')
    BY <2>1, MinOfTwo DEF Load
  <2>3. Whole(data') /\ data'.size = size' /\ data' \in Image
    BY <2>1, <2>2, WholeImage, CutImage
  <2> QED
    BY <2>2, <2>3 DEF Typed, TypeOK, Load, Exit, options, loaded, history
<1>2. Placed'
  BY DEF Typed, TypeOK, Placed, Load, Exit, options, loaded, history
<1>3. Unchanged'
  BY DEF Typed, TypeOK, Placed, Unchanged, Load, Exit, options, loaded, history
<1>4. Faithful'
  BY MinOfTwo, CutImage, CutWhole, NoImageIsNone DEF Typed, TypeOK, Placed, Unchanged, Faithful, Load, Exit, options, loaded, history
<1>5. OnlyEntry7'
  BY DEF Typed, TypeOK, Placed, Unchanged, Faithful, OnlyEntry7, Load, Exit, options, loaded, history
<1>6. VerdictIsTrue'
  BY DEF Typed, TypeOK, Placed, Unchanged, Faithful, VerdictIsTrue, Load, Exit, options, loaded, history
<1> QED
  BY <1>1, <1>2, <1>3, <1>4, <1>5, <1>6

(* A run that can not read the file leaves it alone.                       *)
LEMMA LoadFailsKeeps == IInv /\ LoadFails => IInv'
<1> SUFFICES ASSUME IInv, LoadFails PROVE IInv'
  OBVIOUS
<1> USE DEF IInv, LoadedPlaces
<1>1. Typed'
  BY NoImageIsNone DEF Typed, TypeOK, LoadFails, Exit, options, loaded, history, Whole
<1>2. Placed'
  BY DEF Typed, TypeOK, Placed, LoadFails, Exit, options, loaded, history
<1>3. Unchanged'
  BY DEF Typed, TypeOK, Placed, Unchanged, LoadFails, Exit, options, loaded, history
<1>4. Faithful'
  BY NoImageIsNone DEF Typed, TypeOK, Placed, Unchanged, Faithful, LoadFails, Exit, options, loaded, history
<1>5. OnlyEntry7'
  BY DEF Typed, TypeOK, Placed, Unchanged, Faithful, OnlyEntry7, LoadFails, Exit, options, loaded, history
<1>6. VerdictIsTrue'
  BY DEF Typed, TypeOK, Placed, Unchanged, Faithful, VerdictIsTrue, LoadFails, Exit, options, loaded, history
<1> QED
  BY <1>1, <1>2, <1>3, <1>4, <1>5, <1>6

(* The buffer holds the image with entry 7 computed, the file nothing yet. *)
LEMMA TruncateKeeps == IInv /\ Truncate => IInv'
<1> SUFFICES ASSUME IInv, Truncate PROVE IInv'
  OBVIOUS
<1> USE DEF IInv, LoadedPlaces
<1>1. Typed'
  <2>1. Whole(data) /\ size = data.size /\ size \in Nat
    BY WholeImage DEF Typed, Truncate
  <2>2. data' = Computed(data) /\ size' = size
    BY <2>1 DEF Truncate, Computed
  <2>3. Whole(data') /\ data' \in Image /\ data'.size = size'
    BY <2>1, <2>2, ComputedImage, WholeImage
  <2>4. Whole(Cut(data, 0)) /\ Cut(data, 0) \in Image
    BY <2>1, CutImage, WholeImage
  <2> QED
    BY <2>2, <2>3, <2>4 DEF Typed, TypeOK, Truncate, options, loaded, history
<1>2. Placed'
  BY DEF Typed, TypeOK, Placed, Truncate, options, loaded, history
<1>3. Unchanged'
  BY DEF Typed, TypeOK, Placed, Unchanged, Truncate, options, loaded, history
<1>4. Faithful'
  <2>1. Whole(data) /\ size = data.size
    BY DEF Typed, Truncate
  <2>2. data' = Computed(data)
    BY <2>1 DEF Truncate, Computed
  <2> QED
    BY <2>2 DEF Typed, TypeOK, Placed, Unchanged, Faithful, Truncate, options, history
<1>5. OnlyEntry7'
  BY DEF Typed, TypeOK, Placed, Unchanged, Faithful, OnlyEntry7, Truncate, options, loaded, history
<1>6. VerdictIsTrue'
  BY DEF Typed, TypeOK, Placed, Unchanged, Faithful, VerdictIsTrue, Truncate, options, loaded, history
<1> QED
  BY <1>1, <1>2, <1>3, <1>4, <1>5, <1>6

(* The file is the image again, with entry 7 computed.                     *)
LEMMA RewriteKeeps == IInv /\ Rewrite => IInv'
<1> SUFFICES ASSUME IInv, Rewrite PROVE IInv'
  OBVIOUS
<1> USE DEF IInv, LoadedPlaces
<1>1. Typed'
  BY NoImageIsNone DEF Typed, TypeOK, Rewrite, options, loaded, history, Whole
<1>2. Placed'
  BY DEF Typed, TypeOK, Placed, Rewrite, options, loaded, history
<1>3. Unchanged'
  BY DEF Typed, TypeOK, Placed, Unchanged, Rewrite, options, loaded, history
<1>4. Faithful'
  BY NoImageIsNone DEF Typed, TypeOK, Placed, Unchanged, Faithful, Rewrite, options, loaded, history
<1>5. OnlyEntry7'
  <2> SUFFICES ASSUME calm' PROVE calc_user_code' /\ file' \in {original', With7(original', TRUE)}
    BY DEF Rewrite, OnlyEntry7
  <2>1. calm /\ original' = original /\ file' = Computed(original)
    BY DEF Rewrite, Faithful, history
  <2>2. Whole(data) /\ data = Computed(original) /\ data # NoImage
    BY <2>1, WholeImage DEF Rewrite, Typed, Faithful
  <2>3. Whole(original)
    BY <2>1 DEF Rewrite, Typed, Faithful
  <2>4. file' \in {original, With7(original, TRUE)}
    BY <2>1, <2>3, ComputedImage
  <2> QED
    BY <2>1, <2>4 DEF Rewrite, Placed, options
<1>6. VerdictIsTrue'
  BY DEF Typed, TypeOK, Placed, Unchanged, Faithful, VerdictIsTrue, Rewrite, options, loaded, history
<1> QED
  BY <1>1, <1>2, <1>3, <1>4, <1>5, <1>6

(* The file is the beginning of the image.                                 *)
LEMMA RewriteShortKeeps == IInv /\ RewriteShort => IInv'
<1> SUFFICES ASSUME IInv, RewriteShort PROVE IInv'
  OBVIOUS
<1> USE DEF IInv, LoadedPlaces
<1>1. Typed'
  <2>1. PICK n \in Sizes : n < size /\ file' = Cut(data, n)
    BY DEF RewriteShort
  <2>2. n \in Nat /\ Whole(data) /\ data \in Image
    BY WholeImage, ImagesAssumption DEF Typed, RewriteShort
  <2>3. Whole(file') /\ file' \in Image
    BY <2>1, <2>2, CutImage, WholeImage
  <2> QED
    BY <2>3 DEF Typed, TypeOK, RewriteShort, options, loaded, history
<1>2. Placed'
  BY DEF Typed, TypeOK, Placed, RewriteShort, options, loaded, history
<1>3. Unchanged'
  BY DEF Typed, TypeOK, Placed, Unchanged, RewriteShort, options, loaded, history
<1>4. Faithful'
  <2>1. PICK n \in Sizes : n < size /\ file' = Cut(data, n)
    BY DEF RewriteShort
  <2>2. n \in Nat /\ data \in Image
    BY WholeImage, ImagesAssumption DEF Typed, RewriteShort
  <2>3. file' # NoImage /\ (file'.crp => data.crp)
    BY <2>1, <2>2, CutImage, WholeImage
  <2> QED
    BY <2>3 DEF Typed, TypeOK, Placed, Faithful, RewriteShort, options, loaded, history
<1>5. OnlyEntry7'
  BY DEF Typed, TypeOK, Placed, Unchanged, Faithful, OnlyEntry7, RewriteShort, options, loaded, history
<1>6. VerdictIsTrue'
  BY DEF Typed, TypeOK, Placed, Unchanged, Faithful, VerdictIsTrue, RewriteShort, options, loaded, history
<1> QED
  BY <1>1, <1>2, <1>3, <1>4, <1>5, <1>6

(* 0 stands for a right entry 7.                                           *)
LEMMA CompareKeeps == IInv /\ Compare => IInv'
<1> SUFFICES ASSUME IInv, Compare PROVE IInv'
  OBVIOUS
<1> USE DEF IInv, LoadedPlaces
<1>1. Typed'
  BY NoImageIsNone DEF Typed, TypeOK, Compare, options, loaded, history, Whole
<1>2. Placed'
  BY DEF Typed, TypeOK, Placed, Compare, options, loaded, history
<1>3. Unchanged'
  BY DEF Typed, TypeOK, Placed, Unchanged, Compare, options, loaded, history
<1>4. Faithful'
  BY NoImageIsNone DEF Typed, TypeOK, Placed, Unchanged, Faithful, Compare, options, loaded, history
<1>5. OnlyEntry7'
  BY DEF Typed, TypeOK, Placed, Unchanged, Faithful, OnlyEntry7, Compare, options, loaded, history
<1>6. VerdictIsTrue'
  BY DEF Typed, TypeOK, Placed, Unchanged, Faithful, VerdictIsTrue, Compare, options, loaded, history
<1> QED
  BY <1>1, <1>2, <1>3, <1>4, <1>5, <1>6

(* The verdict is that of the file on disk.                                *)
LEMMA CheckCrpKeeps == IInv /\ CheckCrp => IInv'
<1> SUFFICES ASSUME IInv, CheckCrp PROVE IInv'
  OBVIOUS
<1> USE DEF IInv, LoadedPlaces
<1>1. Typed'
  BY NoImageIsNone DEF Typed, TypeOK, CheckCrp, Exit, options, loaded, history, Whole
<1>2. Placed'
  BY DEF Typed, TypeOK, Placed, CheckCrp, Exit, options, loaded, history
<1>3. Unchanged'
  BY DEF Typed, TypeOK, Placed, Unchanged, CheckCrp, Exit, options, loaded, history
<1>4. Faithful'
  BY NoImageIsNone DEF Typed, TypeOK, Placed, Unchanged, Faithful, CheckCrp, Exit, options, loaded, history
<1>5. OnlyEntry7'
  BY DEF Typed, TypeOK, Placed, Unchanged, Faithful, OnlyEntry7, CheckCrp, Exit, options, loaded, history
<1>6. VerdictIsTrue'
  <2> SUFFICES ASSUME calm, ret' = 0
               PROVE  /\ check_crp => ~file.crp
                      /\ file.size >= VECTORS_END => file.entry7 \/ rewrite \in {"begun", "refused"}
    BY DEF CheckCrp, VerdictIsTrue, options, history
  <2>1. Whole(data) /\ size = data.size /\ Whole(original)
    BY DEF Typed, CheckCrp, Faithful
  <2>2. ret = 0 /\ (check_crp /\ size >= CRP_END => ~data.crp)
    BY DEF CheckCrp, Exit
  <2>3. check_crp => ~data.crp
    BY <2>1, <2>2, WholeImage
  <2>4. rewrite \in {"none", "begun", "done", "refused"}
    BY DEF Typed, TypeOK
  <2>5. CASE rewrite = "none"
    BY <2>2, <2>3, <2>5, <2>1 DEF CheckCrp, Unchanged, Faithful
  <2>6. CASE rewrite = "done"
    BY <2>1, <2>3, <2>6, ComputedImage DEF CheckCrp, Faithful
  <2>7. CASE rewrite = "begun"
    BY <2>3, <2>7 DEF CheckCrp, Faithful
  <2>8. CASE rewrite = "refused"
    <3>1. file = original /\ data = Computed(original)
      BY <2>8 DEF CheckCrp, Unchanged, Faithful
    <3>2. data.crp = file.crp
      BY <2>1, <3>1, ComputedImage
    <3> QED
      BY <2>3, <2>8, <3>2
  <2> QED
    BY <2>4, <2>5, <2>6, <2>7, <2>8
<1> QED
  BY <1>1, <1>2, <1>3, <1>4, <1>5, <1>6

(* Nothing is claimed of a run during which somebody else edits the file.  *)
LEMMA EditKeeps == IInv /\ Edit => IInv'
<1> SUFFICES ASSUME IInv, Edit PROVE IInv'
  OBVIOUS
<1> USE DEF IInv, LoadedPlaces
<1>1. Typed'
  <2>1. file' # NoImage => Whole(file') /\ file' \in Image
    BY ImagesWhole, WholeImage DEF Edit
  <2>2. file' \in Image \cup {NoImage}
    BY <2>1
  <2>3. TypeOK'
    BY <2>2 DEF Typed, TypeOK, Edit, options, loaded
  <2> QED
    BY <2>1, <2>3 DEF Typed, Edit, options, loaded
<1>2. Placed'
  BY DEF Typed, TypeOK, Placed, Edit, options, loaded, history
<1>3. Unchanged'
  BY DEF Typed, TypeOK, Placed, Unchanged, Edit, options, loaded, history
<1>4. Faithful'
  BY ImagesWhole, NoImageIsNone DEF Typed, TypeOK, Placed, Unchanged, Faithful, Edit, options, loaded, history
<1>5. OnlyEntry7'
  BY DEF Typed, TypeOK, Placed, Unchanged, Faithful, OnlyEntry7, Edit, options, loaded, history
<1>6. VerdictIsTrue'
  BY DEF Typed, TypeOK, Placed, Unchanged, Faithful, VerdictIsTrue, Edit, options, loaded, history
<1> QED
  BY <1>1, <1>2, <1>3, <1>4, <1>5, <1>6

(* A run that is killed leaves the file as it is by then.                  *)
LEMMA KillKeeps == IInv /\ Kill => IInv'
<1> SUFFICES ASSUME IInv, Kill PROVE IInv'
  OBVIOUS
<1> USE DEF IInv, LoadedPlaces
<1>1. Typed'
  BY NoImageIsNone DEF Typed, TypeOK, Kill, options, loaded, history, Whole
<1>2. Placed'
  BY DEF Typed, TypeOK, Placed, Kill, options, loaded, history
<1>3. Unchanged'
  BY DEF Typed, TypeOK, Placed, Unchanged, Kill, options, loaded, history
<1>4. Faithful'
  BY NoImageIsNone DEF Typed, TypeOK, Placed, Unchanged, Faithful, Kill, options, loaded, history
<1>5. OnlyEntry7'
  BY DEF Typed, TypeOK, Placed, Unchanged, Faithful, OnlyEntry7, Kill, options, loaded, history
<1>6. VerdictIsTrue'
  BY DEF Typed, TypeOK, Placed, Unchanged, Faithful, VerdictIsTrue, Kill, options, loaded, history
<1> QED
  BY <1>1, <1>2, <1>3, <1>4, <1>5, <1>6
(* A step of nobody changes nothing.                                      *)
LEMMA StutterKeeps == IInv /\ UNCHANGED vars => IInv'
<1> SUFFICES ASSUME IInv, UNCHANGED vars PROVE IInv'
  OBVIOUS
<1> USE DEF IInv, LoadedPlaces, vars, options, loaded, history
<1>1. Typed'
  BY DEF Typed, TypeOK
<1>2. Placed' /\ Unchanged'
  BY DEF Placed, Unchanged
<1>3. Faithful'
  BY DEF Faithful
<1>4. OnlyEntry7' /\ VerdictIsTrue'
  BY DEF OnlyEntry7, VerdictIsTrue
<1> QED
  BY <1>1, <1>2, <1>3, <1>4

(* The invariant of the whole program.                                     *)
THEOREM Invariance == Spec => []IInv
<1>1. IInv /\ [Next]_vars => IInv'
  BY StartKeeps, StatKeeps, LoadKeeps, LoadFailsKeeps, TruncateKeeps, RewriteKeeps,
     RewriteShortKeeps, CompareKeeps, CheckCrpKeeps, EditKeeps, KillKeeps, StutterKeeps
     DEF Next, Program
<1> QED
  BY InitIInv, <1>1, PTL DEF Spec

(* Every variable keeps its type, for images of any sizes.                 *)
THEOREM TypeCorrect == Spec => []TypeOK
<1>1. IInv => TypeOK
  BY DEF IInv, Typed
<1> QED
  BY Invariance, <1>1, PTL

(* isp_buff_to_file is given an image of which only entry 7 was touched,   *)
(* and only when the user wants it: nothing else of a file is ever changed,*)
(* unless the writing breaks off.                                          *)
THEOREM OnlyEntry7Correct == Spec => []OnlyEntry7
<1>1. IInv => OnlyEntry7
  BY DEF IInv
<1> QED
  BY Invariance, <1>1, PTL

(* What main returns is so of the file that is on disk by then.            *)
THEOREM VerdictIsTrueCorrect == Spec => []VerdictIsTrue
<1>1. IInv => VerdictIsTrue
  BY DEF IInv
<1> QED
  BY Invariance, <1>1, PTL
=============================================================================
