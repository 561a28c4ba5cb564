---------------------------- MODULE MCBinaryCheck ----------------------------
(* Two images of each kind: empty, too short for the vectors, too short    *)
(* for the protection word, and long enough.                               *)
EXTENDS BinaryCheck

SomeSizes == {0, 16, 100, 800}
TwoTexts  == {"mine", "other"}
=============================================================================
